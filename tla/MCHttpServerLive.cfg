SPECIFICATION MCFairSpec
CONSTANTS
    Machines = {"server"}
    None = None
    Backends = {"http1", "http2", "http3"}
    Failures = {"error", "closed"}
    Group = {g1, g2}
    Worker = {w1}
    Conn = {c1}
    Request = {r1}
    Call = {"start1", "start2", "shutdown1"}
    Drops = {}
    Op <- MCOp
    Holder = {h1}
    Timeout = 1
    Lag = 1
    Methods = {"GET"}
    Lengths <- MCLengths
    MaxFrame = 1
    MaxBody = 1
CHECK_DEADLOCK FALSE
INVARIANTS
    OnCloseIsLast
PROPERTIES
    ShutdownReturns
