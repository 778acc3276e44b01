SPECIFICATION MCSpec
CONSTANTS
    Machines = {"server", "timer", "body"}
    None = None
    Backends = {"http3"}
    Failures = {"error"}
    Group = {g1, g2}
    Worker = {w1, w2}
    Conn = {c1}
    Request = {r1}
    Call = {"start1", "start2", "wait1", "shutdown1"}
    Drops = {"wait1"}
    Op <- MCOp
    Holder = {h1, h2, h3}
    Timeout = 4
    Lag = 2
    Methods = {"GET", "POST"}
    Lengths <- MCLengths
    MaxFrame = 2
    MaxBody = 4
CHECK_DEADLOCK FALSE
SYMMETRY Symmetry
INVARIANTS
    NoStrayGroup
    ClosedIsIdle
    MaxIdle
    BodyIsFaithful
PROPERTIES
    ShutdownClosesGroup
