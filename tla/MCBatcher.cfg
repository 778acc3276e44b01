SPECIFICATION FairSpec
CONSTANTS
    c1 = c1
    c2 = c2
    Caller <- MCCaller
    Count <- MCCount
    Free = Free
    BatchSize = 2
    Concurrency = 1
    Delay = 2
    Lag = 1
INVARIANTS
    NoRequestLost
    DelayBounded
PROPERTIES
    CallersReturn
