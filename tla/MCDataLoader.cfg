SPECIFICATION FairSpec
CONSTANTS
    c1 = c1
    c2 = c2
    k1 = k1
    k2 = k2
    k3 = k3
    Caller <- MCCaller
    Key <- MCKey
    Loads <- MCLoads
    Free = Free
    BatchSize = 2
    Concurrency = 1
    Delay = 2
    Lag = 1
INVARIANTS
    LoadIsRight
PROPERTIES
    CallersReturn
