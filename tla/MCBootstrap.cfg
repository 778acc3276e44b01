SPECIFICATION BootFairSpec
CONSTANTS
    sigsvc = sigsvc
    a = a
    b = b
    int = int
    term = term
    Kind <- MCKind
    Configs <- MCConfigs
    Sig <- sigsvc
    MaxRaises = 3
    Services <- MCServices
    Leaky <- MCLeaky
    Heedful <- MCHeedful
CHECK_DEADLOCK FALSE
INVARIANTS
    OkMeansAllExited
PROPERTIES
    GracefulUnlessForced
    SignalEndsProcess
