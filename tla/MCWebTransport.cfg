SPECIFICATION PeerFairSpec
CONSTANTS
    s1 = s1
    s2 = s2
    u1 = u1
    u2 = u2
    b1 = b1
    d1 = d1
    None = None
    Session <- MCSession
    Item <- MCItem
    Kind <- MCKind
    To <- MCTo
    SessionCap = 1
    RequestCap = 1
    Plans <- MCPlans
CHECK_DEADLOCK FALSE
INVARIANTS
    MapIsLive
PROPERTIES
    EstablishedIsRouted
    CallsReturn
