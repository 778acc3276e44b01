SPECIFICATION FairSpec
CONSTANTS
    g = g
    h = h
    c1 = c1
    c2 = c2
    w1 = w1
    w2 = w2
    Node <- MCNode
    Global = g
    Ctx <- MCCtx
    Call <- MCCall
    Ops <- MCOps
PROPERTIES
    DoneReturns
CHECK_DEADLOCK FALSE
