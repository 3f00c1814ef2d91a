CONSTANTS
    r1 = r1  s1 = s1
    Req <- MCReq
    M = 2
    Session <- MCSession
    StickyLimit = 2
    StickyTtl = 1
    MaxRounds = 1
    MaxWait = 1
    DefaultWait = 1
    Margin = 1
    Cooldown = 2
    MaxTime = 3
SPECIFICATION FairSpec
INVARIANTS RotationFair
PROPERTIES NoModelForgotten SessionMovesForCause EveryRequestAnswered
CHECK_DEADLOCK FALSE
