CONSTANTS
    r1 = r1  r2 = r2  r3 = r3  a1 = a1  a2 = a2
    Req <- MCReq
    Account <- MCAccount
    acct <- MCAcct
    Rotating <- MCOne
    NoReq = NoReq
    LockCap = 1
    SlotCap = 1
    Ttl = 1
    MaxAttempts = 2
    MaxVersion = 2
    MaxTime = 1
    Faults <- MCFaults
SPECIFICATION Spec
INVARIANTS WaitersHaveRefresh SingleFlight SlotsBalanced IssuedTokenWritten
PROPERTIES NoReplayWhileKept
SYMMETRY MCSymmetry
CHECK_DEADLOCK FALSE
