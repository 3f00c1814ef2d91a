CONSTANTS
    r1 = r1  r2 = r2
    Req <- MCReq
    Limit = 1
    Learnable <- MCLearnable
    LearnedTtl = 2
    Quota = 2
    Quiet = 2
    BucketCount = 2
    BucketTicks = 2
    MaxTime = 7
    MaxEvents = 4
SPECIFICATION Spec
INVARIANTS CountIsStreak WindowRespected
PROPERTIES ComponentsKept
CHECK_DEADLOCK FALSE
SYMMETRY MCSymmetry
