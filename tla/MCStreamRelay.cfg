CONSTANTS
    c1 = c1  c2 = c2
    Conn <- MCConn
    Own = c1
    Chunks <- MCChunks
    MaxChunks = 3
    MaxOthers = 1
SPECIFICATION FairSpec
INVARIANTS NeverShownAfterEnd CountedExactly EndMarked
PROPERTIES StreamKeepsProtocol EveryStreamEnds
CHECK_DEADLOCK FALSE
