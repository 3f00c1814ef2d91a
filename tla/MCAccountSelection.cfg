CONSTANTS
  r1 = r1
  r2 = r2
  r3 = r3
  NoConn = NoConn
  Req <- MCTwo
  Conn <- MCConn
  StickyLimit = 2
  Strategy <- MCStrategy
  MaxTime = 2
  MaxTickets = 4
SPECIFICATION FairSpec
INVARIANTS MutualExclusion FirstComeFirstServed
PROPERTIES SelectsAtomically RotationMovesOn EveryRequestAnswered
CHECK_DEADLOCK FALSE
