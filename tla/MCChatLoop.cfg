CONSTANTS
  c1 = c1
  c2 = c2
  s1 = s1
  NoConn = NoConn
  Conn <- MCTwo
  Keyed <- MCTwo
  Elsewhere <- MCSource
  Pooled = TRUE
  Weighted = TRUE
  Budget = 2
  MaxFakes = 2
  Cooldown = 1
  MaxTime = 3
SPECIFICATION FairSpec
PROPERTIES NeverTriedTwice RefusedForCause EveryRequestAnswered
CHECK_DEADLOCK FALSE
