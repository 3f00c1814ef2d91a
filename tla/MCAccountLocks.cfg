CONSTANTS
  r1 = r1
  r2 = r2
  c1 = c1
  c2 = c2
  m1 = m1
  m2 = m2
  All = All
  NoConn = NoConn
  Req <- MCTwoReq
  Conn <- MCTwoConn
  Model <- MCTwoModel
  Failure <- MCEveryFailure
  ResetIn <- MCResetIn
  MaxReset = 3
  Base = 1
  MaxBackoff = 2
  MaxLevel = 1
  Fixed = 2
  Window = 2
  Reverifies = TRUE
  MaxTime = 2
  MaxRequests = 2
SPECIFICATION Spec
INVARIANTS HonestUncontended
PROPERTIES RetryNotTooLate ClearOnlyExpired
CHECK_DEADLOCK FALSE
SYMMETRY MCSymmetry
