CONSTANTS
  b1 = b1
  b2 = b2
  c1 = c1
  m1 = m1
  m2 = m2
  NoConn = NoConn
  NoLogical = NoLogical
  Base <- MCBase
  Conn <- MCConn
  Logical <- MCLogical
  Seconds <- MCSeconds
  MaxTime = 2
  MaxUsed = 1
  MaxPending = 2
  MaxCalls = 4
  MaxCrashes = 1
  WriteMayFail = FALSE
SPECIFICATION Spec
INVARIANTS IndexConsistent PersistedMatchesMemory
PROPERTIES CooldownOnlyExtends
CHECK_DEADLOCK FALSE
