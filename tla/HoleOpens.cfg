CONSTANTS
  Orders = {o1}
  Workers = {w1, w2}
  Worlds <- MCGone
  MaxFaults = 1
  MaxTries = 1
  MaxSyncs = 0
  None = None
SPECIFICATION MallSpec
INVARIANTS
  AckedIsCredited
CHECK_DEADLOCK FALSE
