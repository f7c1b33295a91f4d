SPECIFICATION Spec
CONSTANTS
  Execs = {e1}
  Workers = {w1, w2}
  Reclaimer = reclaimer
  Nobody = nobody
  MaxRetry = 1
  MaxLen = 5
  MaxEntries = 5
  MaxCrash = 1
  CrashAt = {"moving"}
  Stall = FALSE
  Faults = {}
INVARIANTS
  OneRunPerExecution
CHECK_DEADLOCK FALSE
