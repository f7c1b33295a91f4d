SPECIFICATION QueuesSpec
CONSTANTS
  Execs = {e1, e2}
  Workers = {w1, w2}
  Reclaimer = reclaimer
  Nobody = nobody
  MaxRetry = 1
  MaxLen = 5
  MaxEntries = 5
  MaxCrash = 1
  CrashAt = {"check", "lock", "find", "start", "running", "retry", "dead", "release"}
  RestartCrashAt = {"check", "lock", "find", "start", "running", "setDone", "retry", "dead", "ack", "release"}
  Stall = FALSE
  Faults = {"lock", "retry"}
  AllFaults = {"enqueue", "exists", "lock", "done", "retry", "ack", "move"}
SYMMETRY Symmetry
INVARIANTS
  OneRunPerExecution
  NoTaskLost
  RunsStayBounded
PROPERTIES
  DoneIsFinal
  RefusedStaysRefused
CHECK_DEADLOCK FALSE
