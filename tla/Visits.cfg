SPECIFICATION VisitsSpec
CONSTANTS
  None = None
  A = A
  B = B
  a = a
  a2 = a2
  b = b
  Projects = {A, B}
  Nodes = {a, a2, b}
  HomeOf <- MCHome
  SiblingOf <- MCSibling
  MaxRuns = 2
  MaxEntries = 2
  MaxClicks = 1
  Losses = {"load","save","execute","status","stream"}
  Hasty = FALSE
  Again = FALSE
  Left = {"nothing", "card", "execution"}
  QueuedTasks = {e1}
  Workers = {w1, w2}
  Reclaimer = reclaimer
  Nobody = nobody
  CrashAt = {"check", "lock", "find", "start", "running", "setDone", "retry", "dead", "ack", "release"}
CHECK_DEADLOCK FALSE
INVARIANTS
  FailedForAReason
  CanvasesApart
PROPERTIES
  EverythingEnds
