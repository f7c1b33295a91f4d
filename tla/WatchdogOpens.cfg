SPECIFICATION Spec
CONSTANTS
  None = None
  Runs = {r1, r2}
  Clicks = {a1}
  MaxRetry = 1
  MaxAsked = 1
  Funds = {2}
  Units = {1}
  MaxFaults = 1
  Troubles = {"direct"}
SYMMETRY Symmetry
PROPERTIES
  WatchdogOpensTheWay
CHECK_DEADLOCK FALSE
