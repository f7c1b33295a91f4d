SPECIFICATION FairSpec
CONSTANTS
  None = None
  Runs = {r1, r2, r3}
  Clicks = {}
  MaxRetry = 1
  DownloadFailureLimit = 2
  Overlap = FALSE
  Watchdog = TRUE
  OldSuccess = FALSE
  CrashAt = {"load", "check", "charge", "create", "saveRef", "hook",
             "poll", "recordFailure", "takeRef", "askRefunded", "mark",
             "restore", "consume", "download", "countFailure", "abandon",
             "history", "recordDelivered", "clearRef"}
  Faults = {"pay", "mark"}
PROPERTIES
  EveryChargeSettles
CHECK_DEADLOCK FALSE
