SPECIFICATION AdminsSpec
CONSTANTS
  r1 = r1
  r2 = r2
  r3 = r3
  None = None
  Runs = {r1, r2, r3}
  Clicks = {a1, a2}
  MaxRetry = 1
  DownloadFailureLimit = 2
  Overlap = TRUE
  Watchdog = FALSE
  OldSuccess = FALSE
  CrashAt = {"create", "hook", "mark", "pay", "recordRefund", "recordAbandon",
             "claimed", "paying", "confirming"}
  Faults = {"plan", "charge", "record", "pay", "confirm"}
  CalmCrashAt = {"load", "check", "charge", "create", "saveRef", "hook",
                 "poll", "recordFailure", "takeRef", "askRefunded", "mark",
                 "restore", "consume", "download", "countFailure", "abandon",
                 "history", "recordDelivered", "clearRef"}
SYMMETRY Twins
INVARIANTS
  TypeOK
  RefundOncePerTask
  OneManualRefundPerRow
  AdminsSettle
CHECK_DEADLOCK FALSE
