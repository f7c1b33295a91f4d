SPECIFICATION Spec
CONSTANTS
  None = None
  Runs = {r1, r2, r3}
  Clicks = {}
  MaxRetry = 1
  DownloadFailureLimit = 2
  Overlap = FALSE
  Watchdog = FALSE
  OldSuccess = FALSE
  CrashAt = {"load", "check", "charge", "create", "saveRef", "hook",
             "poll", "recordFailure", "takeRef", "askRefunded", "mark",
             "restore", "consume", "download", "countFailure", "abandon",
             "history", "recordDelivered", "clearRef"}
  Faults = {"pay"}
SYMMETRY Symmetry
INVARIANTS
  RefundOncePerCharge
  DeliveredNeverRefunded
  OneOutstandingCharge
  RefundedMeansPaid
  SettledWhenQuiet
PROPERTIES
  RefundedIsFinal
  ImplementsLifecycle
CHECK_DEADLOCK FALSE
