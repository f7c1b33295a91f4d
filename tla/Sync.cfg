SPECIFICATION Spec
CONSTANTS
  None = None
  Runs = {r1, r2, r3}
  Clicks = {a1, a2}
  MaxRetry = 1
  MaxAsked = 2
  Funds = {2}
  Units = {0, 1}
  MaxFaults = 2
  Troubles = {"none", "unrecorded", "unsettled", "unacked", "click", "pay", "record",
              "edit", "gone", "unread", "stale", "direct"}
SYMMETRY Symmetry
INVARIANTS
  ReturnedOnce
  DeliveredStaysPaid
  ChargedOnce
  SettledWhenQuiet
PROPERTIES
  ImplementsLifecycle
CHECK_DEADLOCK FALSE
