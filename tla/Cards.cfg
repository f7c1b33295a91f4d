CONSTANT None = None
SPECIFICATION Spec
CHECK_DEADLOCK FALSE
INVARIANTS
  DraftsSurvive
  PicturesAgree
  ScriptHoldsTogether
PROPERTIES
  HandIsKept
  NothingHangs
