SPECIFICATION Spec
CONSTANTS
  None = None
  Images = {a, b}
  Scripts = {s, t}
  Groups = {g, h}
  Shown = {a}
  Loaded = {s, a, b}
  PadBefore = 4
  PadAfter = 2
  Widths = {4, 8}
  Moves = {20}
  Slips = {2}
  MaxHistory = 3
  MaxOps = 3
INVARIANTS
  GroupsWellFormed
  EditsAreKnown
PROPERTIES
  NodesStay
  RefsVanishWithNode
CHECK_DEADLOCK FALSE
