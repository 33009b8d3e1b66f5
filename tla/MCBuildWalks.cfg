SPECIFICATION Spec
CONSTANTS
  a = a
  b = b
  Contents = {a, b}
  None = None
  MaxRevs = 3
  WalkLimit = 1
  Hazards = {}
INVARIANTS
  NoOldWalks
  WalksThere
SYMMETRY Symmetry
