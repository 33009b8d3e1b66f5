SPECIFICATION Spec
CONSTANTS
  a = a
  b = b
  Contents = {a, b}
  None = None
  MaxRevs = 3
  WalkLimit = 2
  Hazards = {"dirty"}
INVARIANTS
  FreshIsCurrent
SYMMETRY Symmetry
