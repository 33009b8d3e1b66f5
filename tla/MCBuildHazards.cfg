SPECIFICATION Spec
CONSTANTS
  a = a
  b = b
  Contents = {a, b}
  None = None
  MaxRevs = 2
  WalkLimit = 2
  Hazards = {"crash", "fail", "persist", "unread"}
INVARIANTS
  CachesHonest
  PassesCurrent
SYMMETRY Symmetry
