SPECIFICATION Spec
CONSTANTS
  a = a
  b = b
  c = c
  Contents = {a, b, c}
  None = None
  MaxRevs = 2
  WalkLimit = 2
  Hazards = {"dirty", "cancel", "crash", "slow"}
INVARIANTS
  CompletedIsCurrent
  WholeGraph
  WalksComplete
  CommittedFreshIsCurrent
SYMMETRY Symmetry
