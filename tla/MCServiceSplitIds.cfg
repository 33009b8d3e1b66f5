CONSTANTS
  Threads = {t1, t2}
  SameName = FALSE
  DiskFails = FALSE
  MaxHead = 2
  MaxCalls = 2
  MaxCrashes = 0
SPECIFICATION Spec
INVARIANTS QueryConsistent
