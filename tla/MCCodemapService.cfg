CONSTANTS
  Threads = {t1, t2, t3}
  SameName = TRUE
  DiskFails = TRUE
  MaxHead = 2
  MaxCalls = 4
  MaxCrashes = 1
SYMMETRY AnyThread
SPECIFICATION Spec
INVARIANTS QueryConsistent OneBuilder IndexOnlyWhenMissing UpdatedMeansPublished
PROPERTIES ImplementsAtomicProduct
