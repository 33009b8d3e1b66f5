CONSTANTS
  t1 = t1
  t2 = t2
  t3 = t3
  Threads = {t1, t2, t3}
  PoolMax = 2
  Removed = TRUE
  MaxLost = 1
  MaxVersions = 5
  MaxCalls = 3
  MaxTimers = 1
SPECIFICATION FairSpec
INVARIANTS OneSnapshot InUseCounted NoWaitForNobody
PROPERTIES ImplementsAtomicProduct CallReturns
CHECK_DEADLOCK FALSE
