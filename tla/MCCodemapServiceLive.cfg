CONSTANTS
  Threads = {t1, t2}
  SameName = TRUE
  DiskFails = FALSE
  MaxHead = 2
  MaxCalls = 4
  MaxCrashes = 0
SPECIFICATION FairSpec
PROPERTIES ImplementsAccess CallReturns BuildingEnds
