CONSTANTS
  Threads = {t1, t2}
  SameName = TRUE
  DiskFails = FALSE
  MaxHead = 2
  MaxCalls = 2
  MaxCrashes = 0
SPECIFICATION Spec
PROPERTIES BuildingIsAnswered
