CONSTANTS
  NumDrivers = 2
  N = 3
  Count = 2
  Ignore = 0
  PipeCap = 1
  MaxReports = 2
  MaxEnables = 2
  MaxFlushes = 1
SPECIFICATION Spec
CHECK_DEADLOCK FALSE
INVARIANTS
  FlushedOnce
  NoLostWakeup
  NothingLost

  
