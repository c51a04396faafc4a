SPECIFICATION Spec
CONSTANTS
  p1 = p1
  p2 = p2
  Proc <- MCProc
  StaleTimeout = 3
  RefreshInterval = 1
  MaxRetry = 1
  MaxFaults = 1
PROPERTIES
  CorruptLockExpires
CHECK_DEADLOCK FALSE
