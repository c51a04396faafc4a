SPECIFICATION Spec
CONSTANTS
  p1 = p1
  p2 = p2
  Proc <- MCProc
  StaleTimeout = 3
  RefreshInterval = 1
  MaxRetry = 1
  MaxFaults = 2
INVARIANTS
  MutexWhenCalm
  HolderIsFresh
PROPERTIES
  LockRecovers
CHECK_DEADLOCK FALSE
