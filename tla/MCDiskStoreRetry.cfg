SPECIFICATION Spec
CONSTANTS
  b1 = b1
  b2 = b2
  Batch <- MCBatch
  Size <- MCSize
  RowLimit = 2
  MaxClock = 1
  MaxFaults = 2
PROPERTIES
  LostRowsAreRetried
CHECK_DEADLOCK FALSE
