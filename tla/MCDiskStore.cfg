SPECIFICATION Spec
CONSTANTS
  b1 = b1
  b2 = b2
  Batch <- MCBatch
  Size <- MCSize
  RowLimit = 2
  MaxClock = 1
  MaxFaults = 2
INVARIANTS
  TypeOK
  AckedKept
  DeliveredOnce
  RowCountExact
  FileWellFormed
PROPERTIES
  EventuallyAcked
  BufferDrains
CHECK_DEADLOCK FALSE
