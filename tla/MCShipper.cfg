SPECIFICATION Spec
CONSTANTS
  File <- MCFile
  Cost <- MCCost
  ChunkSize = 2
  MemoryBacked = FALSE
  Usage <- MCUsage
  MaxFaults = 2
  MaxReplays = 1
INVARIANTS
  TypeOK
  NothingLost
  UploadedIsShipped
  AbandonedIsGone
  PutsAccounted
PROPERTIES
  PurgeMakesRoom
  CostFilesKept
  ImplementsFileDelivery
CHECK_DEADLOCK FALSE
