SPECIFICATION Spec
CONSTANTS
  File <- MCFile
  Cost <- MCCost
  ChunkSize = 2
  MemoryBacked = FALSE
  Usage <- MCUsage
  MaxFaults = 1
  MaxReplays = 1
PROPERTIES
  AbandonReasonTrue
CHECK_DEADLOCK FALSE
