SPECIFICATION Spec
CONSTANTS
  Tasks <- MCTasks
  Workers = 2
  Buffer = 2
INVARIANTS
  Bounded
  WaitCoversAll
PROPERTIES
  WaitReturnsIfErrorsFit
CHECK_DEADLOCK FALSE
