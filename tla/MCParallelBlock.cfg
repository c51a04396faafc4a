SPECIFICATION Spec
CONSTANTS
  Tasks <- MCTasks
  Workers = 2
  Buffer = 2
PROPERTIES
  FailuresDoNotBlock
CHECK_DEADLOCK FALSE
