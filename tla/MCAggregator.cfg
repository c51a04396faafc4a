SPECIFICATION Spec
CONSTANTS
  w1 = w1
  w2 = w2
  Write <- MCWrite
  Payloads <- MCPayloads
  CostFilter <- MCCostFilter
  ObservabilityFilter <- MCObservabilityFilter
  MaxPayloadSize = 1
  Window = 2
  Threshold = 20
  MinFailures = 2
  Cooldown = 2
  ProbePeriod = 1
  ProbeFailures = 2
  MaxTime = 4
  MaxTries <- MCMaxTries
  MaxFaults = 1
  MaxDeletion = 0
INVARIANTS
  TypeOK
  AckedStored
  RestartFollows
  FinalFlushComplete
CHECK_DEADLOCK FALSE
