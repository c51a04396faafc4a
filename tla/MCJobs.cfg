SPECIFICATION JobsSpec
CONSTANTS
  g1 = g1
  g2 = g2
  g3 = g3
  None = None
  Clouds <- MCClouds
  Imds <- MCImds
  Givens <- MCGivens
  MaxScoutFaults = 1
  Surroundings <- MCSurroundings
  ValidatorClouds = {"google"}
  ValidatorGivens <- MCValidatorGivens
  Commands <- MCCommands
  MaxRetry = 2
  IstioMaxRetry = 2
  MaxConnectionAttempts = 2
  Transcodings <- MCTranscodings
  Readers = 2
  ChannelBuffer = 1
  BatchSize = 2
  MaxFlushes = 2
  MaxWriteFaults = 2
  Generation <- MCGeneration
  Flags <- MCFlags
  MaxPatchFaults = 1
INVARIANTS
  ConfigurationSound
  VerdictComplete
  Transcoded
  BundleMatches
PROPERTIES
  JobsEnd
CHECK_DEADLOCK FALSE
