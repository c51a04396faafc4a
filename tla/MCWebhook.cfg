SPECIFICATION MainSpec
CONSTANTS
  create = create
  update = update
  remove = remove
  h1 = h1
  h2 = h2
  h3 = h3
  LabelFilter <- MCLabelFilter
  AnnotationFilter <- MCAnnotationFilter
  ReconnectFrequency = 16
  Request <- MCRequest
  Http <- MCHttp
  Size <- MCSize
  SentMaxBytes = 1
  MaxRetries = 1
  MaxFaults = 2
  NodePages <- MCNodePages
  NamespacePages <- MCNamespacePages
  ResourcePages <- MCResourcePages
  Workers = 2
  MaxConnectionAttempts = 2
  MaxBatchCount = 3
  WaitForServices = TRUE
  Handshake <- MCHandshake
  RootsLimit = 1
  MaxVersion = 2
  MaxBackfillFaults = 2
INVARIANTS
  TypeOK
  UniqueKeys
  SentMeansDelivered
  LostOnlyByRace
  NeverDenied
  BackfillComplete
  WaitIsAnswered
PROPERTIES
  UnsentDrains
  MainEnds
  NewestCertificate
CHECK_DEADLOCK FALSE
