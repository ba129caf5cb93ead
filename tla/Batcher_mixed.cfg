CONSTANTS
  N = 6
  KindOf <- Mixed
  KeyOf <- MixedKeys
  SizeOf <- MixedSizes
  Failing = {2, 3}
  Overhead = 2
  Limits = {8}
  MaxMessageSize = 18
  InitialBatchSize = 1
  BackoffSizes = {2, 3}
  IsWcdOnGcp = FALSE
  Budget <- ErrorAndShutdown
SPECIFICATION Spec
INVARIANTS
  Pipeline
  ResultsMatchCalls
  RequestsFit
  EndsClean
  IngestAnswersAll
PROPERTIES
  GivesUpAfterSixAttempts
  ImplementsDelivery
