CONSTANTS
  N = 5
  KindOf <- Objects
  KeyOf <- Uuids
  SizeOf <- Small
  Failing = {2}
  Overhead = 2
  Limits = {8}
  MaxMessageSize = 100
  InitialBatchSize = 2
  BackoffSizes = {1}
  IsWcdOnGcp = FALSE
  Budget <- Error
SPECIFICATION Spec
INVARIANTS
  StopReportsFailure
