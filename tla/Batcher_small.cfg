CONSTANTS
  N = 6
  KindOf <- Few
  KeyOf <- SharedKeys
  SizeOf <- Small
  Failing = {2}
  Overhead = 2
  Limits = {8}
  MaxMessageSize = 100
  InitialBatchSize = 2
  BackoffSizes = {1}
  IsWcdOnGcp = TRUE
  Budget <- AllButErrors
SPECIFICATION Spec
INVARIANTS
  FlowControl
  InflightSound
  EachSentOnce
PROPERTIES
  Progresses
