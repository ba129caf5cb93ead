CONSTANTS
  Objects = 3
  MaxAttempts = 2
  Uuids = {1, 2, 3}
  Loops = {"first", "second"}
  IteratorCacheSize = 2
  MaxChanges = 1
  MaxFailures = 1
  Updaters <- TheUpdates
  Settings <- TheSettings
  Unset = "unset"
  Mentions <- TheMentions
  Generative <- TheModules
  NoModule = "none"
  Vectors = {"title", "body"}
  FlatVectors = {"body"}
  FirstQuantizer <- FirstQuantizers
  VectorOf <- TheVectors
  QuantizerOf <- TheQuantizers
  NoQuantizer = "none"
  MaxLost = 1
  Callers = {"one", "all", "builder"}
  Builders = {"builder"}
  Shards = {"s1", "s2"}
  Names <- TheNames
  Asked <- WhoAsks
  StatusOf <- TheStatuses
  MaxRestarts = 1
  Calls = {"five", "two", "wrong"}
  Tenants = {"t1", "t2", "t3", "t4", "t5"}
  TenantsOf <- TheTenants
  InvalidStatus = {"wrong"}
  ChunkSize = 2
  Links = {"a", "b"}
  MaxReferences = 6
  MaxConditions = 2
  MaxList = 2
  Requests = {"r1", "r2"}
  WithSignal = {"r2"}
  Streams = {"b1", "b2"}
  MaxReconnects = 2
  Getters = {"g1", "g2", "g3"}
  Forced = {"g3"}
  Releases <- TheReleases
  Sample <- TheSample
  MaxFailed = 1
  MaxPolls = 4
  Required = {"id", "class"}
  MaxDos = 4
  Admins = {"a1", "a2"}
  Permissions <- ThePermissions
  MaxRoleCalls = 3
  Operations = {"exists", "deleteUser", "activate", "deactivate", "getByName", "getByNameOverGrpc", "head", "get"}
  MaxRestCalls = 2
  SearchNames = {"title", "query", "vector"}
  Word = 4
  MaxRows = 3
  MaxDimension = 5
  Items = {"x", "y"}
  NoItem = "no item"
  Readers = {"generator"}
  MaxPushes = 4
SPECIFICATION ClientSpec
INVARIANTS
  ClientTypeOK
  InsertedOnce
  RepeatsNeedOverlap
  MergesAreSound
  ShardsReportTruly
  UpdateAnswersTruly
  FreshRefsWork
  SameBothWays
  VectorsArrive
  ChannelsAccountedFor
  StaleOnlyIfReplaced
  VersionsAreFounded
  FeaturesByOrder
  WaitIsTrue
  IncompleteOnce
  RoleShowsGrants
  ValueIsFounded
  ItemsAccountedFor
PROPERTIES
  ImplementsScan
  ImplementsFifo
  PushedIsPulled
  HasIsTrue
  CallsSettle
CHECK_DEADLOCK FALSE
