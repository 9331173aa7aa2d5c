SPECIFICATION OperationsSpec
CONSTANTS
  TeamSize <- MCTeamSize
  Tenants = {t1}
  MaxIds = 4
  NoTenant = NoTenant
  LicenseKeys <- MCKeys
  Deployments <- MCDeployments
  AdminPaths = {"env", "etc"}
  CheckInterval = 2
  MaxTime = 3
  NoKey = NoKey
  NoInfo = NoInfo
  Never = Never
  Torn = Torn
  Unreadable = Unreadable
  PluginNames = {"resource_exhaustion", "custom"}
  BuiltinPlugins = {"resource_exhaustion"}
  PluginCalls = {c1, c2}
  MaxRecords = 3
  MaxStarts = 2
  NoCall = NoCall
  Pipelines = {p1, p2}
  MaxRuns = 3
  NoPipeline = NoPipeline
  Deleted = Deleted
  Clients = {a, b}
  RequestsPerMinute = 3
  Parts = 2
  CleanupInterval = 2
  StaleThreshold = 8
  MaxBuckets = 1
  MaxForgiven = 6
  NoBucket = NoBucket
  Watchers = {w1, w2}
  Sections = {"auth", "logging"}
  Environment <- MCEnvironment
  Contents <- MCContents
  MaxWrites = 3
  NoFile = NoFile
  Nothing = Nothing
  ClientCalls = {k1, k2, k3}
  RequestIds = {i1}
  MaxRetries = 1
  NoId = NoId
  NoController = NoController
CHECK_DEADLOCK FALSE
INVARIANT
  LastRunShown
