SPECIFICATION MCSpec
CONSTANTS
  NoValue = NoValue
  None = None
  RouteTables <- MCRouteTables
  Contexts <- MCContexts
  StreamTables <- MCStreamTables
  Connections <- MCConnections
  Flavors = {"traditional", "expressions"}
  MaxAsked = 3
  TargetLists <- MCTargetLists
  Algorithms = {"round-robin", "consistent-hashing", "least-connections"}
  Configs <- MCConfigs
  Reports <- MCReports
  Keys = {"default", "k"}
  Slots = 3
  Clients <- MCClients
  Matches <- MCMatches
  Upstreams <- MCUpstreams
  Overrides <- MCOverrides
  Injected = {"x-real-ip", "x-forwarded-for", "x-forwarded-proto", "x-forwarded-host", "x-forwarded-prefix"}
  Trusted = {2}
  MaxForwards = 2
  Handshakes <- MCHandshakes
  L4Services <- MCL4Services
  CertLoads <- MCCertLoads
  Lower <- MCLower
  ServiceOf <- MCServiceOf
  DefaultCert = "default"
  MaxLoads = 2
  HashOf <- MCHashOf
  MaxPicks = 4
  MaxConnections = 1
  Requests = {r1}
  RouteMaps <- MCRouteMaps
  ServiceMaps <- MCServiceMaps
  PluginLists <- MCPluginLists
  Priority <- MCPriority
  Hooks <- MCHooks
  AbortHandlers <- MCAbortHandlers
  Finalizers <- MCFinalizers
  Bodies = {"none", "small", "large", "chunked"}
  MaxUpdates = 1
  MaxAttempts = 2
INVARIANT  PicksFollowAlgorithm  DispatchGate ClosedOnce  StreamServed
PROPERTY RequestsClose
CHECK_DEADLOCK FALSE
