SPECIFICATION ControlSpec
CONSTANTS
  EnvelopeLengths = {1, 3, 4}
  MaxEnvelopeBytes = 3
  MaxQueueBlocks = 2
  MaxQueueBytes = 4
  SymbolSize = 2
  RepairPercent = 20
  EnvelopeLimit = 5
  TelemetryPeers = {"p1", "p2"}
  TelemetryBlocks = {1, 2}
  TelemetryNodes = {"n1", "n2"}
  BootIds = {1, 2}
  TelemetrySequences = {1, 2}
  MaxTelemetryPeers = 1
  MaxInFlightBlocks = 1
  InFlightTtl = 1
  DecoderTimeLimit = 4
  AcceptLimit = 2
  CollectLimit = 2
  Edges = {1, 2}
  BootEdges = {1, 2}
  RegionOf <- MCRegionOf
  ConfiguredMin = 1
  ConfiguredMax = 2
  ConfiguredScaleUp = 2
  ConfiguredIdleTime = 1
  ConfiguredCooldown = 1
  StaleAfter = 1
  Loads <- MCLoads
  TelemetryPaths <- MCPaths
  ControlPaths <- MCPeers
  OperatorRequests <- MCOperator
  FleetTimeLimit = 1
  CommandLimit = 2
  MeshNodes <- MCNodes
  DemandRegions <- MCDemand
  Policies <- MCPolicies
  MinMirrorDistance = 3
  DistanceCap = 6
  DemandStreams = {d1}
  DemandThreads = {t1, t2}
  RequestMinInterval = 2
  DemandTimeLimit = 5
  BucketBounds <- MCBounds
  Durations = {1, 2, 3, 9}
  ProcessingWarn = 2
  SampleLimit = 21
  Links = {pri}
  LinkPeers = {1, 2}
  PeerOf <- MCPeerOf
  ByteCounts = {1}
  Rtts = {1, 3}
  ProbeWindow = 2
  RateScale = 4
  LinkTimeLimit = 3
  DatagramLimit = 3
  ProbeLimit = 4
  CatalogObjects <- MCObjects
  Lease <- MCLease
  MaxCatalogObjects = 2
  MaxVisible = 1
  MaxDeliveryObjects = 2
  MaxDeliveryBytes = 3
  DeliveryTimeLimit = 2
  PushLimit = 3
  Claims <- MCClaims
  StemConfigs <- MCConfigs
  InvalidConfig = InvalidConfig
  StemScopes = {"x", "y"}
  NoContributor = "none"
  StemSources = {"mic", "cam"}
  StemDatagramSizes = {1, 2}
  StemTimeLimit = 2
  StatusNodes = {1, 2}
  StatusLocal = 3
  Collectors = {c1}
  FecCollector = c2
  StatusViews <- MCViews
  Orchestrations <- MCOrchestrations
  CommandLogs <- MCLogs
  StatusStaleAfter = 1
  StaleLimit = 1
  LagWarn = 1
  StorageWarn = 85
  StorageError = 95
  ActivationWarn = 1
  IngestStale = 1
  ActivityLimit = 3
  StatusTimeLimit = 2
  IngestLimit = 3
  Handlers = {"h1", "h2"}
  RecentLimit = 2
  SuccessInterval = 2
  ResponseLimit = 3
  ResponseTimeLimit = 2
  OpsEdges = {"e1"}
  OpsCollectors = {"c1", "c2"}
  ClockOf <- MCClockOf
  LeaseMargin = 1
  FutureMargin = 1
  OpsStale = 2
  LeaseLength = 3
  OpsTimeLimit = 4
CHECK_DEADLOCK FALSE
INVARIANT TelemetryQueueSound
INVARIANT TelemetryCollected
INVARIANT FleetSound
INVARIANT PlacementSound
INVARIANT RequestsSound
INVARIANT P95IsTight
INVARIANT LinksMeasured
INVARIANT OpenedWithinGrant
INVARIANT SubscriberSeesItsOwn
INVARIANT StatusIsSound
INVARIANT ResponsesSound
INVARIANT DiscoverySound
PROPERTY InformedCloseKeepsMinimum
