SPECIFICATION PlaybackSpec
CONSTANTS
  ConfiguredCapacity = 10
  ConfiguredAdmission = 80
  ConfiguredRecovery = 45
  ConfiguredWindow = 2
  ConfiguredSustained = 2
  ConfiguredIdle = 2
  ConfiguredSessions = 1
  PlaybackSessions = {s1, s2}
  AdmissionThreads = {r1, r2}
  AdmissionTimeLimit = 2
  EgressLimit = 2
  RequestLimit = 3
  RegionEdges = {1, 2}
  PlainMasters = {0}
  Renditions <- MCRenditions
  PlaybackUrls = {1, 2}
  EdgeStates <- MCEdgeStates
  AlternativeLimit = 1
  RenditionStale = 0
  HlsTimeLimit = 1
SYMMETRY MCSymmetry
CHECK_DEADLOCK FALSE
INVARIANT AdmissionSound
INVARIANT HlsAnswerSound
PROPERTY ServedStaysServed
