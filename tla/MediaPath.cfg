SPECIFICATION MediaSpec
CONSTANTS
  k1 = k1
  k2 = k2
  k3 = k3
  NoKey = NoKey
  Keys <- MCKeys
  Deadline <- MCDeadline
  Sizes = {1, 2}
  MaxObjects = 2
  MaxDatagrams = 3
  MaxBytes = 4
  MaxOffered = 4
  MaxTime = 1
  FecFlows = {f1, f2}
  FecBlocks = {1, 2}
  PacketSequences = {2}
  TransferLengths = {1, 2}
  MaxObjectBytes = 2
  MaxBufferedBytes = 3
  MaxFlows = 2
  MaxActiveObjects = 2
  MaxObjectsPerFlow = 2
  MaxCompletedPerFlow = 1
  MaxDatagramsPerObject = 2
  MaxBufferedDatagrams = 3
  ObjectTimeout = 1
  FlowTimeout = 2
  ScanEvery = 1
  FecTimeLimit = 3
  FecPushLimit = 5
  SequenceModulus = 8
  MaxTrackedGaps = 2
  ArrivalLimit = 5
  AudioPeers = {"p1", "p2"}
  AudioBlocks = {1}
  AudioSessions = {1, 2}
  MediaObjects = {"o1"}
  SubscriptionTtl = 1
  BlockTtl = 1
  HasForwarder = FALSE
  IngestTimeLimit = 2
  TailStreams <- MCTailStreams
  TailReaders = {r1, r2}
  TailWindow = 2
  MaxTailParts = 2
  TailPartLimit = 3
  TailByteLimit = 5
  ByteStream = "d"
  PrefixedStreams = {"p"}
  PartTarget = 1
  MaxPartBytes = 2
  SegmentParts = 2
  PartWindow = 2
  PartReaders = {pr}
  ByteLimit = 4
  PartTimeLimit = 2
  SlotStreams = {1, 2}
  SlotSequences = {0, 1}
  SlotObjects <- Objects
  SlotPayloads <- Legacy
  SlotUnits <- Units
  SlotWrites = 2
  Videos <- MCVideos
  Audios <- MCAudios
  Leaders <- MCLeaders
CHECK_DEADLOCK FALSE
INVARIANT ReplaySound
INVARIANT FecSound
INVARIANT GapsFollowArrivals
INVARIANT IngestSound
INVARIANT TailSound
INVARIANT BytePartsCorrect
INVARIANT SlotsCorrect
INVARIANT CodecsAreDescribed
PROPERTY IdleObjectsReclaimed
