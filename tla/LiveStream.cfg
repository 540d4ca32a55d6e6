SPECIFICATION Spec
CONSTANTS
  Epochs = {1, 2}
  Seqs = {0, 1, 2}
  Kinds = {"init", "key", "delta", "slot", "audio"}
  Window = 2
  PartsPerSegment = 2
  Msns = {0, 1}
  PartIndexes = {0, 1}
  MaxCommits = 2
  MaxRequests = 2
  MaxRetires = 1
CHECK_DEADLOCK FALSE
INVARIANT CacheSound
PROPERTY EpochAdvances
