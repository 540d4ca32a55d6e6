SPECIFICATION Spec
CONSTANTS
  Epochs = {1, 2}
  Seqs = {0, 1, 2}
  Kinds = {"init", "slot"}
  Window = 3
  PartsPerSegment = 2
  Msns = {0, 1}
  PartIndexes = {0, 1}
  MaxCommits = 3
  MaxRequests = 1
  MaxRetires = 0
CHECK_DEADLOCK FALSE
INVARIANT InitOfEpoch
