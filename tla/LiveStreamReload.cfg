SPECIFICATION Spec
CONSTANTS
  Epochs = {1}
  Seqs = {0, 1}
  Kinds = {"slot"}
  Window = 3
  PartsPerSegment = 2
  Msns = {0, 1}
  PartIndexes = {0, 1}
  MaxCommits = 2
  MaxRequests = 2
  MaxRetires = 0
CHECK_DEADLOCK FALSE
INVARIANT BlockingReloadServesPart
