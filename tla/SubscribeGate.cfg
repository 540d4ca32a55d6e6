SPECIFICATION Spec
CONSTANTS
  e1 = e1
  NoEndpoint = NoEndpoint
  Idle = Idle
  c1 = c1
  c2 = c2
  t1 = t1
  t2 = t2
  Bindings <- MCBindings
  Events <- MCEvents
  Capabilities <- MCCapabilities
  Connections = {c1, c2}
  Threads = {t1, t2}
  MaxActive = 1
  Skew = 1
  MaxEvents = 2
  MaxSnapshots = 1
  MaxInstalls = 2
  MaxRequests = 3
  MaxTime = 1
SYMMETRY MCSymmetry
CHECK_DEADLOCK FALSE
INVARIANT GateSound
PROPERTY RefusalIsFinal
