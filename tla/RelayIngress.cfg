SPECIFICATION Spec
CONSTANTS
  a1 = a1
  a2 = a2
  b = b
  sub = sub
  Keys <- MCKeys
  LogicalOf <- MCLogicalOf
  Profiles <- MCProfiles
  SessionRecords <- MCSessions
  Seqs = {1, 2}
  Contents = {1}
  Intents = {"Primary", "Secondary"}
  Permitted <- MCPermitted
  Cursors = {0}
  MaxSessions = 2
  MaxActive = 2
  MaxParents = 2
  MaxPerObject = 2
  MaxBuffered = 2
  MaxBytes = 3
  MaxCompleted = 1
  Inactivity = 1
  ScanInterval = 1
  MaxTime = 2
  MaxDelivered = 3
INVARIANT IngressSound
