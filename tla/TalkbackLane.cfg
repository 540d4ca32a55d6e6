SPECIFICATION Spec
CONSTANTS
  a1 = a1
  a2 = a2
  s1 = s1
  p = p
  q = q
  r = r
  Audiences = {a1, a2}
  SessionOf <- MCSessionOf
  Publishers = {p}
  Receivers = {q, r}
  ParticipantOf <- MCParticipantOf
  Snapshots <- MCSnapshots
  Generations = {1, 2}
  Grants = {1, 2}
  Seqs = {0, 1, 2}
  WindowBits = 2
  MaxQueue = 2
  MaxTime = 2
INVARIANT LaneSound
