-------------------------- MODULE TalkbackLaneProofs --------------------------
(***************************************************************************)
(* Proofs about the talkback lane, for every set of audiences, publishers, *)
(* receivers, snapshots and sequences, every window and every queue limit. *)
(***************************************************************************)
EXTENDS TalkbackLane, SequenceFacts

Window == [highest : Seqs, seen : SUBSET (0..(WindowBits - 1))]

\* A window has seen a sequence that it would not admit again.
Seen(w, seq) ==
  /\ seq <= w.highest
  /\ w.highest - seq >= WindowBits \/ w.highest - seq \in w.seen

\* The window of a delivery's publisher has seen the sequence.
Taken(d, seq) ==
  /\ <<d[1], d[2]>> \in DOMAIN sequences
  /\ Seen(sequences[<<d[1], d[2]>>], seq)

\* What the snapshot in force says of a frame that waits for a receiver.
Authorized(d, f) ==
  /\ d[1] = f.audience /\ d[2] = f.publisher
  /\ f.audience \in DOMAIN routes
  /\ f.generation = routes[f.audience].generation
  /\ [endpoint |-> f.publisher, grant |-> f.grant] \in routes[f.audience].publishers
  /\ d[3] \in routes[f.audience].subscribers
  /\ ParticipantOf[d[3]] # ParticipantOf[f.publisher]

\* A frame that waits: authorized, seen by the window, and not pulled before.
WaitingOK(d, f) ==
  /\ f \in Frame
  /\ Authorized(d, f)
  /\ Taken(d, f.seq)
  /\ d \in DOMAIN pulled => f.seq \notin Range(pulled[d])

QueueOK(d, q) ==
  /\ q \in Seq(Frame) /\ Len(q) <= MaxQueue
  /\ \A i \in 1..Len(q) : WaitingOK(d, q[i])
  /\ \A i, j \in 1..Len(q) : q[i].seq = q[j].seq => i = j

\* What a receiver has pulled: each sequence once, all of them seen.
PulledOK(d, p) ==
  /\ p \in Seq(Seqs)
  /\ \A i \in 1..Len(p) : Taken(d, p[i])
  /\ \A i, j \in 1..Len(p) : p[i] = p[j] => i = j

\* The marks of a delivery against what was pulled.
MarksOK(m, p) ==
  /\ m \in [delivered : Seqs, acknowledged : {None} \cup Seqs]
  /\ \E i \in 1..Len(p) : p[i] = m.delivered
  /\ \A i \in 1..Len(p) : p[i] <= m.delivered
  /\ m.acknowledged <= m.delivered

LaneTypes ==
  /\ now \in 0..MaxTime
  /\ DOMAIN routes \subseteq Audiences /\ \A a \in DOMAIN routes : routes[a] \in Snapshots
  /\ DOMAIN sequences \subseteq Audiences \X Publishers
  /\ \A k \in DOMAIN sequences : sequences[k] \in Window
  /\ DOMAIN queues \subseteq Deliveries
  /\ DOMAIN pulled \subseteq Deliveries
  /\ DOMAIN played = DOMAIN pulled

\* The inductive invariant of the lane: the window of a publisher has seen
\* whatever waits for a receiver or was pulled by one, so that what it admits
\* is new to all of them.
LaneInv ==
  /\ LaneTypes
  /\ \A d \in DOMAIN queues : QueueOK(d, queues[d])
  /\ \A d \in DOMAIN pulled : PulledOK(d, pulled[d]) /\ MarksOK(played[d], pulled[d])

-----------------------------------------------------------------------------
(***************************************************************************)
(* The sliding window.                                                     *)
(***************************************************************************)
\* A sequence that the window admits is one that it has not seen.
LEMMA AdmittedIsNew ==
  ASSUME NEW w \in Window, NEW seq \in Seqs, Admits(w, seq)
  PROVE  ~Seen(w, seq)
<1>1. w.highest \in Nat /\ seq \in Nat /\ WindowBits \in Nat
  BY TalkbackAssumption DEF Window
<1>. QED
  BY <1>1 DEF Admits, Seen

\* The first window has seen its sequence.
LEMMA FirstWindowSees ==
  ASSUME NEW seq \in Seqs
  PROVE  FirstWindow(seq) \in Window /\ Seen(FirstWindow(seq), seq)
<1>1. seq \in Nat /\ WindowBits \in Nat /\ WindowBits > 0
  BY TalkbackAssumption
<1>2. FirstWindow(seq).highest = seq /\ FirstWindow(seq).seen = {0}
  BY DEF FirstWindow
<1>3. FirstWindow(seq) \in Window
  BY <1>1 DEF FirstWindow, Window
<1>. QED
  BY <1>1, <1>2, <1>3 DEF Seen

\* A window that slides or is marked has seen the sequence it admits, and
\* forgets none that it had seen: what leaves the bits is beyond them.
LEMMA AdmitSees ==
  ASSUME NEW w \in Window, NEW seq \in Seqs
  PROVE  /\ Admits(w, seq) => Admit(w, seq) \in Window
         /\ Seen(Admit(w, seq), seq) \/ ~Admits(w, seq)
         /\ \A s \in Nat : Seen(w, s) => Seen(Admit(w, seq), s)
<1>. DEFINE h == w.highest
            b == WindowBits - 1
            v == Admit(w, seq)
<1>1. /\ h \in Nat /\ seq \in Nat /\ WindowBits \in Nat /\ WindowBits > 0
      /\ h \in Seqs /\ w.seen \in SUBSET (0..b)
  BY TalkbackAssumption DEF Window
<1>2. CASE seq > h
  <2>. DEFINE shifted == {d + (seq - h) : d \in w.seen}
  <2>1. v = [highest |-> seq, seen |-> (shifted \cap (0..b)) \cup {0}]
    BY <1>2 DEF Admit
  <2>2. v.highest = seq /\ v.seen = (shifted \cap (0..b)) \cup {0}
    BY <2>1
  <2>3. v.seen \subseteq 0..b
    BY <1>1, <2>2
  <2>4. v \in Window
    <3>. HIDE DEF shifted
    <3>1. (shifted \cap (0..b)) \cup {0} \in SUBSET (0..b)
      BY <2>2, <2>3
    <3>. QED
      BY <2>1, <3>1 DEF Window
  <2>5. Seen(v, seq)
    <3>. HIDE DEF v
    <3>. QED
      BY <1>1, <2>2 DEF Seen
  <2>6. ASSUME NEW s \in Nat, Seen(w, s)
        PROVE  Seen(v, s)
    <3>1. s <= h /\ (h - s >= WindowBits \/ h - s \in w.seen)
      BY <2>6 DEF Seen
    <3>2. s <= seq /\ seq - s = (h - s) + (seq - h)
      BY <1>1, <1>2, <3>1
    <3>3. h - s \in w.seen => seq - s \in shifted
      BY <3>2
    <3>4. seq - s >= WindowBits \/ seq - s \in v.seen
      <4>1. CASE h - s >= WindowBits
        BY <1>1, <1>2, <3>2, <4>1
      <4>2. CASE h - s \in w.seen
        BY <1>1, <1>2, <2>2, <3>2, <3>3, <4>2
      <4>. QED
        BY <3>1, <4>1, <4>2
    <3>. HIDE DEF v
    <3>. QED
      BY <2>2, <3>2, <3>4 DEF Seen
  <2>. QED
    BY <2>4, <2>5, <2>6
<1>3. CASE ~(seq > h)
  <2>1. v = [highest |-> h, seen |-> w.seen \cup {h - seq}]
    BY <1>3 DEF Admit
  <2>2. v.highest = h /\ v.seen = w.seen \cup {h - seq}
    BY <2>1
  <2>3. Admits(w, seq) => v \in Window
    <3>1. Admits(w, seq) => h - seq \in 0..b
      BY <1>1, <1>3 DEF Admits
    <3>. QED
      BY <1>1, <2>1, <3>1 DEF Window
  <2>. HIDE DEF v
  <2>4. Seen(v, seq)
    BY <1>1, <1>3, <2>2 DEF Seen
  <2>5. ASSUME NEW s \in Nat, Seen(w, s)
        PROVE  Seen(v, s)
    BY <2>2, <2>5 DEF Seen
  <2>. QED
    BY <2>3, <2>4, <2>5 DEF v
<1>. QED
  BY <1>2, <1>3

-----------------------------------------------------------------------------
(***************************************************************************)
(* Queues.                                                                 *)
(***************************************************************************)
\* A queue that retains some of its frames, in their order, is as good.
LEMMA DrawnQueueOK ==
  ASSUME NEW d, NEW q, QueueOK(d, q), NEW p \in Seq(Frame), Len(p) <= MaxQueue,
         NEW n \in 0..Len(q), NEW kept, NEW at, DrawnFrom(p, q, n, kept, at)
  PROVE  QueueOK(d, p)
<1>1. q \in Seq(Frame) /\ Len(q) \in Nat /\ Len(p) \in Nat
  BY DEF QueueOK
<1>2. \A i \in 1..Len(p) : at[i] \in 1..Len(q) /\ p[i] = q[at[i]]
  BY <1>1 DEF DrawnFrom
<1>3. \A i \in 1..Len(p) : WaitingOK(d, p[i])
  BY <1>2 DEF QueueOK
<1>4. ASSUME NEW i \in 1..Len(p), NEW j \in 1..Len(p), p[i].seq = p[j].seq
      PROVE  i = j
  <2>1. at[i] = at[j]
    <3>1. at[i] \in 1..Len(q) /\ at[j] \in 1..Len(q) /\ q[at[i]].seq = q[at[j]].seq
      BY <1>2, <1>4, Zenon
    <3>2. \A u, v \in 1..Len(q) : q[u].seq = q[v].seq => u = v
      BY Zenon DEF QueueOK
    <3>. QED
      BY <3>1, <3>2, Zenon
  <2>2. ~(i < j) /\ ~(j < i)
    BY <1>1, <1>2, <2>1 DEF DrawnFrom
  <2>. QED
    BY <1>1, <2>2
<1>. QED
  BY <1>3, <1>4 DEF QueueOK

\* The rest of a queue after its first m - 1 frames.
LEMMA SuffixQueueOK ==
  ASSUME NEW d, NEW q, QueueOK(d, q), NEW m \in 1..(Len(q) + 1)
  PROVE  QueueOK(d, SubSeq(q, m, Len(q)))
<1>. DEFINE p == SubSeq(q, m, Len(q))
            at == [i \in 1..Len(p) |-> i + (m - 1)]
<1>1. q \in Seq(Frame) /\ Len(q) \in Nat /\ Len(q) <= MaxQueue /\ MaxQueue \in Nat
  BY TalkbackAssumption DEF QueueOK
<1>2. p \in Seq(Frame) /\ Len(p) = Len(q) - (m - 1)
  BY <1>1
<1>3. \A i \in 1..Len(p) : p[i] = q[i + (m - 1)] /\ i + (m - 1) \in 1..Len(q)
  BY <1>1, <1>2
<1>. HIDE DEF p
<1>4. DrawnFrom(p, q, Len(q), 1..Len(q), at)
  BY <1>2, <1>3 DEF DrawnFrom
<1>5. Len(p) <= MaxQueue /\ Len(q) \in 0..Len(q)
  BY <1>1, <1>2
<1>. HIDE DEF at
<1>6. QueueOK(d, p)
  BY <1>2, <1>4, <1>5, DrawnQueueOK
<1>. QED
  BY <1>6 DEF p

\* The rest of a queue after its first frame.
LEMMA TailQueueOK ==
  ASSUME NEW d, NEW q, QueueOK(d, q), q # <<>>
  PROVE  QueueOK(d, Tail(q)) /\ Len(Tail(q)) = Len(q) - 1
<1>1. q \in Seq(Frame) /\ Len(q) \in Nat /\ Len(q) # 0
  BY DEF QueueOK
<1>2. Tail(q) = SubSeq(q, 2, Len(q))
  BY <1>1
<1>3. 2 \in 1..(Len(q) + 1)
  BY <1>1
<1>4. QueueOK(d, SubSeq(q, 2, Len(q)))
  BY <1>3, SuffixQueueOK
<1>5. Len(Tail(q)) = Len(q) - 1
  BY <1>1
<1>. QED
  BY <1>2, <1>4, <1>5

\* A queue without the expired frames at its front.
LEMMA DropExpiredOK ==
  ASSUME NEW d, NEW q, QueueOK(d, q)
  PROVE  QueueOK(d, DropExpired(q))
<1>. DEFINE live == {i \in DOMAIN q : ~IsExpired(q[i])}
<1>1. q \in Seq(Frame) /\ Len(q) \in Nat /\ DOMAIN q = 1..Len(q) /\ MaxQueue \in Nat
  BY TalkbackAssumption DEF QueueOK
<1>2. CASE live = {}
  <2>1. DropExpired(q) = <<>>
    BY <1>2 DEF DropExpired
  <2>2. QueueOK(d, <<>>)
    BY <1>1 DEF QueueOK
  <2>. QED
    BY <2>1, <2>2
<1>3. CASE live # {}
  <2>1. DropExpired(q) = SubSeq(q, Min(live), Len(q))
    BY <1>3 DEF DropExpired
  <2>2. live \in SUBSET Nat /\ live \subseteq 1..Len(q)
    BY <1>1
  <2>. HIDE DEF live
  <2>3. \E m \in live : \A k \in live : m <= k
    BY <1>3, <2>2, LeastElement
  <2>4. Min(live) \in live
    BY <2>3 DEF Min
  <2>5. \A m \in live : m \in 1..(Len(q) + 1)
    BY <1>1, <2>2
  <2>6. QueueOK(d, SubSeq(q, Min(live), Len(q)))
    BY <2>4, <2>5, SuffixQueueOK
  <2>. QED
    BY <2>1, <2>6
<1>. QED
  BY <1>2, <1>3

\* What Enqueue makes room in.
LEMMA RoomOK ==
  ASSUME NEW d, NEW q, QueueOK(d, q), NEW f \in Frame
  PROVE  \E room : /\ QueueOK(d, room) /\ Len(room) < MaxQueue
                   /\ Enqueue(q, f) = Append(room, f)
<1>. DEFINE kept == {i \in DOMAIN q : ~IsExpired(q[i])}
            live == Subsequence(q, kept)
            room == IF Len(live) = MaxQueue THEN Tail(live) ELSE live
<1>1. /\ q \in Seq(Frame) /\ Len(q) \in Nat /\ Len(q) <= MaxQueue
      /\ MaxQueue \in Nat /\ MaxQueue > 0
  BY TalkbackAssumption DEF QueueOK
<1>2. Enqueue(q, f) = Append(room, f)
  BY DEF Enqueue
<1>3. /\ live \in Seq(Frame) /\ Len(live) <= Len(q)
      /\ \E at : DrawnFrom(live, q, Len(q), kept, at)
  <2>. HIDE DEF kept
  <2>. QED
    BY <1>1, SubsequenceFacts
<1>. HIDE DEF live
<1>4. QueueOK(d, live)
  <2>1. PICK at : DrawnFrom(live, q, Len(q), kept, at)
    BY <1>3
  <2>2. Len(live) <= MaxQueue /\ Len(q) \in 0..Len(q)
    BY <1>1, <1>3
  <2>. HIDE DEF kept
  <2>. QED
    BY <1>3, <2>1, <2>2, DrawnQueueOK
<1>5. QueueOK(d, room) /\ Len(room) < MaxQueue
  <2>1. CASE Len(live) = MaxQueue
    <3>1. live # <<>> /\ Len(live) \in Nat
      BY <1>1, <1>3, <2>1
    <3>2. QueueOK(d, Tail(live)) /\ Len(Tail(live)) = Len(live) - 1
      BY <1>4, <3>1, TailQueueOK
    <3>. QED
      BY <1>1, <2>1, <3>2
  <2>2. CASE Len(live) # MaxQueue
    BY <1>1, <1>3, <1>4, <2>2
  <2>. QED
    BY <2>1, <2>2
<1>. QED
  BY <1>2, <1>5

-----------------------------------------------------------------------------
(***************************************************************************)
(* The steps.                                                              *)
(***************************************************************************)
\* What a queue and what was pulled depend on of the rest of the state.
SameFor(d) ==
  /\ d[1] \in DOMAIN routes => d[1] \in DOMAIN routes' /\ routes'[d[1]] = routes[d[1]]
  /\ \A seq \in Nat : Taken(d, seq) => Taken(d, seq)'

LEMMA SameForKeepsQueue ==
  ASSUME NEW d, SameFor(d),
         d \in DOMAIN pulled' => d \in DOMAIN pulled /\ pulled'[d] = pulled[d],
         NEW q, QueueOK(d, q)
  PROVE  QueueOK(d, q)'
<1>1. ASSUME NEW f, WaitingOK(d, f)
      PROVE  WaitingOK(d, f)'
  <2>1. f.seq \in Nat
    BY <1>1, TalkbackAssumption DEF WaitingOK, Frame
  <2>2. Taken(d, f.seq)'
    BY <1>1, <2>1 DEF WaitingOK, SameFor
  <2>3. Authorized(d, f)'
    BY <1>1 DEF WaitingOK, SameFor, Authorized
  <2>. QED
    BY <1>1, <2>2, <2>3 DEF WaitingOK
<1>. QED
  BY <1>1 DEF QueueOK

LEMMA SameForKeepsPulled ==
  ASSUME NEW d, SameFor(d), NEW p, PulledOK(d, p)
  PROVE  PulledOK(d, p)'
<1>1. p \in Seq(Seqs) /\ \A i \in 1..Len(p) : Taken(d, p[i])
  BY DEF PulledOK
<1>2. \A i \in 1..Len(p) : p[i] \in Nat
  BY <1>1, TalkbackAssumption
<1>3. \A i \in 1..Len(p) : Taken(d, p[i])'
  BY <1>1, <1>2 DEF SameFor
<1>. QED
  BY <1>3 DEF PulledOK

\* A table without some of its keys.
LEMMA KeepFacts ==
  ASSUME NEW g, NEW S
  PROVE  /\ DOMAIN Keep(g, S) = DOMAIN g \cap S
         /\ \A x \in DOMAIN Keep(g, S) : Keep(g, S)[x] = g[x]
  BY DEF Keep

\* A table with one more key.
LEMMA PutFacts ==
  ASSUME NEW g, NEW k, NEW v
  PROVE  /\ DOMAIN Put(g, k, v) = DOMAIN g \cup {k}
         /\ Put(g, k, v)[k] = v
         /\ \A x \in DOMAIN g : x # k => Put(g, k, v)[x] = g[x]
  BY DEF Put

\* Purging audiences, whatever becomes of their routes.
LEMMA PurgeKeepsLane ==
  ASSUME LaneInv, NEW S \in SUBSET Audiences, PurgeAudiences(S), UNCHANGED now,
         DOMAIN routes' \subseteq Audiences,
         \A a \in DOMAIN routes' : routes'[a] \in Snapshots,
         \A a \in DOMAIN routes \ S : a \in DOMAIN routes' /\ routes'[a] = routes[a]
  PROVE  LaneInv'
<1>. DEFINE K == (Audiences \ S) \X Publishers
            D == (Audiences \ S) \X Publishers \X Receivers
<1>1. /\ sequences' = Keep(sequences, K) /\ queues' = Keep(queues, D)
      /\ played' = Keep(played, D) /\ pulled' = Keep(pulled, D)
  BY DEF PurgeAudiences
<1>. HIDE DEF K, D
<1>2. /\ DOMAIN sequences' = DOMAIN sequences \cap K
      /\ \A k \in DOMAIN sequences' : sequences'[k] = sequences[k]
      /\ DOMAIN queues' = DOMAIN queues \cap D
      /\ \A d \in DOMAIN queues' : queues'[d] = queues[d]
      /\ DOMAIN played' = DOMAIN played \cap D
      /\ \A d \in DOMAIN played' : played'[d] = played[d]
      /\ DOMAIN pulled' = DOMAIN pulled \cap D
      /\ \A d \in DOMAIN pulled' : pulled'[d] = pulled[d]
  BY <1>1, KeepFacts
<1>3. LaneTypes'
  BY <1>2 DEF LaneInv, LaneTypes
<1>4. ASSUME NEW d \in D
      PROVE  SameFor(d)
  <2>1. d[1] \in Audiences /\ d[1] \notin S /\ <<d[1], d[2]>> \in K
    BY DEF D, K
  <2>2. d[1] \in DOMAIN routes => d[1] \in DOMAIN routes' /\ routes'[d[1]] = routes[d[1]]
    BY <2>1
  <2>3. \A seq \in Nat : Taken(d, seq) => Taken(d, seq)'
    BY <1>2, <2>1 DEF Taken
  <2>. QED
    BY <2>2, <2>3 DEF SameFor
<1>5. ASSUME NEW d \in DOMAIN queues'
      PROVE  QueueOK(d, queues[d])'
  <2>1. d \in D /\ d \in DOMAIN queues /\ queues'[d] = queues[d]
    BY <1>2, <1>5
  <2>2. QueueOK(d, queues[d])
    BY <2>1 DEF LaneInv
  <2>3. \A q : QueueOK(d, q) => QueueOK(d, q)'
    BY <1>2, <1>4, <2>1, SameForKeepsQueue
  <2>. QED
    BY <2>1, <2>2, <2>3 DEF QueueOK
<1>6. ASSUME NEW d \in DOMAIN pulled'
      PROVE  PulledOK(d, pulled[d])' /\ MarksOK(played'[d], pulled'[d])
  <2>1. /\ d \in D /\ d \in DOMAIN pulled /\ pulled'[d] = pulled[d]
        /\ played'[d] = played[d]
    BY <1>2, <1>6 DEF LaneInv, LaneTypes
  <2>2. PulledOK(d, pulled[d]) /\ MarksOK(played[d], pulled[d])
    BY <2>1 DEF LaneInv
  <2>3. \A p : PulledOK(d, p) => PulledOK(d, p)'
    BY <1>4, <2>1, SameForKeepsPulled
  <2>. QED
    BY <2>1, <2>2, <2>3 DEF PulledOK
<1>. QED
  BY <1>3, <1>5, <1>6 DEF LaneInv

\* The control plane: a snapshot, the end of an audience or of a session.
LEMMA ControlKeepsLane ==
  ASSUME LaneInv,
         \/ \E a \in Audiences, snapshot \in Snapshots : InstallSnapshot(a, snapshot)
         \/ \E a \in Audiences : RemoveAudience(a)
         \/ \E a \in Audiences : EndSession(SessionOf[a])
  PROVE  LaneInv'
<1>0. DOMAIN routes \subseteq Audiences /\ \A a \in DOMAIN routes : routes[a] \in Snapshots
  BY DEF LaneInv, LaneTypes
<1>1. ASSUME NEW a \in Audiences, NEW snapshot \in Snapshots, InstallSnapshot(a, snapshot)
      PROVE  LaneInv'
  <2>1. PurgeAudiences({a}) /\ routes' = Put(routes, a, snapshot) /\ UNCHANGED now
    BY <1>1 DEF InstallSnapshot
  <2>2. /\ DOMAIN routes' = DOMAIN routes \cup {a} /\ routes'[a] = snapshot
        /\ \A x \in DOMAIN routes : x # a => routes'[x] = routes[x]
    BY <2>1 DEF Put
  <2>3. {a} \in SUBSET Audiences
    OBVIOUS
  <2>. QED
    BY <1>0, <2>1, <2>2, <2>3, PurgeKeepsLane
<1>2. ASSUME NEW S \in SUBSET Audiences, PurgeAudiences(S),
             routes' = Keep(routes, Audiences \ S), UNCHANGED now
      PROVE  LaneInv'
  <2>1. /\ DOMAIN routes' = DOMAIN routes \cap (Audiences \ S)
        /\ \A x \in DOMAIN routes' : routes'[x] = routes[x]
    BY <1>2, KeepFacts
  <2>. QED
    BY <1>0, <1>2, <2>1, PurgeKeepsLane
<1>3. ASSUME NEW a \in Audiences, RemoveAudience(a)
      PROVE  LaneInv'
  <2>1. {a} \in SUBSET Audiences
    OBVIOUS
  <2>2. PurgeAudiences({a}) /\ routes' = Keep(routes, Audiences \ {a}) /\ UNCHANGED now
    BY <1>3 DEF RemoveAudience
  <2>. QED
    BY <1>2, <2>1, <2>2
<1>4. ASSUME NEW s, EndSession(s)
      PROVE  LaneInv'
  <2>. DEFINE ended == {a \in DOMAIN routes : SessionOf[a] = s}
  <2>1. PurgeAudiences(ended) /\ routes' = Keep(routes, Audiences \ ended) /\ UNCHANGED now
    BY <1>4 DEF EndSession
  <2>2. ended \in SUBSET Audiences
    BY <1>0
  <2>. HIDE DEF ended
  <2>. QED
    BY <1>2, <2>1, <2>2
<1>. QED
  BY <1>1, <1>3, <1>4

\* The window of a publisher after a frame of it was admitted: the frame was
\* new to it, is seen now, and so is whatever was seen before.
LEMMA PublishWindow ==
  ASSUME LaneInv, NEW f \in Frame, Publish(f)
  PROVE  LET k == <<f.audience, f.publisher>>
         IN  /\ DOMAIN sequences' = DOMAIN sequences \cup {k}
             /\ \A x \in DOMAIN sequences' : sequences'[x] \in Window
             /\ \A d : \A seq \in Nat : Taken(d, seq) => Taken(d, seq)'
             /\ Seen(sequences'[k], f.seq)
             /\ k \in DOMAIN sequences => ~Seen(sequences[k], f.seq)
<1>. DEFINE k == <<f.audience, f.publisher>>
            w == IF k \in DOMAIN sequences THEN Admit(sequences[k], f.seq)
                 ELSE FirstWindow(f.seq)
<1>1. sequences' = Put(sequences, k, w)
  BY DEF Publish
<1>2. k \in DOMAIN sequences => Admits(sequences[k], f.seq)
  BY DEF Publish, Publishable
<1>3. f.seq \in Seqs
  BY DEF Frame
<1>4. \A x \in DOMAIN sequences : sequences[x] \in Window
  BY DEF LaneInv, LaneTypes
<1>5. /\ w \in Window /\ Seen(w, f.seq)
      /\ k \in DOMAIN sequences => /\ ~Seen(sequences[k], f.seq)
                                   /\ \A s \in Nat : Seen(sequences[k], s) => Seen(w, s)
  <2>1. CASE k \in DOMAIN sequences
    <3>1. sequences[k] \in Window /\ Admits(sequences[k], f.seq) /\ w = Admit(sequences[k], f.seq)
      BY <1>2, <1>4, <2>1
    <3>2. ~Seen(sequences[k], f.seq)
      BY <1>3, <3>1, AdmittedIsNew
    <3>. HIDE DEF w, k
    <3>. QED
      BY <1>3, <3>1, <3>2, AdmitSees
  <2>2. CASE k \notin DOMAIN sequences
    <3>1. w = FirstWindow(f.seq)
      BY <2>2
    <3>. HIDE DEF w, k
    <3>. QED
      BY <1>3, <2>2, <3>1, FirstWindowSees
  <2>. QED
    BY <2>1, <2>2
<1>. HIDE DEF w, k
<1>6. /\ DOMAIN sequences' = DOMAIN sequences \cup {k} /\ sequences'[k] = w
      /\ \A x \in DOMAIN sequences : x # k => sequences'[x] = sequences[x]
  BY <1>1 DEF Put
<1>7. ASSUME NEW d, NEW seq \in Nat, Taken(d, seq)
      PROVE  Taken(d, seq)'
  <2>1. <<d[1], d[2]>> \in DOMAIN sequences /\ Seen(sequences[<<d[1], d[2]>>], seq)
    BY <1>7 DEF Taken
  <2>2. <<d[1], d[2]>> \in DOMAIN sequences' /\ Seen(sequences'[<<d[1], d[2]>>], seq)
    BY <1>5, <1>6, <2>1
  <2>3. Seen(sequences[<<d[1], d[2]>>], seq)'
    BY <2>2 DEF Seen
  <2>. QED
    BY <2>2, <2>3 DEF Taken
<1>8. \A x \in DOMAIN sequences' : sequences'[x] \in Window
  BY <1>4, <1>5, <1>6
<1>. QED
  BY <1>5, <1>6, <1>7, <1>8 DEF k

\* A frame that was admitted joins a queue of its fan-out.
LEMMA PublishQueue ==
  ASSUME LaneInv, NEW f \in Frame, Publish(f), NEW d \in FanOut(f),
         NEW q, QueueOK(d, q)
  PROVE  QueueOK(d, Enqueue(q, f))'
<1>. DEFINE k == <<f.audience, f.publisher>>
<1>0. f.seq \in Seqs /\ f.seq \in Nat /\ MaxQueue \in Nat
  BY TalkbackAssumption DEF Frame
<1>1. UNCHANGED <<now, routes, pulled>>
  BY DEF Publish
<1>2. /\ d[1] = f.audience /\ d[2] = f.publisher /\ d[3] \in routes[f.audience].subscribers
      /\ ParticipantOf[d[3]] # ParticipantOf[f.publisher]
  BY DEF FanOut
<1>3. /\ f.audience \in DOMAIN routes /\ f.generation = routes[f.audience].generation
      /\ [endpoint |-> f.publisher, grant |-> f.grant] \in routes[f.audience].publishers
  BY DEF Publish, Publishable
<1>4. Authorized(d, f)
  BY <1>2, <1>3 DEF Authorized
<1>5. /\ \A seq \in Nat : Taken(d, seq) => Taken(d, seq)'
      /\ DOMAIN sequences' = DOMAIN sequences \cup {k} /\ Seen(sequences'[k], f.seq)
      /\ k \in DOMAIN sequences => ~Seen(sequences[k], f.seq)
  BY PublishWindow
<1>6. Taken(d, f.seq)' /\ ~Taken(d, f.seq)
  <2>1. <<d[1], d[2]>> = k
    BY <1>2
  <2>. HIDE DEF k
  <2>2. ~Taken(d, f.seq)
    BY <1>5, <2>1 DEF Taken
  <2>3. Seen(sequences[k], f.seq)'
    BY <1>5 DEF Seen
  <2>. QED
    BY <1>5, <2>1, <2>2, <2>3 DEF Taken
<1>7. SameFor(d)
  BY <1>1, <1>5 DEF SameFor
<1>8. d \in DOMAIN pulled => f.seq \notin Range(pulled[d])
  <2>1. d \in DOMAIN pulled => /\ pulled[d] \in Seq(Seqs)
                               /\ \A i \in 1..Len(pulled[d]) : Taken(d, pulled[d][i])
    BY DEF LaneInv, PulledOK
  <2>. QED
    BY <1>6, <2>1 DEF Range
<1>9. WaitingOK(d, f)'
  BY <1>1, <1>4, <1>6, <1>8 DEF WaitingOK, Authorized
<1>10. PICK room : QueueOK(d, room) /\ Len(room) < MaxQueue /\ Enqueue(q, f) = Append(room, f)
  BY RoomOK
<1>11. Enqueue(q, f)' = Append(room, f)
  <2>1. Enqueue(q, f)' = Enqueue(q, f)
    BY <1>1 DEF Enqueue, IsExpired
  <2>. QED
    BY <1>10, <2>1
<1>12. QueueOK(d, room)'
  BY <1>1, <1>7, <1>10, SameForKeepsQueue
<1>13. room \in Seq(Frame) /\ \A i \in 1..Len(room) : room[i].seq # f.seq
  <2>1. room \in Seq(Frame) /\ \A i \in 1..Len(room) : Taken(d, room[i].seq)
    BY <1>10 DEF QueueOK, WaitingOK
  <2>. QED
    BY <1>6, <2>1
<1>. DEFINE p == Append(room, f)
<1>14. /\ p \in Seq(Frame) /\ Len(p) = Len(room) + 1 /\ Len(room) \in Nat
       /\ p[Len(room) + 1] = f
       /\ \A i \in 1..Len(room) : p[i] = room[i]
  BY <1>13
<1>. HIDE DEF p
<1>15. Len(p) <= MaxQueue
  BY <1>0, <1>10, <1>14
<1>16. \A i \in 1..Len(p) : i \in 1..Len(room) \/ i = Len(room) + 1
  BY <1>14
<1>17. \A i \in 1..Len(p) : WaitingOK(d, p[i])'
  <2>. TAKE i \in 1..Len(p)
  <2>1. CASE i \in 1..Len(room)
    <3>1. WaitingOK(d, room[i])'
      BY <1>12, <2>1 DEF QueueOK
    <3>. QED
      BY <1>14, <2>1, <3>1
  <2>2. CASE i = Len(room) + 1
    BY <1>9, <1>14, <2>2
  <2>. QED
    BY <1>16, <2>1, <2>2
<1>18. \A i, j \in 1..Len(p) : p[i].seq = p[j].seq => i = j
  <2>1. \A i, j \in 1..Len(room) : room[i].seq = room[j].seq => i = j
    BY <1>10 DEF QueueOK
  <2>. QED
    BY <1>13, <1>14, <1>16, <2>1
<1>19. QueueOK(d, p)'
  BY <1>14, <1>15, <1>17, <1>18 DEF QueueOK
<1>. QED
  BY <1>11, <1>19 DEF p, QueueOK

\* A frame is published.
LEMMA PublishKeepsLane ==
  ASSUME LaneInv, NEW f \in Frame, Publish(f)
  PROVE  LaneInv'
<1>1. /\ UNCHANGED <<now, routes, played, pulled>>
      /\ DOMAIN queues' = DOMAIN queues \cup FanOut(f)
      /\ \A d \in DOMAIN queues' :
           queues'[d] = IF d \in FanOut(f) THEN Enqueue(Lookup(queues, d, <<>>), f) ELSE queues[d]
  BY DEF Publish
<1>2. /\ f.audience \in Audiences /\ f.publisher \in Publishers
      /\ f.audience \in DOMAIN routes
  BY DEF Frame, Publish, Publishable
<1>3. FanOut(f) \subseteq Deliveries
  <2>1. routes[f.audience].subscribers \subseteq Receivers
    BY <1>2, TalkbackAssumption DEF LaneInv, LaneTypes
  <2>. QED
    BY <1>2, <2>1 DEF FanOut, Deliveries
<1>4. /\ DOMAIN sequences' = DOMAIN sequences \cup {<<f.audience, f.publisher>>}
      /\ \A x \in DOMAIN sequences' : sequences'[x] \in Window
      /\ \A d : \A seq \in Nat : Taken(d, seq) => Taken(d, seq)'
  BY PublishWindow
<1>5. LaneTypes'
  BY <1>1, <1>2, <1>3, <1>4 DEF LaneInv, LaneTypes
<1>6. \A d : SameFor(d)
  BY <1>1, <1>4 DEF SameFor
<1>7. ASSUME NEW d \in DOMAIN queues'
      PROVE  QueueOK(d, queues[d])'
  <2>1. CASE d \in FanOut(f)
    <3>1. queues'[d] = Enqueue(Lookup(queues, d, <<>>), f)
      BY <1>1, <2>1
    <3>2. QueueOK(d, Lookup(queues, d, <<>>))
      <4>1. QueueOK(d, <<>>)
        BY TalkbackAssumption DEF QueueOK
      <4>. QED
        BY <4>1 DEF Lookup, LaneInv
    <3>3. \A q : QueueOK(d, q) => QueueOK(d, Enqueue(q, f))'
      BY <2>1, PublishQueue
    <3>. DEFINE q == Lookup(queues, d, <<>>)
    <3>4. Enqueue(q, f) = queues'[d] /\ QueueOK(d, q)
      BY <3>1, <3>2
    <3>. HIDE DEF q
    <3>5. PICK c : c = q
      OBVIOUS
    <3>6. QueueOK(d, Enqueue(c, f))'
      BY <3>3, <3>4, <3>5
    <3>7. Enqueue(c, f)' = queues'[d]
      BY <1>1, <3>4, <3>5 DEF Enqueue, IsExpired
    <3>. QED
      BY <3>6, <3>7 DEF QueueOK
  <2>2. CASE d \notin FanOut(f)
    <3>1. d \in DOMAIN queues /\ queues'[d] = queues[d]
      BY <1>1, <2>2
    <3>2. QueueOK(d, queues[d])
      BY <3>1 DEF LaneInv
    <3>3. \A q : QueueOK(d, q) => QueueOK(d, q)'
      BY <1>1, <1>6, SameForKeepsQueue
    <3>. QED
      BY <3>1, <3>2, <3>3 DEF QueueOK
  <2>. QED
    BY <2>1, <2>2
<1>8. ASSUME NEW d \in DOMAIN pulled'
      PROVE  PulledOK(d, pulled[d])' /\ MarksOK(played'[d], pulled'[d])
  <2>1. PulledOK(d, pulled[d]) /\ MarksOK(played[d], pulled[d])
    BY <1>1, <1>8 DEF LaneInv
  <2>2. \A p : PulledOK(d, p) => PulledOK(d, p)'
    BY <1>6, SameForKeepsPulled
  <2>. QED
    BY <1>1, <2>1, <2>2 DEF PulledOK
<1>. QED
  BY <1>5, <1>7, <1>8 DEF LaneInv

\* The marks of a delivery after a pull.
LEMMA HighWaterOK ==
  ASSUME LaneInv, NEW d, NEW seq \in Seqs
  PROVE  MarksOK(HighWater(d, seq), Append(Lookup(pulled, d, <<>>), seq))
<1>. DEFINE p == Lookup(pulled, d, <<>>)
            pp == Append(p, seq)
            m == HighWater(d, seq)
<1>0. seq \in Nat /\ \A z \in Seqs : z \in Nat
  BY TalkbackAssumption
<1>1. p \in Seq(Seqs)
  BY DEF Lookup, LaneInv, PulledOK
<1>2. /\ Len(p) \in Nat /\ Len(pp) = Len(p) + 1 /\ pp[Len(p) + 1] = seq
      /\ \A i \in 1..Len(p) : pp[i] = p[i] /\ p[i] \in Nat
      /\ \A i \in 1..Len(pp) : i \in 1..Len(p) \/ i = Len(p) + 1
  <2>. HIDE DEF p
  <2>1. \A i \in 1..Len(p) : p[i] \in Nat
    <3>1. \A i \in 1..Len(p) : p[i] \in Seqs
      BY <1>1
    <3>. QED
      BY <1>0, <3>1, Zenon
  <2>. QED
    BY <1>1, <2>1
<1>3. CASE d \in DOMAIN played
  <2>1. d \in DOMAIN pulled /\ p = pulled[d]
    BY <1>3 DEF LaneInv, LaneTypes, Lookup
  <2>2. MarksOK(played[d], p)
    BY <2>1 DEF LaneInv
  <2>. DEFINE o == played[d].delivered
  <2>3. o \in Seqs /\ o \in Nat /\ played[d].acknowledged \in Int
    <3>1. played[d] \in [delivered : Seqs, acknowledged : {None} \cup Seqs]
      BY <2>2 DEF MarksOK
    <3>2. o \in Seqs /\ played[d].acknowledged \in {None} \cup Seqs
      BY <3>1
    <3>3. None \in Int /\ \A z \in Nat : z \in Int
      BY DEF None
    <3>. QED
      BY <1>0, <3>2, <3>3, Zenon
  <2>4. Max({o, seq}) \in {o, seq} /\ Max({o, seq}) >= o /\ Max({o, seq}) >= seq
    <3>1. \E x \in {o, seq} : \A y \in {o, seq} : x >= y
      BY <1>0, <2>3
    <3>. QED
      BY <3>1 DEF Max
  <2>5. m = [played[d] EXCEPT !.delivered = Max({o, seq})]
    BY <1>3 DEF HighWater
  <2>6. /\ m \in [delivered : Seqs, acknowledged : {None} \cup Seqs]
        /\ m.delivered = Max({o, seq}) /\ m.acknowledged = played[d].acknowledged
    <3>. HIDE DEF m
    <3>1. Max({o, seq}) \in Seqs
      BY <2>3, <2>4
    <3>2. played[d] \in [delivered : Seqs, acknowledged : {None} \cup Seqs]
      BY <2>2 DEF MarksOK
    <3>. QED
      BY <2>5, <3>1, <3>2
  <2>. HIDE DEF m, pp, p, o
  <2>7. m.delivered \in Nat /\ m.delivered >= o /\ m.delivered >= seq /\ m.delivered \in {o, seq}
    BY <1>0, <2>3, <2>4, <2>6
  <2>8. (\E i \in 1..Len(p) : p[i] = o) /\ \A i \in 1..Len(p) : p[i] <= o
    BY <2>2 DEF MarksOK, o
  <2>9. played[d].acknowledged <= o
    BY <2>2 DEF MarksOK, o
  <2>10. m.acknowledged <= m.delivered
    BY <2>3, <2>6, <2>7, <2>9
  <2>11. \A i \in 1..Len(pp) : pp[i] <= m.delivered
    BY <1>0, <1>2, <2>3, <2>7, <2>8
  <2>12. \E i \in 1..Len(pp) : pp[i] = m.delivered
    BY <1>2, <2>7, <2>8
  <2>13. MarksOK(m, pp)
    BY <2>6, <2>10, <2>11, <2>12 DEF MarksOK
  <2>. QED
    BY <2>13 DEF m, pp, p
<1>4. CASE d \notin DOMAIN played
  <2>1. p = <<>>
    BY <1>4 DEF LaneInv, LaneTypes, Lookup
  <2>2. m = [delivered |-> seq, acknowledged |-> None]
    BY <1>4 DEF HighWater
  <2>3. /\ m \in [delivered : Seqs, acknowledged : {None} \cup Seqs]
        /\ m.delivered = seq /\ m.acknowledged = -1
    BY <2>2 DEF None
  <2>4. Len(p) = 0
    BY <2>1
  <2>. HIDE DEF m, pp, p
  <2>5. MarksOK(m, pp)
    BY <1>0, <1>2, <2>3, <2>4 DEF MarksOK
  <2>. QED
    BY <2>5 DEF m, pp, p
<1>. QED
  BY <1>3, <1>4

\* A frame is pulled: the receiver had not pulled its sequence, and no other
\* frame that waits for the receiver has it.
LEMMA PullKeepsLane ==
  ASSUME LaneInv, NEW r \in Receivers, NEW d \in Deliveries, PullNext(r, d)
  PROVE  LaneInv'
<1>. DEFINE x == DropExpired(queues[d])
            f == Head(x)
            p == Lookup(pulled, d, <<>>)
            pp == Append(p, f.seq)
<1>1. /\ UNCHANGED <<now, routes, sequences>>
      /\ DOMAIN queues' = DOMAIN queues
      /\ played' = Put(played, d, HighWater(d, f.seq))
      /\ pulled' = Put(pulled, d, pp)
      /\ d \in DOMAIN queues /\ x # <<>>
  BY DEF PullNext, Oldest, QueuesOf
<1>2. /\ queues'[d] = Tail(x)
      /\ \A e \in DOMAIN queues : e # d =>
            queues'[e] = DropExpired(queues[e]) \/ queues'[e] = queues[e]
  BY <1>1 DEF PullNext
<1>3. QueueOK(d, x)
  BY <1>1, DropExpiredOK DEF LaneInv
<1>4. /\ x \in Seq(Frame) /\ Len(x) \in Nat /\ Len(x) > 0 /\ f = x[1]
      /\ \A i \in 1..Len(Tail(x)) : Tail(x)[i] = x[i + 1] /\ i + 1 \in 1..Len(x) /\ i + 1 # 1
      /\ 1 \in 1..Len(x)
  <2>1. x \in Seq(Frame)
    BY <1>3 DEF QueueOK
  <2>. HIDE DEF x
  <2>. QED
    BY <1>1, <2>1
<1>. HIDE DEF x
<1>5. WaitingOK(d, f) /\ f.seq \in Seqs /\ Taken(d, f.seq)
  BY <1>3, <1>4 DEF QueueOK, WaitingOK, Frame
<1>6. /\ QueueOK(d, Tail(x))
      /\ \A i \in 1..Len(Tail(x)) : Tail(x)[i].seq # f.seq
  <2>1. QueueOK(d, Tail(x))
    BY <1>1, <1>3, TailQueueOK
  <2>2. \A i \in 1..Len(Tail(x)) : Tail(x)[i].seq # f.seq
    BY <1>3, <1>4 DEF QueueOK
  <2>. QED
    BY <2>1, <2>2
<1>. HIDE DEF f
<1>7. /\ p \in Seq(Seqs)
      /\ \A i \in 1..Len(p) : Taken(d, p[i]) /\ p[i] # f.seq
      /\ \A i, j \in 1..Len(p) : p[i] = p[j] => i = j
      /\ d \in DOMAIN pulled => p = pulled[d]
  <2>1. CASE d \in DOMAIN pulled
    <3>1. p = pulled[d] /\ PulledOK(d, pulled[d])
      BY <2>1 DEF Lookup, LaneInv
    <3>2. f.seq \notin Range(pulled[d])
      BY <1>5, <2>1 DEF WaitingOK
    <3>. QED
      BY <3>1, <3>2 DEF PulledOK, Range
  <2>2. CASE d \notin DOMAIN pulled
    <3>1. p = <<>>
      BY <2>2 DEF Lookup
    <3>. HIDE DEF p
    <3>. QED
      BY <2>2, <3>1
  <2>. QED
    BY <2>1, <2>2
<1>8. MarksOK(HighWater(d, f.seq), pp)
  BY <1>5, HighWaterOK
<1>. HIDE DEF p
<1>9. /\ pp \in Seq(Seqs) /\ Len(pp) = Len(p) + 1 /\ Len(p) \in Nat
      /\ pp[Len(p) + 1] = f.seq /\ \A i \in 1..Len(p) : pp[i] = p[i]
      /\ \A i \in 1..Len(pp) : i \in 1..Len(p) \/ i = Len(p) + 1
  BY <1>5, <1>7
<1>. HIDE DEF pp
<1>10. PulledOK(d, pp)
  <2>1. \A i \in 1..Len(pp) : Taken(d, pp[i])
    BY <1>5, <1>7, <1>9
  <2>2. \A i, j \in 1..Len(pp) : pp[i] = pp[j] => i = j
    BY <1>7, <1>9
  <2>. QED
    BY <1>9, <2>1, <2>2 DEF PulledOK
<1>11. /\ DOMAIN played' = DOMAIN played \cup {d} /\ played'[d] = HighWater(d, f.seq)
       /\ \A e \in DOMAIN played : e # d => played'[e] = played[e]
  BY <1>1 DEF Put
<1>12. /\ DOMAIN pulled' = DOMAIN pulled \cup {d} /\ pulled'[d] = pp
       /\ \A e \in DOMAIN pulled : e # d => pulled'[e] = pulled[e]
  BY <1>1 DEF Put
<1>13. LaneTypes'
  BY <1>1, <1>11, <1>12 DEF LaneInv, LaneTypes
<1>14. \A e : SameFor(e)
  BY <1>1 DEF SameFor, Taken, Seen
<1>15. ASSUME NEW e \in DOMAIN queues', e # d
       PROVE  QueueOK(e, queues[e])'
  <2>1. QueueOK(e, queues'[e])
    BY <1>1, <1>2, <1>15, DropExpiredOK DEF LaneInv
  <2>2. e \in DOMAIN pulled' => e \in DOMAIN pulled /\ pulled'[e] = pulled[e]
    BY <1>12, <1>15
  <2>3. \A q : QueueOK(e, q) => QueueOK(e, q)'
    BY <1>14, <2>2, SameForKeepsQueue
  <2>. QED
    BY <2>1, <2>3 DEF QueueOK
<1>16. QueueOK(d, queues[d])'
  <2>. PICK y : y = Tail(x)
    OBVIOUS
  <2>1. y \in Seq(Frame) /\ Len(y) <= MaxQueue
    BY <1>6 DEF QueueOK
  <2>2. ASSUME NEW i \in 1..Len(y)
        PROVE  WaitingOK(d, y[i])'
    <3>1. WaitingOK(d, y[i]) /\ y[i].seq # f.seq
      BY <1>6 DEF QueueOK
    <3>2. \A j \in 1..Len(p) : p[j] # y[i].seq
      <4>1. CASE d \in DOMAIN pulled
        BY <1>7, <3>1, <4>1 DEF WaitingOK, Range
      <4>2. CASE d \notin DOMAIN pulled
        <5>1. p = <<>>
          BY <4>2 DEF p, Lookup
        <5>. QED
          BY <5>1
      <4>. QED
        BY <4>1, <4>2
    <3>3. y[i].seq \notin Range(pp)
      <4>1. \A j \in 1..Len(pp) : pp[j] # y[i].seq
        BY <1>9, <3>1, <3>2
      <4>2. DOMAIN pp = 1..Len(pp)
        BY <1>9
      <4>. QED
        BY <4>1, <4>2 DEF Range
    <3>. QED
      BY <1>1, <1>12, <3>1, <3>3 DEF WaitingOK, Authorized, Taken, Seen
  <2>3. \A i, j \in 1..Len(y) : y[i].seq = y[j].seq => i = j
    BY <1>6 DEF QueueOK
  <2>4. QueueOK(d, y)'
    BY <2>1, <2>2, <2>3 DEF QueueOK
  <2>. QED
    BY <1>2, <2>4 DEF QueueOK
<1>17. ASSUME NEW e \in DOMAIN pulled'
       PROVE  PulledOK(e, pulled[e])' /\ MarksOK(played'[e], pulled'[e])
  <2>1. \A q : PulledOK(e, q) => PulledOK(e, q)'
    BY <1>14, SameForKeepsPulled
  <2>2. PulledOK(e, pulled'[e]) /\ MarksOK(played'[e], pulled'[e])
    BY <1>8, <1>10, <1>11, <1>12 DEF LaneInv, LaneTypes
  <2>. QED
    BY <2>1, <2>2 DEF PulledOK
<1>. QED
  BY <1>13, <1>15, <1>16, <1>17 DEF LaneInv

\* A pull that finds nothing, an acknowledgement, and time.
LEMMA OthersKeepLane ==
  ASSUME LaneInv,
         \/ \E r \in Receivers : PullNothing(r)
         \/ \E d \in Deliveries, seq \in Seqs : AcknowledgePlayout(d, seq)
         \/ Elapse
         \/ UNCHANGED vars
  PROVE  LaneInv'
<1>1. UNCHANGED <<routes, sequences, pulled>>
  BY DEF PullNothing, AcknowledgePlayout, Elapse, vars
<1>2. \A e : SameFor(e)
  BY <1>1 DEF SameFor, Taken, Seen
<1>3. now' \in 0..MaxTime
  BY TalkbackAssumption DEF PullNothing, AcknowledgePlayout, Elapse, vars, LaneInv, LaneTypes
<1>4. /\ DOMAIN queues' = DOMAIN queues
      /\ \A d \in DOMAIN queues : queues'[d] = <<>> \/ queues'[d] = queues[d]
  BY DEF PullNothing, AcknowledgePlayout, Elapse, vars
<1>5. ASSUME NEW d \in DOMAIN queues'
      PROVE  QueueOK(d, queues[d])'
  <2>1. QueueOK(d, <<>>)
    BY TalkbackAssumption DEF QueueOK
  <2>2. QueueOK(d, queues'[d])
    BY <1>4, <2>1 DEF LaneInv
  <2>3. \A q : QueueOK(d, q) => QueueOK(d, q)'
    BY <1>1, <1>2, SameForKeepsQueue
  <2>. QED
    BY <2>2, <2>3 DEF QueueOK
<1>6. DOMAIN played' = DOMAIN played /\ \A d \in DOMAIN pulled : MarksOK(played'[d], pulled[d])
  <2>1. CASE UNCHANGED played
    BY <2>1 DEF LaneInv
  <2>2. ASSUME NEW d \in Deliveries, NEW seq \in Seqs, AcknowledgePlayout(d, seq)
        PROVE  /\ DOMAIN played' = DOMAIN played
               /\ \A e \in DOMAIN pulled : MarksOK(played'[e], pulled[e])
    <3>1. /\ d \in DOMAIN played /\ seq <= played[d].delivered
          /\ played' = [played EXCEPT ![d].acknowledged = seq]
      BY <2>2 DEF AcknowledgePlayout
    <3>2. /\ DOMAIN played' = DOMAIN played
          /\ played'[d] = [played[d] EXCEPT !.acknowledged = seq]
          /\ \A e \in DOMAIN played : e # d => played'[e] = played[e]
      BY <3>1
    <3>3. MarksOK(played[d], pulled[d])
      BY <3>1 DEF LaneInv, LaneTypes
    <3>4. played[d] \in [delivered : Seqs, acknowledged : {None} \cup Seqs]
      BY <3>3 DEF MarksOK
    <3>5. /\ played'[d] \in [delivered : Seqs, acknowledged : {None} \cup Seqs]
          /\ played'[d].delivered = played[d].delivered /\ played'[d].acknowledged = seq
      BY <3>2, <3>4
    <3>6. MarksOK(played'[d], pulled[d])
      BY <3>1, <3>3, <3>5 DEF MarksOK
    <3>. QED
      BY <3>2, <3>6 DEF LaneInv, LaneTypes
  <2>. QED
    BY <2>1, <2>2 DEF PullNothing, Elapse, vars
<1>7. ASSUME NEW d \in DOMAIN pulled'
      PROVE  PulledOK(d, pulled[d])' /\ MarksOK(played'[d], pulled'[d])
  <2>1. \A q : PulledOK(d, q) => PulledOK(d, q)'
    BY <1>2, SameForKeepsPulled
  <2>2. PulledOK(d, pulled[d])
    BY <1>1, <1>7 DEF LaneInv
  <2>. QED
    BY <1>1, <1>6, <2>1, <2>2 DEF PulledOK
<1>8. LaneTypes'
  BY <1>1, <1>3, <1>4, <1>6 DEF LaneInv, LaneTypes
<1>. QED
  BY <1>5, <1>7, <1>8 DEF LaneInv

-----------------------------------------------------------------------------
\* The invariant holds in every state of the lane.
THEOREM LaneInvariant == Spec => []LaneInv
<1>1. Init => LaneInv
  BY TalkbackAssumption DEF Init, LaneInv, LaneTypes, EmptyTable
<1>2. LaneInv /\ [Next]_vars => LaneInv'
  BY ControlKeepsLane, PublishKeepsLane, PullKeepsLane, OthersKeepLane DEF Next
<1>. QED
  BY <1>1, <1>2, PTL DEF Spec

\* The highest of what was pulled is the mark.
LEMMA MarkIsMax ==
  ASSUME NEW d, NEW p, PulledOK(d, p), NEW m, MarksOK(m, p)
  PROVE  m.delivered = Max(Range(p))
<1>1. p \in Seq(Seqs) /\ DOMAIN p = 1..Len(p)
  BY DEF PulledOK
<1>2. \A y \in Range(p) : y \in Nat
  <2>1. \A z \in Seqs : z \in Nat
    BY TalkbackAssumption
  <2>2. \A y \in Range(p) : y \in Seqs
    BY <1>1 DEF Range
  <2>. QED
    BY <2>1, <2>2, Zenon
<1>3. m.delivered \in Range(p) /\ \A y \in Range(p) : m.delivered >= y
  <2>1. m.delivered \in Range(p)
    BY <1>1 DEF MarksOK, Range
  <2>2. \A i \in 1..Len(p) : p[i] <= m.delivered
    BY DEF MarksOK
  <2>3. \A y \in Range(p) : y <= m.delivered
    BY <1>1, <2>2 DEF Range
  <2>. QED
    BY <1>2, <2>1, <2>3
<1>. DEFINE x == Max(Range(p))
<1>4. x \in Range(p) /\ \A y \in Range(p) : x >= y
  BY <1>3 DEF Max
<1>5. x \in Nat /\ m.delivered \in Nat
  BY <1>2, <1>3, <1>4, Zenon
<1>6. x >= m.delivered /\ m.delivered >= x
  BY <1>3, <1>4, Zenon
<1>. HIDE DEF x
<1>7. x = m.delivered
  BY <1>5, <1>6
<1>. QED
  BY <1>7 DEF x

\* The lane delivers each sequence of a publisher to a receiver at most once
\* under a snapshot, only to those that snapshot allows, and its marks are
\* exact, whatever the order and distance of the frames (talkback_lane.rs:
\* 280-600).
THEOREM LaneCorrect == Spec => []LaneSound
<1>1. LaneInv => LaneSound
  <2>. SUFFICES ASSUME LaneInv
                PROVE  LaneSound
    OBVIOUS
  <2>1. \A d \in DOMAIN queues : QueueOK(d, queues[d])
    BY DEF LaneInv
  <2>2. \A d \in DOMAIN pulled : PulledOK(d, pulled[d]) /\ MarksOK(played[d], pulled[d])
    BY DEF LaneInv
  <2>3. \A d \in DOMAIN queues : queues[d] \in Seq(Frame)
    BY <2>1 DEF QueueOK
  <2>4. TypeOK
    BY <2>2, <2>3 DEF LaneInv, LaneTypes, TypeOK, Window, PulledOK, MarksOK
  <2>5. DeliveredOnce
    <3>. SUFFICES ASSUME NEW d \in DOMAIN pulled
                  PROVE  IsInjective(pulled[d]) /\ Range(pulled[d]) \cap Waiting(d) = {}
      BY DEF DeliveredOnce
    <3>1. IsInjective(pulled[d])
      BY <2>2 DEF PulledOK, IsInjective
    <3>2. ASSUME NEW y \in Waiting(d)
          PROVE  y \notin Range(pulled[d])
      <4>1. CASE d \in DOMAIN queues
        <5>1. PICK i \in DOMAIN queues[d] : y = queues[d][i].seq
          BY <3>2, <4>1 DEF Waiting, Lookup
        <5>2. i \in 1..Len(queues[d])
          BY <2>3, <4>1, <5>1
        <5>3. WaitingOK(d, queues[d][i])
          BY <2>1, <4>1, <5>2 DEF QueueOK
        <5>. QED
          BY <5>1, <5>3 DEF WaitingOK
      <4>2. CASE d \notin DOMAIN queues
        BY <3>2, <4>2 DEF Waiting, Lookup
      <4>. QED
        BY <4>1, <4>2
    <3>. QED
      BY <3>1, <3>2
  <2>6. QueuesAuthorized
    <3>. SUFFICES ASSUME NEW d \in DOMAIN queues
                  PROVE  /\ Len(queues[d]) <= MaxQueue
                         /\ \A i \in DOMAIN queues[d] : Authorized(d, queues[d][i])
      BY DEF QueuesAuthorized, Authorized
    <3>. QED
      BY <2>1, <2>3 DEF QueueOK, WaitingOK
  <2>7. HighWaterExact
    <3>1. DOMAIN played = DOMAIN pulled
      BY DEF LaneInv, LaneTypes
    <3>2. ASSUME NEW d \in DOMAIN played
          PROVE  played[d].delivered = Max(Range(pulled[d]))
                 /\ played[d].acknowledged <= played[d].delivered
      <4>1. PulledOK(d, pulled[d]) /\ MarksOK(played[d], pulled[d])
        BY <2>2, <3>1
      <4>2. played[d].delivered = Max(Range(pulled[d]))
        BY <4>1, MarkIsMax
      <4>. QED
        BY <4>1, <4>2 DEF MarksOK
    <3>. QED
      BY <3>1, <3>2 DEF HighWaterExact
  <2>. QED
    BY <2>4, <2>5, <2>6, <2>7 DEF LaneSound
<1>. QED
  BY <1>1, LaneInvariant, PTL
=============================================================================
