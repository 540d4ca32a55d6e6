-------------------------- MODULE EdgeControlProofs --------------------------
(***************************************************************************)
(* Proofs about the parts of a node around the media, each with its own    *)
(* specification: the discovery of the operations collector, the requests  *)
(* for replicas, the subscriptions to synchronized stems, the queue of     *)
(* telemetry and its collection, the admission to playback, the fleet with *)
(* its commands, the record of answers, the measurement of links, the      *)
(* placement of replicas and the status of the mesh, for every set of      *)
(* edges, collectors, streams, threads, sessions, sources and nodes, and   *)
(* every margin, interval, limit and policy.                               *)
(***************************************************************************)
EXTENDS OperationsDiscovery, ReplicaRequests, StemSubscription, TelemetryQueue, EdgeAdmission,
        EdgeFleet, EdgeResponses, TelemetryDecoder, LinkTelemetry, ReplicaPlacement,
        MeshStatus, SequenceFacts

(***************************************************************************)
(* Discovery of the operations collector.                                  *)
(***************************************************************************)
\* A lease that was granted: it ends no later than the last one, and before
\* the last one began unless the same collector holds both.
Granted(l) ==
    /\ l.from \in Nat /\ l.until \in Nat
    /\ l.until <= lease.until
    /\ l.who = lease.who \/ l.until <= lease.from

\* What a collector wrote while it held the lease f.lease: the clock reading of
\* that time and what was left of the lease.
WrittenUnderLease(f) ==
    /\ f.lease.who \in OpsCollectors
    /\ Granted(f.lease)
    /\ \E t \in 0 .. ops_now : /\ f.lease.from <= t
                               /\ f.updated = t + ClockOf[f.lease.who]
                               /\ f.remaining = f.lease.until - t

\* A request that has read its clock and waits for the file.
RequestUnderWay(e, q) ==
    /\ q.started \in 0 .. ops_now
    /\ q.clock = q.started + ClockOf[e]

\* What was answered came from a lease that was granted, ran when the request
\* began or later, and had begun when it was answered.
AnsweredUnderLease(a) ==
    /\ a.started \in Nat /\ a.at \in Nat
    /\ Granted(a.lease)
    /\ a.lease.until > a.started /\ a.lease.from <= a.at

OpsRequest == [step : {"stat", "read"}, kind : {"discovery", "snapshot"},
               clock : Int, started : Nat]

\* The inductive invariant of the discovery: what the lease, the files, the
\* requests and the answers have to do with each other.
LeaseInv ==
    /\ ops_now \in Nat
    /\ lease.from \in Nat /\ lease.until \in Nat
    /\ lease.from <= ops_now /\ lease.until <= ops_now + LeaseLength
    /\ lease.until > 0 => lease.who \in OpsCollectors

DiscoveryInv ==
    /\ LeaseInv
    /\ DOMAIN ops_file = OpsEdges
    /\ \A e \in OpsEdges : ops_file[e].file = "snapshot" => WrittenUnderLease(ops_file[e])
    /\ ops_request \in [OpsEdges -> OpsRequest \cup {NoOpsRequest}]
    /\ \A e \in OpsEdges : ops_request[e].step \in {"stat", "read"} =>
                              RequestUnderWay(e, ops_request[e])
    /\ DOMAIN ops_answer = OpsEdges
    /\ \A e \in OpsEdges : /\ ops_answer[e].status \in {0, 200, 307, 503}
                           /\ Served(e) => AnsweredUnderLease(ops_answer[e])

\* Time and renewals keep the facts about leases: a lease that was granted
\* stays one when another is granted after it has run out.
LEMMA GrantKeepsGranted ==
    ASSUME LeaseInv, NEW c \in OpsCollectors, GrantLease(c), NEW l, Granted(l)
    PROVE  Granted(l)'
<1>1. /\ lease'.who = c
      /\ lease'.from = IF lease.until > ops_now THEN lease.from ELSE ops_now
      /\ lease'.until = ops_now + LeaseLength
      /\ lease.who = c \/ lease.until <= ops_now
  BY DEF GrantLease
<1>2. /\ ops_now \in Nat /\ lease.from \in Nat /\ lease.until \in Nat
      /\ lease.from <= ops_now /\ lease.until <= ops_now + LeaseLength
      /\ l.from \in Nat /\ l.until \in Nat /\ l.until <= lease.until
      /\ l.who = lease.who \/ l.until <= lease.from
      /\ LeaseLength \in Nat
  BY OpsAssumption DEF LeaseInv, Granted
<1>3. l.until <= lease'.until
  BY <1>1, <1>2
<1>4. l.who = lease'.who \/ l.until <= lease'.from
  BY <1>1, <1>2
<1>. QED
  BY <1>2, <1>3, <1>4 DEF Granted

\* Granting a lease.
LEMMA GrantKeepsDiscovery ==
    ASSUME DiscoveryInv, NEW c \in OpsCollectors, GrantLease(c)
    PROVE  DiscoveryInv'
<1>1. /\ lease'.who = c
      /\ lease'.from = IF lease.until > ops_now THEN lease.from ELSE ops_now
      /\ lease'.until = ops_now + LeaseLength
      /\ UNCHANGED <<ops_now, ops_file, ops_request, ops_answer>>
  BY DEF GrantLease
<1>2. LeaseInv'
  BY <1>1, OpsAssumption DEF DiscoveryInv, LeaseInv
<1>3. \A l : Granted(l) => Granted(l)'
  BY GrantKeepsGranted DEF DiscoveryInv
<1>4. ASSUME NEW e \in OpsEdges, ops_file'[e].file = "snapshot"
      PROVE  WrittenUnderLease(ops_file[e])'
  BY <1>1, <1>3, <1>4 DEF DiscoveryInv, WrittenUnderLease
<1>5. ASSUME NEW e \in OpsEdges, Served(e)'
      PROVE  AnsweredUnderLease(ops_answer[e])'
  BY <1>1, <1>3, <1>5 DEF DiscoveryInv, Served, AnsweredUnderLease
<1>. QED
  BY <1>1, <1>2, <1>4, <1>5 DEF DiscoveryInv, RequestUnderWay

\* A step that leaves the lease and the clock alone keeps the files, requests
\* and answers that it leaves alone.
LEMMA SameLease ==
    ASSUME UNCHANGED <<ops_now, lease>>
    PROVE  /\ \A f : WrittenUnderLease(f) => WrittenUnderLease(f)'
           /\ \A e, q : RequestUnderWay(e, q) => RequestUnderWay(e, q)'
           /\ \A a : AnsweredUnderLease(a) => AnsweredUnderLease(a)'
           /\ LeaseInv => LeaseInv'
  BY DEF WrittenUnderLease, RequestUnderWay, AnsweredUnderLease, Granted, LeaseInv

\* Replacing the file of an edge.
LEMMA FileStepKeepsDiscovery ==
    ASSUME DiscoveryInv, NEW e \in OpsEdges,
           \/ \E committed \in BOOLEAN, endpoint \in {"safe", "unsafe"} :
                 WriteSnapshot(e, committed, endpoint)
           \/ \E file \in {"missing", "irregular", "invalid"} : BreakFile(e, file)
    PROVE  DiscoveryInv'
<1>1. UNCHANGED <<ops_now, lease, ops_request, ops_answer>>
  BY DEF WriteSnapshot, BreakFile
<1>2. PICK f : ops_file' = [ops_file EXCEPT ![e] = f]
                /\ (f.file = "snapshot" => WrittenUnderLease(f))
  <2>1. ASSUME NEW committed \in BOOLEAN, NEW endpoint \in {"safe", "unsafe"},
               WriteSnapshot(e, committed, endpoint)
        PROVE  \E f : ops_file' = [ops_file EXCEPT ![e] = f] /\ WrittenUnderLease(f)
    <3>. DEFINE f == [file |-> "snapshot", committed |-> committed, endpoint |-> endpoint,
                      updated |-> ops_now + ClockOf[lease.who],
                      remaining |-> lease.until - ops_now, lease |-> lease]
    <3>1. ops_file' = [ops_file EXCEPT ![e] = f] /\ lease.until > ops_now
      BY <2>1 DEF WriteSnapshot
    <3>2. /\ ops_now \in Nat /\ lease.from \in Nat /\ lease.until \in Nat
          /\ lease.from <= ops_now
          /\ lease.until > 0 => lease.who \in OpsCollectors
      BY DEF DiscoveryInv, LeaseInv
    <3>3. lease.who \in OpsCollectors
      BY <3>1, <3>2
    <3>4. f.lease = lease /\ f.updated = ops_now + ClockOf[lease.who]
          /\ f.remaining = lease.until - ops_now
      OBVIOUS
    <3>5. Granted(lease)
      BY <3>2 DEF Granted
    <3>. HIDE DEF f
    <3>6. WrittenUnderLease(f)
      BY <3>2, <3>3, <3>4, <3>5 DEF WrittenUnderLease
    <3>. QED
      BY <3>1, <3>6
  <2>2. ASSUME NEW file \in {"missing", "irregular", "invalid"}, BreakFile(e, file)
        PROVE  \E f : ops_file' = [ops_file EXCEPT ![e] = f] /\ f.file # "snapshot"
    <3>1. ops_file' = [ops_file EXCEPT ![e] = [file |-> file]] /\ [file |-> file].file = file
      BY <2>2 DEF BreakFile
    <3>. QED
      BY <3>1
  <2>. QED
    BY <2>1, <2>2
<1>3. /\ DOMAIN ops_file' = OpsEdges
      /\ ops_file'[e] = f
      /\ \A o \in OpsEdges : o # e => ops_file'[o] = ops_file[o]
  BY <1>2 DEF DiscoveryInv
<1>4. ASSUME NEW o \in OpsEdges, ops_file'[o].file = "snapshot"
      PROVE  WrittenUnderLease(ops_file[o])'
  <2>1. WrittenUnderLease(ops_file'[o])
    BY <1>1, <1>2, <1>3, <1>4 DEF DiscoveryInv, WrittenUnderLease, Granted
  <2>. QED
    BY <1>1, <2>1 DEF WrittenUnderLease, Granted
<1>. QED
  BY <1>1, <1>3, <1>4
  DEF DiscoveryInv, LeaseInv, RequestUnderWay, Served, AnsweredUnderLease, Granted

\* A request begins: the clock it reads is of now.
LEMMA BeginKeepsDiscovery ==
    ASSUME DiscoveryInv, NEW e \in OpsEdges, NEW kind \in {"discovery", "snapshot"},
           BeginOps(e, kind)
    PROVE  DiscoveryInv'
<1>. DEFINE q == [step |-> "stat", kind |-> kind, clock |-> ops_now + ClockOf[e],
                  started |-> ops_now]
<1>1. /\ ops_request' = [ops_request EXCEPT ![e] = q]
      /\ ops_answer' = [ops_answer EXCEPT ![e] = NoOpsAnswer]
      /\ UNCHANGED <<ops_now, lease, ops_file>>
  BY DEF BeginOps
<1>2. /\ ops_now \in Nat /\ ClockOf[e] \in Int
  BY OpsAssumption DEF DiscoveryInv, LeaseInv
<1>3. q \in OpsRequest /\ q.started = ops_now /\ q.clock = ops_now + ClockOf[e]
  BY <1>2 DEF OpsRequest
<1>. HIDE DEF q
<1>4. /\ ops_request' \in [OpsEdges -> OpsRequest \cup {NoOpsRequest}]
      /\ ops_request'[e] = q
      /\ \A o \in OpsEdges : o # e => ops_request'[o] = ops_request[o]
  BY <1>1, <1>3 DEF DiscoveryInv
<1>5. /\ DOMAIN ops_answer' = OpsEdges
      /\ ops_answer'[e].status = 0
      /\ \A o \in OpsEdges : o # e => ops_answer'[o] = ops_answer[o]
  BY <1>1 DEF DiscoveryInv, NoOpsAnswer
<1>6. RequestUnderWay(e, q)
  BY <1>2, <1>3 DEF RequestUnderWay
<1>7. ASSUME NEW o \in OpsEdges, ops_request'[o].step \in {"stat", "read"}
      PROVE  RequestUnderWay(o, ops_request[o])'
  <2>1. RequestUnderWay(o, ops_request'[o])
    BY <1>4, <1>6, <1>7 DEF DiscoveryInv
  <2>. QED
    BY <1>1, <2>1 DEF RequestUnderWay
<1>8. ASSUME NEW o \in OpsEdges
      PROVE  /\ ops_answer'[o].status \in {0, 200, 307, 503}
             /\ Served(o)' => AnsweredUnderLease(ops_answer[o])'
  BY <1>1, <1>5 DEF DiscoveryInv, Served, AnsweredUnderLease, Granted
<1>. QED
  BY <1>1, <1>4, <1>5, <1>7, <1>8 DEF DiscoveryInv, LeaseInv, WrittenUnderLease, Granted

\* The answer that ends the request of an edge.
EndsWith(e, a) ==
    /\ a.status \in {200, 307, 503}
    /\ a.status \in {200, 307} => AnsweredUnderLease(a)
    /\ ops_answer' = [ops_answer EXCEPT ![e] = a]
    /\ ops_request' = [ops_request EXCEPT ![e] = NoOpsRequest]
    /\ UNCHANGED <<ops_now, lease, ops_file>>

\* It keeps the invariant: what it serves is of a granted lease.
LEMMA AnswerKeepsDiscovery ==
    ASSUME DiscoveryInv, NEW e \in OpsEdges, NEW a, EndsWith(e, a)
    PROVE  DiscoveryInv'
<1>. USE DEF EndsWith
<1>1. /\ ops_request' \in [OpsEdges -> OpsRequest \cup {NoOpsRequest}]
      /\ ops_request'[e] = NoOpsRequest
      /\ \A o \in OpsEdges : o # e => ops_request'[o] = ops_request[o]
  BY DEF DiscoveryInv
<1>2. /\ DOMAIN ops_answer' = OpsEdges
      /\ ops_answer'[e] = a
      /\ \A o \in OpsEdges : o # e => ops_answer'[o] = ops_answer[o]
  BY DEF DiscoveryInv
<1>3. ASSUME NEW o \in OpsEdges, ops_request'[o].step \in {"stat", "read"}
      PROVE  RequestUnderWay(o, ops_request[o])'
  <2>1. o # e
    BY <1>1, <1>3 DEF NoOpsRequest
  <2>. QED
    BY <1>1, <1>3, <2>1 DEF DiscoveryInv, RequestUnderWay
<1>4. ASSUME NEW o \in OpsEdges
      PROVE  /\ ops_answer'[o].status \in {0, 200, 307, 503}
             /\ Served(o)' => AnsweredUnderLease(ops_answer[o])'
  <2>1. /\ ops_answer'[o].status \in {0, 200, 307, 503}
        /\ ops_answer'[o].status \in {200, 307} => AnsweredUnderLease(ops_answer'[o])
    BY <1>2 DEF DiscoveryInv, Served
  <2>. QED
    BY <2>1 DEF Served, AnsweredUnderLease, Granted
<1>. QED
  BY <1>1, <1>2, <1>3, <1>4 DEF DiscoveryInv, LeaseInv, WrittenUnderLease, Granted

\* The file is looked at: nothing of it is kept but that it is a regular file.
LEMMA StatKeepsDiscovery ==
    ASSUME DiscoveryInv, NEW e \in OpsEdges, StatFile(e)
    PROVE  DiscoveryInv'
<1>1. /\ ops_request[e].step = "stat" /\ UNCHANGED <<ops_now, lease, ops_file>>
      /\ \/ Answers503(e)
         \/ ops_request' = [ops_request EXCEPT ![e].step = "read"] /\ UNCHANGED ops_answer
  BY DEF StatFile
<1>2. CASE Answers503(e)
  <2>. DEFINE a == [status |-> 503]
  <2>1. a.status = 503
    OBVIOUS
  <2>2. /\ ops_answer' = [ops_answer EXCEPT ![e] = a]
        /\ ops_request' = [ops_request EXCEPT ![e] = NoOpsRequest]
    BY <1>2 DEF Answers503
  <2>. HIDE DEF a
  <2>3. EndsWith(e, a)
    BY <1>1, <2>1, <2>2 DEF EndsWith
  <2>. QED
    BY <2>3, AnswerKeepsDiscovery
<1>3. CASE ops_request' = [ops_request EXCEPT ![e].step = "read"] /\ UNCHANGED ops_answer
  <2>1. ops_request[e] \in OpsRequest
    BY <1>1 DEF DiscoveryInv, NoOpsRequest
  <2>2. /\ ops_request' \in [OpsEdges -> OpsRequest \cup {NoOpsRequest}]
        /\ ops_request'[e].started = ops_request[e].started
        /\ ops_request'[e].clock = ops_request[e].clock
        /\ \A o \in OpsEdges : o # e => ops_request'[o] = ops_request[o]
    BY <1>3, <2>1 DEF DiscoveryInv, OpsRequest
  <2>3. RequestUnderWay(e, ops_request[e])
    BY <1>1 DEF DiscoveryInv
  <2>4. ASSUME NEW o \in OpsEdges, ops_request'[o].step \in {"stat", "read"}
        PROVE  RequestUnderWay(o, ops_request[o])'
    BY <1>1, <2>2, <2>3, <2>4 DEF DiscoveryInv, RequestUnderWay
  <2>. QED
    BY <1>1, <1>3, <2>2, <2>4
    DEF DiscoveryInv, LeaseInv, WrittenUnderLease, Granted, Served, AnsweredUnderLease
<1>. QED
  BY <1>1, <1>2, <1>3

\* What a collector wrote at true time t and an edge finds current with the clock
\* it read at true time s: the lease ran beyond s.  This is where the safety
\* margin covers the difference of the two clocks.
LEMMA CurrentLeaseRan ==
    ASSUME NEW e \in OpsEdges, NEW c \in OpsCollectors, NEW t \in Nat, NEW s \in Nat,
           NEW until \in Nat, NEW f, f.updated = t + ClockOf[c], f.remaining = until - t,
           LeaseRuns(s + ClockOf[e], f)
    PROVE  until > s
<1>1. /\ ClockOf[e] \in Int /\ ClockOf[c] \in Int /\ LeaseMargin \in Nat
      /\ ClockOf[c] - ClockOf[e] <= LeaseMargin
  BY OpsAssumption
<1>2. until - t > AgeAt(s + ClockOf[e], t + ClockOf[c]) + LeaseMargin
  BY DEF LeaseRuns
<1>3. AgeAt(s + ClockOf[e], t + ClockOf[c]) \in Int
      /\ AgeAt(s + ClockOf[e], t + ClockOf[c]) >= (s + ClockOf[e]) - (t + ClockOf[c])
  BY <1>1 DEF AgeAt
<1>. QED
  BY <1>1, <1>2, <1>3

\* The file is read and answered with: the answer is of the lease it was
\* written under.
LEMMA ReadKeepsDiscovery ==
    ASSUME DiscoveryInv, NEW e \in OpsEdges, ReadFile(e)
    PROVE  DiscoveryInv'
<1>. DEFINE q == ops_request[e]
            f == ops_file[e]
            a == [status |-> StatusOf(q.kind), lease |-> f.lease,
                  started |-> q.started, at |-> ops_now]
<1>1. q.step = "read" /\ UNCHANGED <<ops_now, lease, ops_file>>
  BY DEF ReadFile
<1>2. \/ Answers503(e)
      \/ /\ Current(q.clock, f)
         /\ ops_answer' = [ops_answer EXCEPT ![e] = a]
         /\ ops_request' = [ops_request EXCEPT ![e] = NoOpsRequest]
  BY DEF ReadFile
<1>3. CASE Answers503(e)
  <2>. DEFINE b == [status |-> 503]
  <2>1. b.status = 503
    OBVIOUS
  <2>2. /\ ops_answer' = [ops_answer EXCEPT ![e] = b]
        /\ ops_request' = [ops_request EXCEPT ![e] = NoOpsRequest]
    BY <1>3 DEF Answers503
  <2>. HIDE DEF b
  <2>3. EndsWith(e, b)
    BY <1>1, <2>1, <2>2 DEF EndsWith
  <2>. QED
    BY <2>3, AnswerKeepsDiscovery
<1>4. CASE /\ Current(q.clock, f)
           /\ ops_answer' = [ops_answer EXCEPT ![e] = a]
           /\ ops_request' = [ops_request EXCEPT ![e] = NoOpsRequest]
  <2>1. a.status \in {200, 307} /\ a.lease = f.lease /\ a.started = q.started /\ a.at = ops_now
    BY DEF StatusOf
  <2>2. f.file = "snapshot" /\ LeaseRuns(q.clock, f)
    BY <1>4 DEF Current
  <2>3. WrittenUnderLease(f)
    BY <2>2 DEF DiscoveryInv
  <2>4. q.started \in 0 .. ops_now /\ q.clock = q.started + ClockOf[e] /\ ops_now \in Nat
    BY <1>1 DEF DiscoveryInv, RequestUnderWay, LeaseInv
  <2>. HIDE DEF q, f, a
  <2>5. PICK t \in 0 .. ops_now : /\ f.lease.from <= t
                                  /\ f.updated = t + ClockOf[f.lease.who]
                                  /\ f.remaining = f.lease.until - t
    BY <2>3 DEF WrittenUnderLease
  <2>6. f.lease.who \in OpsCollectors /\ Granted(f.lease)
        /\ f.lease.until \in Nat /\ f.lease.from \in Nat
    BY <2>3 DEF WrittenUnderLease, Granted
  <2>7. q.started \in Nat /\ t \in Nat /\ t <= ops_now
    BY <2>4, <2>5
  <2>8. LeaseRuns(q.started + ClockOf[e], f)
    BY <2>2, <2>4
  <2>9. f.lease.until > q.started
    BY <2>5, <2>6, <2>7, <2>8, CurrentLeaseRan
  <2>10. f.lease.from <= ops_now
    BY <2>4, <2>5, <2>6, <2>7
  <2>11. AnsweredUnderLease(a)
    BY <2>1, <2>4, <2>6, <2>7, <2>9, <2>10 DEF AnsweredUnderLease
  <2>12. EndsWith(e, a)
    BY <1>1, <1>4, <2>1, <2>11 DEF EndsWith
  <2>. QED
    BY <2>12, AnswerKeepsDiscovery
<1>. QED
  BY <1>2, <1>3, <1>4

\* Time passes.
LEMMA ElapseKeepsDiscovery ==
    ASSUME DiscoveryInv, OpsElapse
    PROVE  DiscoveryInv'
<1>1. ops_now' = ops_now + 1 /\ UNCHANGED <<lease, ops_file, ops_request, ops_answer>>
  BY DEF OpsElapse
<1>2. ops_now \in Nat /\ LeaseLength \in Nat
  BY OpsAssumption DEF DiscoveryInv, LeaseInv
<1>3. LeaseInv'
  BY <1>1, <1>2 DEF DiscoveryInv, LeaseInv
<1>4. \A n : n \in 0 .. ops_now => n \in 0 .. ops_now'
  BY <1>1, <1>2
<1>5. \A g : WrittenUnderLease(g) => WrittenUnderLease(g)'
  BY <1>1, <1>4 DEF WrittenUnderLease, Granted
<1>6. \A e, q : RequestUnderWay(e, q) => RequestUnderWay(e, q)'
  BY <1>1, <1>4 DEF RequestUnderWay
<1>. QED
  BY <1>1, <1>3, <1>5, <1>6 DEF DiscoveryInv, Served, AnsweredUnderLease, Granted

\* The invariant holds in every state of the discovery.
THEOREM DiscoveryInvariant == OpsSpec => []DiscoveryInv
<1>1. OpsInit => DiscoveryInv
  BY OpsAssumption
  DEF OpsInit, DiscoveryInv, LeaseInv, NoFile, NoOpsRequest, NoOpsAnswer, Served
<1>2. DiscoveryInv /\ [OpsNext]_opsVars => DiscoveryInv'
  <2>. SUFFICES ASSUME DiscoveryInv, [OpsNext]_opsVars
                PROVE  DiscoveryInv'
    OBVIOUS
  <2>1. CASE OpsNext
    BY <2>1, GrantKeepsDiscovery, FileStepKeepsDiscovery, BeginKeepsDiscovery,
       StatKeepsDiscovery, ReadKeepsDiscovery, ElapseKeepsDiscovery DEF OpsNext
  <2>2. CASE UNCHANGED opsVars
    BY <2>2 DEF opsVars, DiscoveryInv, LeaseInv, WrittenUnderLease, Granted, RequestUnderWay,
                Served, AnsweredUnderLease
  <2>. QED
    BY <2>1, <2>2
<1>. QED
  BY <1>1, <1>2, PTL DEF OpsSpec

\* An edge sends a request only to a collector whose lease was in force between
\* the request and the answer, however the clocks of the two differ within the
\* safety margin, and whenever the file is replaced or the lease passes on
\* (main.rs:13493-13598).
THEOREM DiscoveryCorrect == OpsSpec => []DiscoverySound
<1>1. DiscoveryInv => DiscoverySound
  <2>. SUFFICES ASSUME DiscoveryInv
                PROVE  DiscoverySound
    OBVIOUS
  <2>1. ASSUME NEW e \in OpsEdges, Served(e)
        PROVE  LET a == ops_answer[e]
               IN  /\ a.lease.until > a.started /\ a.lease.from <= a.at
                   /\ a.started >= lease.from => a.lease.who = lease.who
    <3>. DEFINE a == ops_answer[e]
    <3>1. AnsweredUnderLease(a) /\ lease.from \in Nat
      BY <2>1 DEF DiscoveryInv, LeaseInv
    <3>. HIDE DEF a
    <3>2. /\ a.lease.until > a.started /\ a.lease.from <= a.at
          /\ a.started >= lease.from => a.lease.who = lease.who
      BY <3>1 DEF AnsweredUnderLease, Granted
    <3>. QED
      BY <3>2 DEF a
  <2>. QED
    BY <2>1 DEF DiscoverySound, SentToTheHolder, DiscoveryInv, LeaseInv
<1>. QED
  BY <1>1, DiscoveryInvariant, PTL

(***************************************************************************)
(* Requests for replicas.                                                  *)
(***************************************************************************)
Reading == 0 .. DemandTimeLimit
Demanding == [pc : {"clocked", "requesting"}, stream : DemandStreams, now : Reading]

\* A request the tracker let through: the reading kept for its stream is no
\* older, because the tracker only ever replaces it by a later one.
KeptUnder(x) == /\ x[1] \in DOMAIN last_request
                /\ x[2] \in Int /\ x[2] <= last_request[x[1]]

\* The inductive invariant of the tracker.
TrackerTypes ==
    /\ DOMAIN last_request \subseteq DemandStreams
    /\ \A s \in DOMAIN last_request : last_request[s] \in Reading
    /\ locally_fresh \subseteq DemandStreams
    /\ demand \in [DemandThreads -> Demanding \cup {NoDemand}]
    /\ demand_now \in Reading

TrackerInv ==
    /\ TrackerTypes
    /\ \A x \in asked : KeptUnder(x)
    /\ RequestsSpaced

\* The step that lets a request through or drops it.
LEMMA ShouldRequestKeepsTracker ==
    ASSUME TrackerInv, NEW t \in DemandThreads, ShouldRequest(t)
    PROVE  TrackerInv'
<1>. DEFINE s == demand[t].stream
            n == demand[t].now
            z == <<s, n, Cardinality(asked)>>
<1>1. /\ demand[t].pc = "clocked"
      /\ UNCHANGED <<locally_fresh, demand_now>>
      /\ \/ /\ Due(s, n)
            /\ last_request' = With(last_request, s, n)
            /\ asked' = asked \cup {z}
            /\ demand' = [demand EXCEPT ![t].pc = "requesting"]
         \/ /\ demand' = [demand EXCEPT ![t] = NoDemand]
            /\ UNCHANGED <<last_request, asked>>
  BY DEF ShouldRequest
<1>2. demand[t] \in Demanding
  BY <1>1 DEF TrackerInv, TrackerTypes, NoDemand
<1>3. s \in DemandStreams /\ n \in Reading /\ n \in Int
  BY <1>2, RequestAssumption DEF Demanding, Reading
<1>4. z[1] = s /\ z[2] = n
  OBVIOUS
<1>5. CASE /\ Due(s, n)
           /\ last_request' = With(last_request, s, n)
           /\ asked' = asked \cup {z}
           /\ demand' = [demand EXCEPT ![t].pc = "requesting"]
  <2>1. demand' \in [DemandThreads -> Demanding \cup {NoDemand}]
    BY <1>2, <1>5 DEF TrackerInv, TrackerTypes, Demanding
  <2>. HIDE DEF s, n, z
  <2>2. /\ DOMAIN last_request' = DOMAIN last_request \cup {s}
        /\ last_request'[s] = n
        /\ \A r \in DOMAIN last_request : r # s => last_request'[r] = last_request[r]
    BY <1>5 DEF With
  <2>3. s \in DOMAIN last_request => last_request[s] \in Int /\ n - last_request[s] >= RequestMinInterval
    BY <1>3, <1>5, RequestAssumption DEF Due, TrackerInv, TrackerTypes, Reading
  <2>4. RequestMinInterval \in Nat
    BY RequestAssumption
  <2>5. TrackerTypes'
    BY <1>1, <1>3, <2>1, <2>2 DEF TrackerInv, TrackerTypes, Reading, Demanding
  <2>6. \A x \in asked : x[1] = s => n - x[2] >= RequestMinInterval /\ x[2] <= n
    <3>. TAKE x \in asked
    <3>1. KeptUnder(x)
      BY DEF TrackerInv
    <3>. QED
      BY <1>3, <2>3, <2>4, <3>1 DEF KeptUnder
  <2>7. \A x \in asked' : KeptUnder(x)'
    BY <1>3, <1>4, <1>5, <2>2, <2>6 DEF KeptUnder, TrackerInv
  <2>8. RequestsSpaced'
    <3>. SUFFICES ASSUME NEW x \in asked', NEW y \in asked', x[1] = y[1], x # y
                  PROVE  x[2] - y[2] >= RequestMinInterval \/ y[2] - x[2] >= RequestMinInterval
      BY DEF RequestsSpaced
    <3>1. CASE x \in asked /\ y \in asked
      BY <3>1 DEF TrackerInv, RequestsSpaced
    <3>2. CASE x \in asked /\ y = z
      BY <1>4, <2>6, <3>2
    <3>3. CASE x = z /\ y \in asked
      BY <1>4, <2>6, <3>3
    <3>. QED
      BY <1>5, <3>1, <3>2, <3>3
  <2>. QED
    BY <2>5, <2>7, <2>8 DEF TrackerInv
<1>6. CASE /\ demand' = [demand EXCEPT ![t] = NoDemand]
           /\ UNCHANGED <<last_request, asked>>
  BY <1>1, <1>6 DEF TrackerInv, TrackerTypes, KeptUnder, RequestsSpaced, Demanding
<1>. QED
  BY <1>1, <1>5, <1>6

\* The other steps leave the tracker alone.
LEMMA OthersKeepTracker ==
    ASSUME TrackerInv,
           \/ \E t \in DemandThreads :
                 \/ \E s \in DemandStreams : ReadMisses(t, s) \/ PlanNamesNode(t, s)
                 \/ ReplicaRequested(t)
           \/ \E s \in DemandStreams : FreshnessChanges(s)
           \/ ClockMoves
    PROVE  TrackerInv'
<1>1. UNCHANGED <<last_request, asked>>
  BY DEF ReadMisses, PlanNamesNode, ReplicaRequested, FreshnessChanges, ClockMoves
<1>2. demand_now' \in Reading /\ locally_fresh' \subseteq DemandStreams
  BY DEF ReadMisses, PlanNamesNode, ReplicaRequested, FreshnessChanges, ClockMoves,
         TrackerInv, TrackerTypes, Reading
<1>3. demand' \in [DemandThreads -> Demanding \cup {NoDemand}]
  <2>1. ASSUME NEW t \in DemandThreads, NEW s \in DemandStreams,
               ReadMisses(t, s) \/ PlanNamesNode(t, s)
        PROVE  demand' \in [DemandThreads -> Demanding \cup {NoDemand}]
    <3>1. demand' = [demand EXCEPT ![t] = [pc |-> "clocked", stream |-> s, now |-> demand_now]]
      BY <2>1 DEF ReadMisses, PlanNamesNode
    <3>2. [pc |-> "clocked", stream |-> s, now |-> demand_now] \in Demanding
      BY DEF TrackerInv, TrackerTypes, Demanding
    <3>. QED
      BY <3>1, <3>2 DEF TrackerInv, TrackerTypes
  <2>2. ASSUME NEW t \in DemandThreads, ReplicaRequested(t)
        PROVE  demand' \in [DemandThreads -> Demanding \cup {NoDemand}]
    BY <2>2 DEF ReplicaRequested, TrackerInv, TrackerTypes
  <2>3. CASE UNCHANGED demand
    BY <2>3 DEF TrackerInv, TrackerTypes
  <2>. QED
    BY <2>1, <2>2, <2>3 DEF FreshnessChanges, ClockMoves
<1>. QED
  BY <1>1, <1>2, <1>3 DEF TrackerInv, TrackerTypes, KeptUnder, RequestsSpaced

\* The invariant holds in every state of the tracker.
THEOREM TrackerInvariant == DemandSpec => []TrackerInv
<1>1. DemandInit => TrackerInv
  BY RequestAssumption
  DEF DemandInit, TrackerInv, TrackerTypes, Reading, EmptyMap, RequestsSpaced
<1>2. TrackerInv /\ [DemandNext]_demandVars => TrackerInv'
  <2>. SUFFICES ASSUME TrackerInv, [DemandNext]_demandVars
                PROVE  TrackerInv'
    OBVIOUS
  <2>1. CASE DemandNext
    BY <2>1, ShouldRequestKeepsTracker, OthersKeepTracker DEF DemandNext
  <2>2. CASE UNCHANGED demandVars
    BY <2>2 DEF demandVars, TrackerInv, TrackerTypes, KeptUnder, RequestsSpaced
  <2>. QED
    BY <2>1, <2>2
<1>. QED
  BY <1>1, <1>2, PTL DEF DemandSpec

\* The requests for a stream that the tracker lets through are an interval
\* apart, however many threads ask, in whatever order they reach the entry
\* after they read the clock, and also when the clock is set back
\* (main.rs:7859-7883).
THEOREM RequestsCorrect == DemandSpec => []RequestsSound
<1>1. TrackerInv => RequestsSound
  BY DEF TrackerInv, TrackerTypes, RequestsSound, DemandTypeOK, Reading, Demanding, NoDemand
<1>. QED
  BY <1>1, TrackerInvariant, PTL

-----------------------------------------------------------------------------
(***************************************************************************)
(* The synchronized-stem subscription.                                     *)
(***************************************************************************)
\* A subscription has passed every check.
Granting(sub) == /\ sub.claims \in Claims /\ sub.config \in StemConfigs
                 /\ Refusal(sub.config, sub.claims) = "none"

\* A symbol that the subscription could open when it did.
OpenedUnder(sub, o) ==
    /\ o.source \in DOMAIN sub.config.channels /\ o.source \in sub.claims.sources
    /\ o.at < sub.claims.expires /\ o.size <= sub.claims.max_datagram

StemInv ==
    /\ \A sub \in subscription : Granting(sub)
    /\ \A a, b \in subscription : a = b
    /\ \A o \in opened : \E sub \in subscription : OpenedUnder(sub, o)

\* A part of the configured sources has no more channels than all of them.
LEMMA PartOfChannels ==
    ASSUME NEW g \in StemConfigs, NEW used \in SUBSET DOMAIN g.channels
    PROVE  /\ SumFunctionOnSet(g.channels, used) <= AdmittedChannels(g)
           /\ SumFunctionOnSet(g.channels, used) \in Nat /\ AdmittedChannels(g) \in Nat
<1>1. PICK f, S : f = g.channels /\ S = DOMAIN g.channels
  OBVIOUS
<1>2. IsFiniteSet(S) /\ NatOn(f, S) /\ used \in SUBSET S /\ SameOn(f, f, S \ used)
  BY <1>1, StemAssumption DEF NatOn, SameOn
<1>3. /\ SumFunctionOnSet(f, S \ used) = SumFunctionOnSet(f, S) - SumFunctionOnSet(f, used)
      /\ SumFunctionOnSet(f, S \ used) \in Nat
      /\ SumFunctionOnSet(f, used) \in Nat
      /\ SumFunctionOnSet(f, S) \in Nat
  BY <1>2, SumWithout, Zenon
<1>4. AdmittedChannels(g) = SumFunctionOnSet(f, S)
  BY <1>1 DEF AdmittedChannels, SumFunction
<1>. QED
  BY <1>1, <1>3, <1>4

\* The checks of from_verified_claims, once they have all passed.
LEMMA GrantingFacts ==
    ASSUME NEW sub, Granting(sub)
    PROVE  /\ sub.claims.operation = "Subscribe" /\ sub.claims.class = "Program"
           /\ ~(AdmittedChannels(sub.config) > sub.claims.max_channels)
<1>1. Refusal(sub.config, sub.claims) = "none"
  BY DEF Granting
<1>2. /\ StemOperation(sub.claims) = "Subscribe" /\ StemClass(sub.claims) = "Program"
      /\ ~(AdmittedChannels(sub.config) > sub.claims.max_channels)
  BY <1>1 DEF Refusal
<1>. QED
  BY <1>2 DEF StemOperation, StemClass

\* What a subscription is and what was opened under it
\* (src/src/synchronized_stem_subscribe.rs), in every reachable state.
THEOREM StemInvariant == StemSpec => []StemInv
<1>1. StemInit => StemInv
  BY DEF StemInit, StemInv
<1>2. ASSUME StemInv, [StemNext]_stemVars
      PROVE  StemInv'
  <2>1. ASSUME NEW config \in StemConfigs \cup {InvalidConfig}, NEW c \in Claims, FromAuthorized(config, c)
        PROVE  StemInv'
    <3>1. subscription = {} /\ opened' = opened
      BY <2>1 DEF FromAuthorized
    <3>2. opened = {}
      BY <1>2, <3>1 DEF StemInv
    <3>3. CASE Refusal(config, c) # "none"
      <4>1. subscription' = {}
        BY <2>1, <3>3 DEF FromAuthorized
      <4>. QED
        BY <3>1, <3>2, <4>1 DEF StemInv
    <3>4. CASE Refusal(config, c) = "none"
      <4>1. config # InvalidConfig
        BY <3>4 DEF Refusal
      <4>2. PICK sub : sub = [claims |-> c, config |-> config]
        OBVIOUS
      <4>3. subscription' = {sub}
        BY <2>1, <3>4, <4>2 DEF FromAuthorized
      <4>4. sub.claims = c /\ sub.config = config
        BY <4>2
      <4>5. Granting(sub)
        BY <2>1, <3>4, <4>1, <4>4 DEF Granting
      <4>6. \A x \in subscription' : Granting(x)
        BY <4>3, <4>5
      <4>7. (\A x \in subscription : Granting(x))'
        BY <4>6 DEF Granting
      <4>. QED
        BY <3>1, <3>2, <4>3, <4>7 DEF StemInv
    <3>. QED
      BY <3>3, <3>4
  <2>2. ASSUME NEW s \in StemSources, NEW size \in StemDatagramSizes, NEW ok \in BOOLEAN,
               OpenDatagram(s, size, ok)
        PROVE  StemInv'
    <3>1. PICK sub \in subscription : /\ stem_now < sub.claims.expires
                                      /\ size <= sub.claims.max_datagram
                                      /\ OpensFor(sub, s, ok)
      BY <2>2 DEF OpenDatagram
    <3>2. PICK o : o = [source |-> s, size |-> size, at |-> stem_now]
      OBVIOUS
    <3>3. o.source = s /\ o.size = size /\ o.at = stem_now
      BY <3>2
    <3>4. OpenedUnder(sub, o)
      BY <3>1, <3>3 DEF OpenedUnder, OpensFor
    <3>5. opened' = opened \cup {o} /\ subscription' = subscription
      BY <2>2, <3>2 DEF OpenDatagram
    <3>. QED
      BY <1>2, <3>1, <3>4, <3>5 DEF StemInv, Granting, OpenedUnder
  <2>3. CASE StemElapse
    BY <1>2, <2>3 DEF StemElapse, StemInv, Granting, OpenedUnder
  <2>4. CASE UNCHANGED stemVars
    BY <1>2, <2>4 DEF stemVars, StemInv, Granting, OpenedUnder
  <2>. QED
    BY <1>2, <2>1, <2>2, <2>3, <2>4 DEF StemNext
<1>. QED
  BY <1>1, <1>2, PTL DEF StemSpec

\* For any capabilities, configurations and datagrams: what is opened stays within
\* the grant, the channels of all its sources together included.
THEOREM StemCorrect == StemSpec => []OpenedWithinGrant
<1>1. ASSUME StemInv
      PROVE  OpenedWithinGrant
  <2>1. SUFFICES ASSUME opened # {}
                 PROVE  \E sub \in subscription :
                            LET c == sub.claims
                                used == {o.source : o \in opened}
                            IN  /\ c.operation = "Subscribe" /\ c.class = "Program"
                                /\ used \subseteq c.sources
                                /\ SumFunctionOnSet(sub.config.channels, used) <= c.max_channels
                                /\ \A o \in opened : o.at < c.expires /\ o.size <= c.max_datagram
    BY DEF OpenedWithinGrant
  <2>2. PICK sub \in subscription : \A o \in opened : OpenedUnder(sub, o)
    BY <1>1, <2>1 DEF StemInv
  <2>3. Granting(sub) /\ sub.config \in StemConfigs /\ sub.claims \in Claims
    BY <1>1 DEF StemInv, Granting
  <2>4. PICK used : used = {o.source : o \in opened}
    OBVIOUS
  <2>5. used \in SUBSET DOMAIN sub.config.channels /\ used \subseteq sub.claims.sources
    BY <2>2, <2>4 DEF OpenedUnder
  <2>6. PICK g : g = sub.config
    OBVIOUS
  <2>7. /\ SumFunctionOnSet(g.channels, used) <= AdmittedChannels(g)
        /\ SumFunctionOnSet(g.channels, used) \in Nat /\ AdmittedChannels(g) \in Nat
    BY <2>3, <2>5, <2>6, PartOfChannels
  <2>8. /\ sub.claims.operation = "Subscribe" /\ sub.claims.class = "Program"
        /\ ~(AdmittedChannels(g) > sub.claims.max_channels)
    BY <2>3, <2>6, GrantingFacts
  <2>9. sub.claims.max_channels \in Nat
    BY <2>3, StemAssumption
  <2>10. SumFunctionOnSet(sub.config.channels, used) <= sub.claims.max_channels
    BY <2>6, <2>7, <2>8, <2>9
  <2>11. \A o \in opened : o.at < sub.claims.expires /\ o.size <= sub.claims.max_datagram
    BY <2>2 DEF OpenedUnder
  <2>. QED
    BY <2>4, <2>5, <2>8, <2>10, <2>11
<1>. QED
  BY <1>1, StemInvariant, PTL

-----------------------------------------------------------------------------
(***************************************************************************)
(* The latest-wins telemetry queue.                                        *)
(***************************************************************************)
Block == [number : 1 .. EnvelopeLimit, length : EnvelopeLengths]

LengthsOf(q) == [i \in DOMAIN q |-> q[i].length]

\* Lengths are numbers, and so is what they add up to.
LEMMA BytesType ==
    ASSUME NEW q \in Seq(Block)
    PROVE  /\ BytesOf(q) = SumFunctionOnSet(LengthsOf(q), 1 .. Len(q))
           /\ BytesOf(q) \in Nat
           /\ NatOn(LengthsOf(q), 1 .. Len(q))
           /\ \A i \in 1 .. Len(q) : LengthsOf(q)[i] = q[i].length
<1>1. DOMAIN q = 1 .. Len(q) /\ Len(q) \in Nat
  OBVIOUS
<1>2. \A i \in 1 .. Len(q) : q[i] \in Block
  OBVIOUS
<1>3. \A i \in 1 .. Len(q) : q[i].length \in Nat
  BY <1>2, TelemetryQueueAssumption DEF Block
<1>4. \A i \in 1 .. Len(q) : LengthsOf(q)[i] = q[i].length
  BY <1>1 DEF LengthsOf
<1>5. NatOn(LengthsOf(q), 1 .. Len(q))
  BY <1>3, <1>4 DEF NatOn
<1>6. BytesOf(q) = SumFunctionOnSet(LengthsOf(q), 1 .. Len(q))
  BY <1>1 DEF BytesOf, SumFunction, LengthsOf
<1>7. PICK f, S : f = LengthsOf(q) /\ S = 1 .. Len(q)
  OBVIOUS
<1>8. IsFiniteSet(S) /\ \A i \in S : f[i] \in Nat
  BY <1>1, <1>5, <1>7, FS_Interval DEF NatOn
<1>9. SumFunctionOnSet(f, S) \in Nat
  BY <1>8, SumRemove
<1>. QED
  BY <1>4, <1>5, <1>6, <1>7, <1>9

\* One block more at the end.
LEMMA BytesAppend ==
    ASSUME NEW q \in Seq(Block), NEW b \in Block
    PROVE  BytesOf(Append(q, b)) = BytesOf(q) + b.length /\ b.length \in Nat
<1>0. b.length \in Nat
  BY TelemetryQueueAssumption DEF Block
<1>1. PICK l, n : l = Append(q, b) /\ n = Len(q)
  OBVIOUS
<1>2. /\ l \in Seq(Block) /\ Len(l) = n + 1 /\ n \in Nat /\ l[n + 1] = b
      /\ \A i \in 1 .. n : l[i] = q[i]
  BY <1>1
<1>3. PICK f, g : f = LengthsOf(q) /\ g = LengthsOf(l)
  OBVIOUS
<1>4. /\ NatOn(f, 1 .. n) /\ BytesOf(q) = SumFunctionOnSet(f, 1 .. n)
      /\ \A i \in 1 .. n : f[i] = q[i].length
  BY <1>1, <1>3, BytesType
<1>5. /\ BytesOf(l) = SumFunctionOnSet(g, 1 .. (n + 1))
      /\ \A i \in 1 .. (n + 1) : g[i] = l[i].length
  BY <1>2, <1>3, BytesType
<1>6. g[n + 1] = b.length /\ Lengthened(g, f, n)
  BY <1>0, <1>2, <1>4, <1>5 DEF Lengthened, SameOn
<1>7. SumFunctionOnSet(g, 1 .. (n + 1)) = SumFunctionOnSet(f, 1 .. n) + g[n + 1]
  BY <1>6, SumAppend
<1>. QED
  BY <1>0, <1>1, <1>4, <1>5, <1>6, <1>7

Split(q, m, p, r) == p = SubSeq(q, 1, m) /\ r = SubSeq(q, m + 1, Len(q))

\* The queue without its first m blocks.
LEMMA BytesDrop ==
    ASSUME NEW q \in Seq(Block), NEW m \in 0 .. Len(q), NEW p, NEW r, Split(q, m, p, r)
    PROVE  /\ r \in Seq(Block) /\ Len(r) = Len(q) - m
           /\ \A i \in 1 .. Len(r) : r[i] = q[i + m] /\ i + m \in 1 .. Len(q)
           /\ BytesOf(r) = BytesOf(q) - BytesOf(p)
           /\ BytesOf(r) \in Nat /\ BytesOf(p) \in Nat /\ BytesOf(q) \in Nat
<1>1. /\ r \in Seq(Block) /\ Len(r) = Len(q) - m /\ Len(q) \in Nat
      /\ \A i \in 1 .. (Len(q) - m) : r[i] = q[i + m] /\ i + m \in 1 .. Len(q)
  BY DEF Split
<1>2. /\ p \in Seq(Block) /\ Len(p) = m
      /\ \A i \in 1 .. m : p[i] = q[i]
  BY DEF Split
<1>3. PICK n, f, g, h : /\ n = Len(q) /\ f = LengthsOf(q) /\ g = LengthsOf(r) /\ h = LengthsOf(p)
  OBVIOUS
<1>4. /\ BytesOf(q) = SumFunctionOnSet(f, 1 .. n) /\ BytesOf(q) \in Nat /\ NatOn(f, 1 .. n)
      /\ \A i \in 1 .. n : f[i] = q[i].length
  BY <1>3, BytesType
<1>5. /\ BytesOf(r) = SumFunctionOnSet(g, 1 .. (n - m)) /\ BytesOf(r) \in Nat
      /\ \A i \in 1 .. (n - m) : g[i] = r[i].length
  BY <1>1, <1>3, BytesType
<1>6. /\ BytesOf(p) = SumFunctionOnSet(h, 1 .. m) /\ BytesOf(p) \in Nat
      /\ \A i \in 1 .. m : h[i] = p[i].length
  BY <1>2, <1>3, BytesType
<1>7. n \in Nat /\ m \in 0 .. n
  BY <1>1, <1>3
<1>8. Shifted(g, f, n, m)
  BY <1>1, <1>3, <1>4, <1>5 DEF Shifted
<1>9. SumFunctionOnSet(g, 1 .. (n - m)) = SumFunctionOnSet(f, 1 .. n) - SumFunctionOnSet(f, 1 .. m)
  BY <1>4, <1>7, <1>8, SumShift
<1>10. SumFunctionOnSet(h, 1 .. m) = SumFunctionOnSet(f, 1 .. m)
  <2>1. \A i \in 1 .. m : h[i] = f[i]
    BY <1>2, <1>4, <1>6, <1>7
  <2>2. IsFiniteSet(1 .. m)
    BY <1>7, FS_Interval
  <2>. QED
    BY <2>1, <2>2, SumSame
<1>. QED
  BY <1>1, <1>4, <1>5, <1>6, <1>9, <1>10

\* The head of the queue.
LEMMA BytesTail ==
    ASSUME NEW q \in Seq(Block), q # <<>>
    PROVE  /\ Head(q) \in Block /\ Head(q) = q[1] /\ Tail(q) \in Seq(Block) /\ Len(Tail(q)) = Len(q) - 1
           /\ \A i \in 1 .. Len(Tail(q)) : Tail(q)[i] = q[i + 1] /\ i + 1 \in 1 .. Len(q)
           /\ BytesOf(Tail(q)) = BytesOf(q) - Head(q).length
           /\ BytesOf(Tail(q)) \in Nat /\ BytesOf(q) \in Nat
<1>1. /\ Head(q) \in Block /\ Head(q) = q[1] /\ Len(q) \in Nat /\ 1 \in 0 .. Len(q)
      /\ Tail(q) \in Seq(Block) /\ Len(Tail(q)) = Len(q) - 1
  OBVIOUS
<1>2. PICK p, r : p = SubSeq(q, 1, 1) /\ r = SubSeq(q, 2, Len(q))
  OBVIOUS
<1>3. r = Tail(q)
  BY <1>1, <1>2
<1>4. /\ Len(r) = Len(q) - 1
      /\ \A i \in 1 .. Len(r) : r[i] = q[i + 1] /\ i + 1 \in 1 .. Len(q)
      /\ BytesOf(r) = BytesOf(q) - BytesOf(p)
      /\ BytesOf(r) \in Nat /\ BytesOf(p) \in Nat /\ BytesOf(q) \in Nat
  <2>1. PICK m : m = 1 /\ m + 1 = 2
    OBVIOUS
  <2>2. m \in 0 .. Len(q) /\ Split(q, m, p, r)
    BY <1>1, <1>2, <2>1 DEF Split
  <2>3. /\ Len(r) = Len(q) - m
        /\ \A i \in 1 .. Len(r) : r[i] = q[i + m] /\ i + m \in 1 .. Len(q)
        /\ BytesOf(r) = BytesOf(q) - BytesOf(p)
        /\ BytesOf(r) \in Nat /\ BytesOf(p) \in Nat /\ BytesOf(q) \in Nat
    BY <2>2, BytesDrop
  <2>. QED
    BY <2>1, <2>3
<1>5. BytesOf(p) = Head(q).length
  <2>1. /\ <<>> \in Seq(Block) /\ p = Append(<<>>, Head(q))
    <3>1. p \in Seq(Block) /\ Len(p) = 1 /\ p[1] = Head(q)
      BY <1>1, <1>2
    <3>2. PICK l : l = Append(<<>>, Head(q))
      OBVIOUS
    <3>3. l \in Seq(Block) /\ Len(l) = 1 /\ l[1] = Head(q)
      BY <1>1, <3>2
    <3>4. p = [i \in 1 .. 1 |-> p[i]] /\ l = [i \in 1 .. 1 |-> l[i]]
      BY <3>1, <3>3
    <3>5. \A i \in 1 .. 1 : p[i] = l[i]
      BY <3>1, <3>3
    <3>6. p = l
      BY <3>4, <3>5, Zenon
    <3>. QED
      BY <3>2, <3>6
  <2>2. BytesOf(p) = BytesOf(<<>>) + Head(q).length /\ Head(q).length \in Nat
    BY <1>1, <2>1, BytesAppend
  <2>3. BytesOf(<<>>) = 0
    <3>1. BytesOf(<<>>) = SumFunctionOnSet(LengthsOf(<<>>), 1 .. Len(<<>>))
      BY <2>1, BytesType
    <3>2. 1 .. Len(<<>>) = {} /\ IsFiniteSet({})
      BY FS_EmptySet
    <3>. QED
      BY <3>1, <3>2, SumUnfolds
  <2>. QED
    BY <2>2, <2>3
<1>. QED
  BY <1>1, <1>3, <1>4, <1>5

\* Blocks are in the order of their numbers, newer than all that was discarded,
\* and numbered so far.
Newest(q, gone, n) ==
    /\ \A i \in 1 .. Len(q) : /\ q[i].number <= n
                              /\ \A d \in gone : d < q[i].number
    /\ \A i, j \in 1 .. Len(q) : i < j => q[i].number < q[j].number
    /\ gone \subseteq 1 .. n

\* The queue within its limits, its bytes counted.
QueueFits(q, bytes) ==
    /\ q \in Seq(Block) /\ Len(q) <= MaxQueueBlocks
    /\ bytes = BytesOf(q) /\ bytes <= MaxQueueBytes

Empty == [pc |-> "empty"]

Sending == {s \in [pc : {"sending"}, number : Nat, index : Nat, source : Int, total : Int] :
               s.source <= s.total}

\* No wake-up is lost: a sender that found the queue empty has a permit, or gets
\* one, when it is empty no longer.
Woken ==
    queue.blocks # <<>> =>
        /\ sender = Empty => permit \/ publisher = "unlocked"
        /\ sender = Waiting => publisher = "unlocked"

QueueInv ==
    /\ QueueFits(queue.blocks, queue.bytes)
    /\ submitted \in 0 .. EnvelopeLimit
    /\ Newest(queue.blocks, discarded, submitted)
    /\ permit \in BOOLEAN /\ publisher \in {"idle", "unlocked"}
    /\ sender \in {Trying, Waiting, Empty} \/ sender \in Sending
    /\ Woken
    /\ unsent = {}

\* The new block fits behind the first m, or all of them go.
FitsBehind(q, m, length) ==
    /\ m \in 0 .. Len(q)
    /\ \/ m = Len(q)
       \/ /\ Len(q) - m < MaxQueueBlocks
          /\ BytesOf(SubSeq(q, m + 1, Len(q))) + length <= MaxQueueBytes

\* The loop of push stops at the first block from which on the new one fits.
LEMMA ReplacedFits ==
    ASSUME NEW q \in Seq(Block), NEW length \in Nat, length <= MaxEnvelopeBytes
    PROVE  FitsBehind(q, Replaced(q, length), length)
<1>. DEFINE S == {n \in 0 .. Len(q) :
                     n = Len(q) \/ /\ Len(q) - n < MaxQueueBlocks
                                   /\ BytesOf(SubSeq(q, n + 1, Len(q))) + length <= MaxQueueBytes}
<1>1. Len(q) \in S /\ S \in SUBSET Nat
  OBVIOUS
<1>2. \E x \in S : \A y \in S : x <= y
  <2>. HIDE DEF S
  <2>. QED
    BY <1>1, LeastElement
<1>3. Replaced(q, length) = Min(S)
  BY DEF Replaced
<1>4. Min(S) \in S
  <2>. HIDE DEF S
  <2>. QED
    BY <1>2 DEF Min
<1>5. Replaced(q, length) \in S
  BY <1>3, <1>4, Zenon
<1>. QED
  BY <1>5, Zenon DEF FitsBehind

\* What push leaves in the queue.
LEMMA PushFits ==
    ASSUME NEW q, NEW bytes, QueueFits(q, bytes), NEW gone, NEW n \in Nat, n < EnvelopeLimit,
           Newest(q, gone, n), NEW length \in EnvelopeLengths, length <= MaxEnvelopeBytes,
           NEW m, FitsBehind(q, m, length), NEW p, NEW r, Split(q, m, p, r),
           NEW b \in Block, b.number = n + 1, b.length = length
    PROVE  /\ QueueFits(Append(r, b), bytes - BytesOf(p) + length)
           /\ Newest(Append(r, b), gone \cup {q[i].number : i \in 1 .. m}, n + 1)
<1>1. /\ q \in Seq(Block) /\ Len(q) <= MaxQueueBlocks /\ bytes = BytesOf(q) /\ bytes <= MaxQueueBytes
      /\ Len(q) \in Nat /\ length \in Nat
      /\ MaxQueueBlocks \in Nat \ {0} /\ MaxQueueBytes \in Nat /\ MaxEnvelopeBytes \in Nat
      /\ MaxEnvelopeBytes <= MaxQueueBytes /\ EnvelopeLimit \in Nat
  BY TelemetryQueueAssumption DEF QueueFits
<1>2. /\ m \in 0 .. Len(q)
      /\ \/ m = Len(q)
         \/ /\ Len(q) - m < MaxQueueBlocks
            /\ BytesOf(SubSeq(q, m + 1, Len(q))) + length <= MaxQueueBytes
  BY DEF FitsBehind
<1>3. /\ r \in Seq(Block) /\ Len(r) = Len(q) - m
      /\ \A i \in 1 .. Len(r) : r[i] = q[i + m] /\ i + m \in 1 .. Len(q)
      /\ BytesOf(r) = BytesOf(q) - BytesOf(p)
      /\ BytesOf(r) \in Nat /\ BytesOf(p) \in Nat /\ BytesOf(q) \in Nat
  <2>1. q \in Seq(Block) /\ m \in 0 .. Len(q) /\ Split(q, m, p, r)
    BY <1>1, <1>2
  <2>. QED
    BY <2>1, BytesDrop
<1>4. /\ Len(r) + 1 <= MaxQueueBlocks /\ BytesOf(r) + length <= MaxQueueBytes
  <2>1. CASE m = Len(q)
    <3>1. Len(r) = 0 /\ r = <<>>
      BY <1>1, <1>3, <2>1
    <3>2. BytesOf(r) = 0
      <4>1. BytesOf(r) = SumFunctionOnSet(LengthsOf(r), 1 .. Len(r))
        BY <1>3, BytesType
      <4>2. 1 .. Len(r) = {} /\ IsFiniteSet({})
        BY <3>1, FS_EmptySet
      <4>. QED
        BY <4>1, <4>2, SumUnfolds
    <3>. QED
      BY <1>1, <3>1, <3>2
  <2>2. CASE m # Len(q)
    <3>1. r = SubSeq(q, m + 1, Len(q))
      BY DEF Split
    <3>2. Len(q) - m < MaxQueueBlocks /\ BytesOf(r) + length <= MaxQueueBytes
      BY <1>2, <2>2, <3>1, Zenon
    <3>. QED
      BY <1>1, <1>2, <1>3, <3>2
  <2>. QED
    BY <2>1, <2>2
<1>5. b \in Block /\ b.number = n + 1 /\ b.length = length
  OBVIOUS
<1>6. PICK l : l = Append(r, b)
  OBVIOUS
<1>7. /\ l \in Seq(Block) /\ Len(l) = Len(r) + 1 /\ l[Len(r) + 1] = b /\ Len(r) \in Nat
      /\ \A i \in 1 .. Len(r) : l[i] = r[i]
  BY <1>3, <1>5, <1>6
<1>8. BytesOf(l) = BytesOf(r) + length
  BY <1>3, <1>5, <1>6, BytesAppend
<1>9. QueueFits(l, bytes - BytesOf(p) + length)
  <2>1. bytes - BytesOf(p) + length = BytesOf(r) + length
    BY <1>1, <1>3
  <2>. QED
    BY <1>4, <1>7, <1>8, <2>1 DEF QueueFits
<1>10. \A i \in 1 .. Len(q) : q[i].number \in Nat /\ q[i].number <= n
  <2>1. \A i \in 1 .. Len(q) : q[i] \in Block
    BY <1>1
  <2>2. \A i \in 1 .. Len(q) : q[i].number \in Nat
    BY <1>1, <2>1 DEF Block
  <2>. QED
    BY <2>2 DEF Newest
<1>11. /\ gone \subseteq 1 .. n
       /\ \A i \in 1 .. Len(q) : \A d \in gone : d < q[i].number
       /\ \A i, j \in 1 .. Len(q) : i < j => q[i].number < q[j].number
  BY DEF Newest
<1>12. PICK old : old = gone \cup {q[i].number : i \in 1 .. m}
  OBVIOUS
<1>13. \A d \in old : d \in 1 .. n
  <2>1. \A k \in 1 .. Len(q) : q[k] \in Block
    BY <1>1
  <2>2. \A k \in 1 .. Len(q) : q[k].number \in 1 .. EnvelopeLimit
    BY <2>1 DEF Block
  <2>3. \A k \in 1 .. m : q[k].number \in 1 .. n
    BY <1>1, <1>2, <1>10, <2>2
  <2>. QED
    BY <1>11, <1>12, <2>3
<1>14. ASSUME NEW i \in 1 .. Len(l)
       PROVE  /\ l[i].number <= n + 1 /\ \A d \in old : d < l[i].number
              /\ i <= Len(r) => l[i] = q[i + m] /\ i + m \in 1 .. Len(q)
              /\ i > Len(r) => i = Len(r) + 1 /\ l[i].number = n + 1
  <2>2. CASE i = Len(r) + 1
    BY <1>5, <1>7, <1>13, <2>2
  <2>3. CASE i # Len(r) + 1
    <3>1. i \in 1 .. Len(r) /\ l[i] = q[i + m] /\ i + m \in 1 .. Len(q)
      BY <1>3, <1>7, <2>3
    <3>2. PICK k : k = i + m
      OBVIOUS
    <3>3. k \in 1 .. Len(q) /\ \A j \in 1 .. m : j \in 1 .. Len(q) /\ j < k
      <4>1. PICK size : size = Len(q)
        OBVIOUS
      <4>2. /\ size \in Nat /\ m \in Nat /\ m <= size /\ i \in Nat /\ i >= 1
            /\ k \in 1 .. size
        BY <1>1, <1>2, <3>1, <3>2, <4>1
      <4>3. \A j \in 1 .. m : j \in 1 .. size /\ j < k
        BY ONLY <3>2, <4>2
      <4>. QED
        BY <4>1, <4>2, <4>3
    <3>4. \A d \in old : d < q[k].number
      BY <1>11, <1>12, <3>3
    <3>5. q[k].number \in Nat /\ q[k].number <= n
      BY <1>10, <3>3
    <3>. QED
      BY <3>1, <3>2, <3>4, <3>5
  <2>. QED
    BY <2>2, <2>3
<1>15. ASSUME NEW i \in 1 .. Len(l), NEW j \in 1 .. Len(l), i < j
       PROVE  l[i].number < l[j].number
  <2>1. i \in 1 .. Len(r) /\ i <= Len(r)
    BY <1>7, <1>15
  <2>2. l[i] = q[i + m] /\ i + m \in 1 .. Len(q)
    BY <1>14, <2>1
  <2>3. CASE j > Len(r)
    <3>1. l[j].number = n + 1
      BY <1>14, <2>3
    <3>2. q[i + m].number \in Nat /\ q[i + m].number <= n
      BY <1>10, <2>2
    <3>. QED
      BY <2>2, <3>1, <3>2
  <2>4. CASE ~(j > Len(r))
    <3>1. l[j] = q[j + m] /\ j + m \in 1 .. Len(q)
      BY <1>7, <1>14, <2>4
    <3>2. i + m < j + m
      BY <1>2, <1>15
    <3>3. q[i + m].number < q[j + m].number
      BY <1>11, <2>2, <3>1, <3>2
    <3>. QED
      BY <2>2, <3>1, <3>3
  <2>. QED
    BY <2>3, <2>4
<1>16. old \subseteq 1 .. (n + 1)
  BY <1>13
<1>17. Newest(l, old, n + 1)
  BY <1>14, <1>15, <1>16 DEF Newest
<1>. QED
  BY <1>6, <1>9, <1>12, <1>17

\* The number and the length of a block.
LEMMA BlockType == ASSUME NEW b, b \in Block PROVE b.number \in Nat /\ b.length \in Nat
<1>1. b.number \in 1 .. EnvelopeLimit /\ b.length \in EnvelopeLengths
  BY DEF Block
<1>2. EnvelopeLimit \in Nat /\ EnvelopeLengths \subseteq Nat
  BY TelemetryQueueAssumption
<1>3. b.number \in Nat
  BY <1>1, <1>2
<1>. QED
  BY <1>1, <1>2, <1>3, Zenon

\* What try_pop leaves in the queue.
LEMMA PopFits ==
    ASSUME NEW q, NEW bytes, QueueFits(q, bytes), NEW gone, NEW n, Newest(q, gone, n), q # <<>>
    PROVE  /\ QueueFits(Tail(q), bytes - Head(q).length)
           /\ Newest(Tail(q), gone, n) /\ Head(q) \in Block
<1>1. /\ q \in Seq(Block) /\ Len(q) <= MaxQueueBlocks /\ bytes = BytesOf(q) /\ bytes <= MaxQueueBytes
      /\ MaxQueueBlocks \in Nat /\ MaxQueueBytes \in Nat /\ Len(q) \in Nat
  BY TelemetryQueueAssumption DEF QueueFits
<1>2. PICK t, b : t = Tail(q) /\ b = Head(q)
  OBVIOUS
<1>3. /\ b \in Block /\ t \in Seq(Block) /\ Len(t) = Len(q) - 1
      /\ \A i \in 1 .. Len(t) : t[i] = q[i + 1] /\ i + 1 \in 1 .. Len(q)
      /\ BytesOf(t) = BytesOf(q) - b.length
      /\ BytesOf(t) \in Nat /\ BytesOf(q) \in Nat
  BY <1>1, <1>2, BytesTail
<1>4. b.length \in Nat
  BY <1>3, TelemetryQueueAssumption DEF Block
<1>5. QueueFits(t, bytes - b.length)
  BY <1>1, <1>3, <1>4 DEF QueueFits
<1>6. Newest(t, gone, n)
  <2>1. \A i \in 1 .. Len(t) : t[i].number <= n /\ \A d \in gone : d < t[i].number
    BY <1>3 DEF Newest
  <2>2. ASSUME NEW i \in 1 .. Len(t), NEW j \in 1 .. Len(t), i < j
        PROVE  t[i].number < t[j].number
    <3>1. i + 1 < j + 1 /\ i + 1 \in 1 .. Len(q) /\ j + 1 \in 1 .. Len(q)
      BY <1>1, <1>3, <2>2
    <3>2. q[i + 1].number < q[j + 1].number
      BY <3>1 DEF Newest
    <3>. QED
      BY <1>3, <3>2
  <2>. QED
    BY <2>1, <2>2 DEF Newest
<1>. QED
  BY <1>2, <1>3, <1>5, <1>6

\* Every block has at least as many symbols as it has source symbols.
LEMMA SymbolsType ==
    ASSUME NEW length \in Nat
    PROVE  /\ SourceSymbols(length) \in Int
           /\ SourceSymbols(length) + RepairSymbols(length) \in Int
           /\ SourceSymbols(length) <= SourceSymbols(length) + RepairSymbols(length)
<1>1. SymbolSize \in Nat \ {0} /\ RepairPercent \in Nat
  BY TelemetryQueueAssumption
<1>2. SourceSymbols(length) \in Int
  BY <1>1 DEF SourceSymbols, CeilDiv
<1>3. PICK c : c = CeilDiv(SourceSymbols(length) * RepairPercent, 100)
  OBVIOUS
<1>4. c \in Int
  <2>1. SourceSymbols(length) * RepairPercent \in Int
    BY <1>1, <1>2
  <2>. QED
    BY <1>3, <2>1 DEF CeilDiv
<1>5. RepairSymbols(length) = Max({c, 1})
  BY <1>3 DEF RepairSymbols
<1>6. Max({c, 1}) \in Int /\ Max({c, 1}) >= 1
  <2>1. \E x \in {c, 1} : \A y \in {c, 1} : x >= y
    BY <1>4
  <2>2. Max({c, 1}) \in {c, 1} /\ \A y \in {c, 1} : Max({c, 1}) >= y
    BY <2>1 DEF Max
  <2>. QED
    BY <1>4, <2>2
<1>. QED
  BY <1>2, <1>5, <1>6

\* The parts of the invariant after a step, put together.
LEMMA QueueInvAfter ==
    ASSUME QueueFits(queue'.blocks, queue'.bytes), submitted' \in 0 .. EnvelopeLimit,
           Newest(queue'.blocks, discarded', submitted'),
           permit' \in BOOLEAN, publisher' \in {"idle", "unlocked"},
           sender' \in {Trying, Waiting, Empty} \/ sender' \in Sending,
           Woken', unsent' = {}
    PROVE  QueueInv'
<1>1. QueueFits(queue.blocks, queue.bytes)'
  BY DEF QueueFits, BytesOf, Block
<1>2. Newest(queue.blocks, discarded, submitted)'
  BY DEF Newest
<1>3. (sender \in {Trying, Waiting, Empty} \/ sender \in Sending)'
  BY DEF Trying, Waiting, Empty, Sending
<1>. QED
  BY <1>1, <1>2, <1>3, Zenon DEF QueueInv

\* The program counters of the sender tell its states apart.
LEMMA SenderStates ==
    /\ Trying.pc = "trying" /\ Waiting.pc = "waiting" /\ Empty.pc = "empty"
    /\ \A s \in Sending : /\ s.pc = "sending" /\ s.index \in Nat /\ s.source \in Int
                          /\ s.total \in Int /\ s.source <= s.total
  BY DEF Trying, Waiting, Empty, Sending

\* LatestTelemetryQueue::push.
LEMMA PushKeeps ==
    ASSUME QueueInv, NEW length \in EnvelopeLengths, PushEnvelope(length)
    PROVE  QueueInv'
<1>1. PICK q, bytes, n, m, p, r : /\ q = queue.blocks /\ bytes = queue.bytes /\ n = submitted
                                  /\ m = Replaced(q, length)
                                  /\ p = SubSeq(q, 1, m) /\ r = SubSeq(q, m + 1, Len(q))
  OBVIOUS
<1>2. PICK b : b = [number |-> n + 1, length |-> length]
  OBVIOUS
<1>3. /\ queue' = [blocks |-> Append(r, b), bytes |-> bytes - BytesOf(p) + length]
      /\ discarded' = discarded \cup {q[i].number : i \in 1 .. m}
      /\ submitted' = n + 1 /\ publisher' = "unlocked" /\ length <= MaxEnvelopeBytes
      /\ permit' = permit /\ sender' = sender /\ unsent' = unsent /\ n < EnvelopeLimit
  BY <1>1, <1>2 DEF PushEnvelope
<1>4. /\ QueueFits(q, bytes) /\ Newest(q, discarded, n) /\ n \in Nat /\ EnvelopeLimit \in Nat
      /\ length \in Nat /\ q \in Seq(Block)
  BY <1>1, TelemetryQueueAssumption DEF QueueInv, QueueFits
<1>5. FitsBehind(q, m, length)
  <2>1. FitsBehind(q, Replaced(q, length), length)
    BY <1>3, <1>4, ReplacedFits
  <2>. QED
    BY <1>1, <2>1
<1>6. Split(q, m, p, r)
  BY <1>1 DEF Split
<1>7. b \in Block /\ b.number = n + 1 /\ b.length = length
  BY <1>2, <1>3, <1>4 DEF Block
<1>8. PICK gone, old : gone = discarded /\ old = discarded \cup {q[i].number : i \in 1 .. m}
  OBVIOUS
<1>9. /\ QueueFits(Append(r, b), bytes - BytesOf(p) + length)
      /\ Newest(Append(r, b), gone \cup {q[i].number : i \in 1 .. m}, n + 1)
  <2>1. Newest(q, gone, n)
    BY <1>4, <1>8
  <2>. QED
    BY <1>3, <1>4, <1>5, <1>6, <1>7, <2>1, PushFits
<1>10. queue'.blocks = Append(r, b) /\ queue'.bytes = bytes - BytesOf(p) + length
  BY <1>3
<1>11. QueueFits(queue'.blocks, queue'.bytes) /\ Newest(queue'.blocks, discarded', submitted')
  BY <1>3, <1>8, <1>9, <1>10
<1>12. submitted' \in 0 .. EnvelopeLimit
  BY <1>3, <1>4
<1>13. Woken'
  BY <1>3 DEF Woken
<1>. QED
  BY <1>3, <1>11, <1>12, <1>13, QueueInvAfter DEF QueueInv

\* try_pop by the sender.
LEMMA PopKeeps ==
    ASSUME QueueInv, TryPop
    PROVE  QueueInv'
<1>1. /\ sender = Trying /\ permit' = permit /\ publisher' = publisher
      /\ submitted' = submitted /\ discarded' = discarded /\ unsent' = unsent
  BY DEF TryPop
<1>2. CASE queue.blocks = <<>>
  <2>1. queue' = queue /\ sender' = Empty
    BY <1>2 DEF TryPop, Empty
  <2>2. Woken'
    BY <1>2, <2>1 DEF Woken
  <2>. QED
    BY <1>1, <2>1, <2>2, QueueInvAfter DEF QueueInv
<1>3. CASE queue.blocks # <<>>
  <2>1. PICK q, bytes, b : q = queue.blocks /\ bytes = queue.bytes /\ b = Head(q)
    OBVIOUS
  <2>2. /\ queue' = [blocks |-> Tail(q), bytes |-> bytes - b.length]
        /\ sender' = [pc |-> "sending", number |-> b.number, index |-> 0,
                      source |-> SourceSymbols(b.length),
                      total |-> SourceSymbols(b.length) + RepairSymbols(b.length)]
    BY <1>3, <2>1 DEF TryPop
  <2>3. /\ QueueFits(Tail(q), bytes - b.length)
        /\ Newest(Tail(q), discarded, submitted) /\ b \in Block
    <3>1. PICK gone, n : gone = discarded /\ n = submitted
      OBVIOUS
    <3>2. QueueFits(q, bytes) /\ Newest(q, gone, n) /\ q # <<>>
      BY <1>3, <2>1, <3>1 DEF QueueInv
    <3>3. /\ QueueFits(Tail(q), bytes - Head(q).length)
          /\ Newest(Tail(q), gone, n) /\ Head(q) \in Block
      BY <3>2, PopFits
    <3>. QED
      BY <2>1, <3>1, <3>3
  <2>4. queue'.blocks = Tail(q) /\ queue'.bytes = bytes - b.length
    BY <2>2
  <2>5. b.number \in Nat /\ b.length \in Nat
    BY <2>3, BlockType, Zenon
  <2>6. PICK src, tot : src = SourceSymbols(b.length) /\ tot = SourceSymbols(b.length) + RepairSymbols(b.length)
    OBVIOUS
  <2>7. src \in Int /\ tot \in Int /\ src <= tot
    BY <2>5, <2>6, SymbolsType
  <2>8. sender' \in Sending
    <3>1. sender' = [pc |-> "sending", number |-> b.number, index |-> 0, source |-> src, total |-> tot]
      BY <2>2, <2>6
    <3>. QED
      BY <2>5, <2>7, <3>1 DEF Sending
  <2>9. sender' # Empty /\ sender' # Waiting
    BY <2>8, SenderStates
  <2>10. Woken'
    BY <2>9 DEF Woken, Empty, Waiting
  <2>. QED
    BY <1>1, <2>3, <2>4, <2>8, <2>10, QueueInvAfter DEF QueueInv
<1>. QED
  BY <1>2, <1>3

\* The queue, its histories and its wake-ups (src/src/telemetry_fec.rs) in every
\* reachable state.
THEOREM QueueInvariant == TelemetryQueueSpec => []QueueInv
<1>1. TelemetryQueueInit => QueueInv
  <2>. SUFFICES ASSUME TelemetryQueueInit PROVE QueueInv
    OBVIOUS
  <2>1. /\ queue.blocks = <<>> /\ queue.bytes = 0 /\ permit = FALSE /\ publisher = "idle"
        /\ sender = Trying /\ submitted = 0 /\ discarded = {} /\ unsent = {}
    BY DEF TelemetryQueueInit
  <2>2. BytesOf(<<>>) = 0
    <3>1. BytesOf(<<>>) = SumFunctionOnSet(LengthsOf(<<>>), 1 .. Len(<<>>))
      <4>1. <<>> \in Seq(Block)
        OBVIOUS
      <4>. QED
        BY <4>1, BytesType
    <3>2. 1 .. Len(<<>>) = {} /\ IsFiniteSet({})
      BY FS_EmptySet
    <3>. QED
      BY <3>1, <3>2, SumUnfolds
  <2>3. QueueFits(<<>>, 0)
    BY <2>2, TelemetryQueueAssumption DEF QueueFits
  <2>4. Newest(<<>>, {}, 0)
    BY DEF Newest
  <2>5. submitted \in 0 .. EnvelopeLimit
    BY <2>1, TelemetryQueueAssumption
  <2>6. Woken
    <3>1. sender # Empty /\ sender # Waiting
      BY <2>1, SenderStates
    <3>. QED
      BY <3>1, Zenon DEF Woken
  <2>7. QueueFits(queue.blocks, queue.bytes) /\ Newest(queue.blocks, discarded, submitted)
    BY <2>1, <2>3, <2>4, Zenon
  <2>. QED
    BY <2>1, <2>5, <2>6, <2>7, Zenon DEF QueueInv
<1>2. ASSUME QueueInv, [TelemetryQueueNext]_telemetryQueueVars
      PROVE  QueueInv'
  <2>0. /\ QueueFits(queue.blocks, queue.bytes) /\ submitted \in 0 .. EnvelopeLimit
        /\ Newest(queue.blocks, discarded, submitted)
        /\ permit \in BOOLEAN /\ publisher \in {"idle", "unlocked"}
        /\ sender \in {Trying, Waiting, Empty} \/ sender \in Sending
        /\ Woken /\ unsent = {}
    BY <1>2 DEF QueueInv
  <2>1. ASSUME NEW length \in EnvelopeLengths, PushEnvelope(length)
        PROVE  QueueInv'
    BY <1>2, <2>1, PushKeeps
  <2>2. ASSUME NEW length \in EnvelopeLengths, PushOversized(length)
        PROVE  QueueInv'
    <3>1. /\ queue' = queue /\ permit' = permit /\ publisher' = publisher /\ sender' = sender
          /\ discarded' = discarded /\ unsent' = unsent /\ submitted' = submitted + 1
          /\ submitted < EnvelopeLimit
      BY <2>2 DEF PushOversized
    <3>2. submitted' \in 0 .. EnvelopeLimit
      BY <2>0, <3>1, TelemetryQueueAssumption
    <3>3. Newest(queue.blocks, discarded, submitted + 1)
      <4>1. queue.blocks \in Seq(Block)
        BY <2>0 DEF QueueFits
      <4>2. \A i \in 1 .. Len(queue.blocks) : queue.blocks[i] \in Block
        BY <4>1
      <4>3. \A i \in 1 .. Len(queue.blocks) : queue.blocks[i].number \in Nat
        BY <4>2, TelemetryQueueAssumption DEF Block
      <4>. QED
        BY <2>0, <4>3 DEF Newest
    <3>4. Woken'
      BY <2>0, <3>1 DEF Woken
    <3>. QED
      BY <2>0, <3>1, <3>2, <3>3, <3>4, QueueInvAfter
  <2>3. CASE NotifyOne
    <3>1. /\ queue' = queue /\ submitted' = submitted /\ discarded' = discarded /\ unsent' = unsent
          /\ publisher' = "idle"
          /\ \/ sender = Waiting /\ sender' = Trying /\ permit' = permit
             \/ sender # Waiting /\ sender' = sender /\ permit' = TRUE
      BY <2>3 DEF NotifyOne
    <3>2. Woken'
      <4>1. Trying # Empty /\ Trying # Waiting
        BY SenderStates
      <4>. QED
        BY <3>1, <4>1 DEF Woken
    <3>3. sender' \in {Trying, Waiting, Empty} \/ sender' \in Sending
      BY <2>0, <3>1
    <3>. QED
      BY <2>0, <3>1, <3>2, <3>3, QueueInvAfter
  <2>4. CASE TryPop
    BY <1>2, <2>4, PopKeeps
  <2>5. CASE Notified
    <3>1. /\ queue' = queue /\ submitted' = submitted /\ discarded' = discarded /\ unsent' = unsent
          /\ publisher' = publisher /\ permit' = FALSE /\ sender.pc = "empty"
          /\ sender' = IF permit THEN Trying ELSE Waiting
      BY <2>5 DEF Notified
    <3>2. sender = Empty
      BY <2>0, <3>1, SenderStates
    <3>3. Woken'
      <4>1. Trying # Empty /\ Trying # Waiting /\ Waiting # Empty
        BY SenderStates
      <4>2. CASE permit
        BY <3>1, <4>1, <4>2 DEF Woken
      <4>3. CASE ~permit
        BY <2>0, <3>1, <3>2, <4>1, <4>3 DEF Woken
      <4>. QED
        BY <4>2, <4>3
    <3>4. sender' \in {Trying, Waiting, Empty}
      BY <3>1
    <3>. QED
      BY <2>0, <3>1, <3>3, <3>4, QueueInvAfter
  <2>6. CASE SendDatagram
    <3>1. /\ queue' = queue /\ submitted' = submitted /\ discarded' = discarded
          /\ publisher' = publisher /\ permit' = permit /\ sender.pc = "sending"
      BY <2>6 DEF SendDatagram
    <3>2. sender \in Sending
      BY <2>0, <3>1, SenderStates
    <3>3. /\ sender.index \in Nat /\ sender.source \in Int /\ sender.total \in Int
          /\ sender.source <= sender.total
      BY <3>2, SenderStates
    <3>4. \/ sender' = Trying /\ unsent' = unsent
          \/ sender' = [sender EXCEPT !.index = @ + 1] /\ unsent' = unsent
      BY <2>6, <3>3 DEF SendDatagram, SkipsRepair
    <3>5. [sender EXCEPT !.index = @ + 1] \in Sending
      <4>1. PICK k \in Nat : k = sender.index + 1
        BY <3>3
      <4>2. [sender EXCEPT !.index = k] \in Sending
        BY <3>2 DEF Sending
      <4>. QED
        BY <4>1, <4>2
    <3>6. sender' = Trying \/ sender' \in Sending
      BY <3>4, <3>5
    <3>7. Woken'
      <4>1. sender' # Empty /\ sender' # Waiting
        BY <3>6, SenderStates
      <4>. QED
        BY <4>1 DEF Woken, Empty, Waiting
    <3>. QED
      BY <2>0, <3>1, <3>4, <3>6, <3>7, QueueInvAfter
  <2>7. CASE UNCHANGED telemetryQueueVars
    <3>1. /\ queue' = queue /\ submitted' = submitted /\ discarded' = discarded /\ unsent' = unsent
          /\ publisher' = publisher /\ permit' = permit /\ sender' = sender
      BY <2>7 DEF telemetryQueueVars
    <3>2. Woken'
      BY <2>0, <3>1 DEF Woken
    <3>. QED
      BY <2>0, <3>1, <3>2, QueueInvAfter
  <2>. QED
    BY <1>2, <2>1, <2>2, <2>3, <2>4, <2>5, <2>6, <2>7 DEF TelemetryQueueNext
<1>. QED
  BY <1>1, <1>2, PTL DEF TelemetryQueueSpec

\* For any lengths and limits: no block is stranded behind a waiting sender, what
\* the queue holds is newer than what it threw away and within both limits, and
\* every block that was taken out has all its source symbols sent.
THEOREM QueueCorrect == TelemetryQueueSpec => []TelemetryQueueSound
<1>1. ASSUME QueueInv
      PROVE  TelemetryQueueSound
  <2>0. /\ QueueFits(queue.blocks, queue.bytes) /\ submitted \in 0 .. EnvelopeLimit
        /\ Newest(queue.blocks, discarded, submitted)
        /\ permit \in BOOLEAN /\ publisher \in {"idle", "unlocked"}
        /\ sender \in {Trying, Waiting, Empty} \/ sender \in Sending
        /\ Woken /\ unsent = {}
    BY <1>1 DEF QueueInv
  <2>1. /\ queue.blocks \in Seq(Block) /\ queue.bytes = BytesOf(queue.blocks)
        /\ queue.bytes <= MaxQueueBytes /\ Len(queue.blocks) <= MaxQueueBlocks
    BY <2>0 DEF QueueFits
  <2>2. queue.bytes \in Nat
    BY <2>1, BytesType
  <2>3. sender.pc \in {"trying", "empty", "waiting", "sending"}
    BY <2>0, SenderStates
  <2>4. TelemetryQueueTypeOK
    BY <2>0, <2>1, <2>2, <2>3, TelemetryQueueAssumption DEF TelemetryQueueTypeOK, Block
  <2>5. NoStrandedTelemetry
    BY <2>0 DEF Woken, NoStrandedTelemetry
  <2>6. LatestWins
    <3>1. DOMAIN queue.blocks = 1 .. Len(queue.blocks)
      BY <2>1
    <3>. QED
      BY <2>0, <2>1, <3>1 DEF LatestWins, Newest
  <2>. QED
    BY <2>4, <2>5, <2>6 DEF TelemetryQueueSound
<1>. QED
  BY <1>1, QueueInvariant, PTL
-----------------------------------------------------------------------------
(***************************************************************************)
(* Admission to playback.                                                  *)
(***************************************************************************)
\* The window holds buckets of seconds that have begun.
Buckets(now) == [second : 0 .. now, bytes : Nat]

\* The buckets from the k-th on.
From(w, k) == SubSeq(w, k, Len(w))

\* The buckets from any one on were filled while its second lasted, or later.
SuffixBacked(w, tr, now) ==
    \A k \in 1 .. Len(w) :
        BytesIn(From(w, k)) <= SumFunctionOnSet(tr, w[k].second .. now)

\* The seconds a request's rate is about, until it was read.
WindowOf(second, at) == {s \in 0 .. at : s > second - WindowSeconds}

\* The rate a request has read is backed by the traffic of its window.
RateBacked(r, tr) ==
    /\ r.second \in 0 .. AdmissionTimeLimit /\ r.at \in 0 .. AdmissionTimeLimit
    /\ r.observed.bps \in Nat /\ r.observed.seconds \in Nat
    /\ r.observed.bps * r.observed.seconds <= 8 * SumFunctionOnSet(tr, WindowOf(r.second, r.at))

Askers == PlaybackSessions \cup {Anonymous, "snapshot"}

\* A request that has stored the flag, or counted the sessions too.
Deciding == [pc : {"stored", "counted"}, session : Askers, overloaded : BOOLEAN, since : Nat]

\* A request that has read the rate, or the flag too, or goes on to its decision.
RequestOK(r, tr) ==
    \/ r \in Deciding
    \/ /\ r.pc \in {"rated", "loaded"} /\ r.session \in Askers /\ RateBacked(r, tr)
       /\ r.pc = "loaded" => /\ r.overloaded \in BOOLEAN
                             /\ r.overloaded => r.observed.bps >= RecoveryBps

AnswersOK(ans, now) ==
    /\ IsFiniteSet(DOMAIN ans)
    /\ \A x \in DOMAIN ans : ans[x] \in [served : BOOLEAN, at : -1 .. now, seen : -1 .. now]

\* The sessions are within their limit and were seen when they were last served.
SeenOK(ses, ans, now) ==
    /\ DOMAIN ses \subseteq PlaybackSessions /\ IsFiniteSet(DOMAIN ses)
    /\ Cardinality(DOMAIN ses) <= SessionLimit
    /\ \A x \in DOMAIN ses : /\ x \in DOMAIN ans /\ ses[x] \in 0 .. now
                             /\ ans[x].served /\ ans[x].seen = ses[x]

\* The sessions served after s, or by a clock no earlier.
Rivals(ans, s) == {o \in DOMAIN ans \ {s} : \/ ans[o].at >= ans[s].at
                                            \/ ans[o].seen >= ans[s].seen}

\* A session that was served is there until it idles, unless it has as many
\* rivals as there is room for.
StillThere(ses, ans, now) ==
    \A s \in DOMAIN ans : ans[s].served /\ now - ans[s].seen < IdleSeconds =>
        s \in DOMAIN ses \/ Cardinality(Rivals(ans, s)) >= SessionLimit

SessionsOK(ses, ans, now) ==
    SeenOK(ses, ans, now) /\ AnswersOK(ans, now) /\ StillThere(ses, ans, now)

\* The inductive invariant behind AdmissionSound and ServedStaysServed.
AdmissionInv ==
    /\ edge_now \in 0 .. AdmissionTimeLimit
    /\ traffic \in [0 .. AdmissionTimeLimit -> Nat]
    /\ buckets \in Seq(Buckets(edge_now)) /\ SuffixBacked(buckets, traffic, edge_now)
    /\ overloaded \in BOOLEAN
    /\ DOMAIN requests = AdmissionThreads
    /\ \A t \in AdmissionThreads : requests[t] = Idle \/ RequestOK(requests[t], traffic)
    /\ SessionsOK(sessions, answers, edge_now)
-----------------------------------------------------------------------------
\* EdgeAdmissionConfig::normalized
LEMMA Normalized ==
    /\ WindowSeconds \in Nat /\ WindowSeconds >= 1
    /\ IdleSeconds \in Nat /\ IdleSeconds >= 1
    /\ SessionLimit \in Nat /\ SessionLimit >= 1
    /\ RecoveryBps \in Nat /\ RecoveryBps > 0 /\ AdmissionBps \in Nat
    /\ RecoveryBps <= AdmissionBps
    /\ AdmissionTimeLimit \in Nat
<1>1. /\ ConfiguredCapacity \in Nat /\ ConfiguredAdmission \in Nat /\ ConfiguredRecovery \in Nat
      /\ ConfiguredWindow \in Nat /\ ConfiguredIdle \in Nat /\ ConfiguredSessions \in Nat
      /\ AdmissionTimeLimit \in Nat /\ RecoveryBps > 0
  BY AdmissionAssumption
<1>2. WindowSeconds \in Nat /\ WindowSeconds >= 1
  BY <1>1, MaxOfTwo DEF WindowSeconds
<1>3. IdleSeconds \in Nat /\ IdleSeconds >= 1
  BY <1>1, MaxOfTwo DEF IdleSeconds
<1>4. SessionLimit \in Nat /\ SessionLimit >= 1
  BY <1>1, MaxOfTwo DEF SessionLimit
<1>5. CapacityBps \in Nat
  BY <1>1, MaxOfTwo DEF CapacityBps
<1>6. AdmissionPercent \in 1 .. 100
  BY <1>1 DEF AdmissionPercent, Clamp
<1>7. RecoveryPercent \in Nat /\ RecoveryPercent <= AdmissionPercent
  <2>1. PICK m : m = Max({AdmissionPercent - 1, 1})
    OBVIOUS
  <2>2. m \in Nat /\ m >= 1 /\ m <= AdmissionPercent
    BY <1>6, <2>1, MaxOfTwo
  <2>3. RecoveryPercent = IF ConfiguredRecovery < 1 THEN 1
                          ELSE IF ConfiguredRecovery > m THEN m ELSE ConfiguredRecovery
    BY <2>1, Zenon DEF RecoveryPercent, Clamp
  <2>. QED
    BY <1>1, <1>6, <2>2, <2>3
<1>8. PICK c, p, q : c = CapacityBps /\ p = RecoveryPercent /\ q = AdmissionPercent
  OBVIOUS
<1>9. c \in Nat /\ p \in Nat /\ q \in Nat /\ p <= q
  BY <1>5, <1>6, <1>7, <1>8
<1>10. c * p \in Nat /\ c * q \in Nat /\ c * p <= c * q
  BY <1>9
<1>11. PICK x, y : x = c * p /\ y = c * q
  OBVIOUS
<1>12. x \div 100 \in Nat /\ y \div 100 \in Nat /\ x \div 100 <= y \div 100
  BY <1>10, <1>11
<1>13. RecoveryBps = x \div 100 /\ AdmissionBps = y \div 100
  BY <1>8, <1>11 DEF RecoveryBps, AdmissionBps
<1>. QED
  BY <1>1, <1>2, <1>3, <1>4, <1>12, <1>13

-----------------------------------------------------------------------------
(***************************************************************************)
(* The window of buckets and the traffic behind it.                        *)
(***************************************************************************)
\* One more byte in the second n.
LEMMA TrafficGrows ==
    ASSUME NEW L \in Nat, NEW tr \in [0 .. L -> Nat], NEW n \in 0 .. L,
           NEW S \in SUBSET (0 .. L)
    PROVE  LET more == [tr EXCEPT ![n] = @ + 1]
           IN  /\ SumFunctionOnSet(tr, S) \in Nat /\ SumFunctionOnSet(more, S) \in Nat
               /\ SumFunctionOnSet(tr, S) <= SumFunctionOnSet(more, S)
               /\ n \in S => SumFunctionOnSet(more, S) = SumFunctionOnSet(tr, S) + 1
<1>1. PICK more : more = [tr EXCEPT ![n] = @ + 1]
  OBVIOUS
<1>2. IsFiniteSet(S) /\ NatOn(tr, S)
  <2>1. IsFiniteSet(0 .. L)
    BY FS_Interval
  <2>2. IsFiniteSet(S)
    BY <2>1, FS_Subset
  <2>. QED
    BY <2>2 DEF NatOn
<1>3. SumFunctionOnSet(tr, S) \in Nat
  BY <1>2, SumPart
<1>4. CASE n \in S
  <2>1. SameOn(more, tr, S \ {n}) /\ more[n] = tr[n] + 1
    BY <1>1 DEF SameOn
  <2>2. PICK one \in Nat : one = 1
    OBVIOUS
  <2>3. SumFunctionOnSet(more, S) = SumFunctionOnSet(tr, S) + one
    BY <1>2, <1>4, <2>1, <2>2, SumUpdate
  <2>. QED
    BY <1>1, <1>3, <2>2, <2>3
<1>5. CASE n \notin S
  <2>1. \A x \in S : more[x] = tr[x]
    BY <1>1, <1>5
  <2>2. SumFunctionOnSet(more, S) = SumFunctionOnSet(tr, S)
    BY <1>2, <2>1, SumSame
  <2>. QED
    BY <1>1, <1>3, <1>5, <2>2
<1>. QED
  BY <1>4, <1>5

\* The bytes of a window are those of its buckets.
LEMMA BytesAreNat ==
    ASSUME NEW T, NEW w \in Seq([second : T, bytes : Nat])
    PROVE  /\ BytesIn(w) \in Nat /\ NatOn(BucketBytes(w), 1 .. Len(w))
           /\ BytesIn(w) = SumFunctionOnSet(BucketBytes(w), 1 .. Len(w))
           /\ Len(w) \in Nat /\ DOMAIN w = 1 .. Len(w)
           /\ \A i \in 1 .. Len(w) : BucketBytes(w)[i] = w[i].bytes /\ w[i].bytes \in Nat
<1>1. Len(w) \in Nat /\ DOMAIN w = 1 .. Len(w)
  OBVIOUS
<1>2. ASSUME NEW i \in 1 .. Len(w)
      PROVE  w[i].bytes \in Nat
  <2>1. w[i] \in [second : T, bytes : Nat]
    BY EntryOf
  <2>. QED
    BY <2>1
<1>3. \A i \in 1 .. Len(w) : BucketBytes(w)[i] = w[i].bytes
  BY <1>1 DEF BucketBytes
<1>4. NatOn(BucketBytes(w), 1 .. Len(w))
  BY <1>2, <1>3 DEF NatOn
<1>5. IsFiniteSet(1 .. Len(w))
  BY <1>1, FS_Interval
<1>6. SumFunctionOnSet(BucketBytes(w), 1 .. Len(w)) \in Nat
  BY <1>4, <1>5, SumPart
<1>. QED
  BY <1>1, <1>2, <1>3, <1>4, <1>6 DEF BytesIn

\* One more bucket.
LEMMA BytesAppended ==
    ASSUME NEW T, NEW w \in Seq([second : T, bytes : Nat]), NEW b \in [second : T, bytes : Nat]
    PROVE  BytesIn(Append(w, b)) = BytesIn(w) + b.bytes
<1>1. PICK v, n, f, g : /\ v = Append(w, b) /\ n = Len(w)
                        /\ f = BucketBytes(w) /\ g = BucketBytes(v)
  OBVIOUS
<1>2. /\ v \in Seq([second : T, bytes : Nat]) /\ Len(v) = n + 1 /\ n \in Nat
      /\ v[n + 1] = b /\ \A i \in 1 .. n : v[i] = w[i]
  BY <1>1
<1>3. /\ NatOn(f, 1 .. n) /\ BytesIn(w) = SumFunctionOnSet(f, 1 .. n)
      /\ \A i \in 1 .. n : f[i] = w[i].bytes
  BY <1>1, BytesAreNat
<1>4. /\ BytesIn(v) = SumFunctionOnSet(g, 1 .. (n + 1))
      /\ \A i \in 1 .. (n + 1) : g[i] = v[i].bytes /\ v[i].bytes \in Nat
  <2>1. /\ BytesIn(v) = SumFunctionOnSet(g, 1 .. Len(v))
        /\ \A i \in 1 .. Len(v) : g[i] = v[i].bytes /\ v[i].bytes \in Nat
    BY <1>1, <1>2, BytesAreNat
  <2>. QED
    BY <1>2, <2>1
<1>5. n + 1 \in 1 .. (n + 1) /\ \A i \in 1 .. n : i \in 1 .. (n + 1)
  BY <1>2
<1>6. SameOn(g, f, 1 .. n)
  BY <1>2, <1>3, <1>4, <1>5 DEF SameOn
<1>7. g[n + 1] = b.bytes /\ g[n + 1] \in Nat
  BY <1>2, <1>4, <1>5
<1>8. Lengthened(g, f, n)
  BY <1>2, <1>3, <1>6, <1>7 DEF Lengthened
<1>9. SumFunctionOnSet(g, 1 .. (n + 1)) = SumFunctionOnSet(f, 1 .. n) + g[n + 1]
  BY <1>8, SumAppend
<1>. QED
  BY <1>1, <1>3, <1>4, <1>7, <1>9

\* One more byte in the last bucket.
LEMMA BytesOfLast ==
    ASSUME NEW T, NEW w \in Seq([second : T, bytes : Nat]), Len(w) > 0
    PROVE  BytesIn([w EXCEPT ![Len(w)].bytes = @ + 1]) = BytesIn(w) + 1
<1>1. PICK v, n, f, g : /\ v = [w EXCEPT ![Len(w)].bytes = @ + 1] /\ n = Len(w)
                        /\ f = BucketBytes(w) /\ g = BucketBytes(v)
  OBVIOUS
<1>2. /\ v \in Seq([second : T, bytes : Nat]) /\ Len(v) = n /\ n \in Nat /\ n \in 1 .. n
  <2>1. n \in Nat /\ n \in 1 .. n /\ DOMAIN w = 1 .. n
    BY <1>1
  <2>2. w[n] \in [second : T, bytes : Nat]
    BY <1>1, <2>1, EntryOf
  <2>3. PICK x : x = [w[n] EXCEPT !.bytes = @ + 1]
    OBVIOUS
  <2>4. x \in [second : T, bytes : Nat]
    BY <2>2, <2>3
  <2>5. v = [w EXCEPT ![n] = x]
    BY <1>1, <2>3
  <2>. QED
    BY <2>1, <2>4, <2>5
<1>3. v[n].bytes = w[n].bytes + 1 /\ \A i \in 1 .. n : i # n => v[i] = w[i]
  BY <1>1
<1>4. /\ NatOn(f, 1 .. n) /\ BytesIn(w) = SumFunctionOnSet(f, 1 .. n)
      /\ \A i \in 1 .. n : f[i] = w[i].bytes
  BY <1>1, BytesAreNat
<1>5. /\ BytesIn(v) = SumFunctionOnSet(g, 1 .. n) /\ \A i \in 1 .. n : g[i] = v[i].bytes
  BY <1>1, <1>2, BytesAreNat
<1>6. SameOn(g, f, (1 .. n) \ {n}) /\ g[n] = f[n] + 1
  <2>1. g[n] = f[n] + 1
    BY <1>2, <1>3, <1>4, <1>5
  <2>. QED
    BY <1>3, <1>4, <1>5, <2>1 DEF SameOn
<1>7. IsFiniteSet(1 .. n)
  BY <1>2, FS_Interval
<1>8. PICK S, one : S = 1 .. n /\ one = 1
  OBVIOUS
<1>9. one \in Nat /\ n \in S /\ IsFiniteSet(S) /\ NatOn(f, S)
  BY <1>2, <1>4, <1>7, <1>8
<1>10. SameOn(g, f, S \ {n}) /\ g[n] = f[n] + one
  BY <1>6, <1>8
<1>11. SumFunctionOnSet(g, S) = SumFunctionOnSet(f, S) + one
  BY <1>9, <1>10, SumUpdate
<1>. QED
  BY <1>1, <1>4, <1>5, <1>8, <1>11

\* The entries from the m-th on.
LEMMA FromEntries ==
    ASSUME NEW T, NEW w \in Seq(T), NEW m \in 1 .. Len(w)
    PROVE  /\ From(w, m) \in Seq(T) /\ Len(From(w, m)) = Len(w) - m + 1
           /\ \A i \in 1 .. (Len(w) - m + 1) : From(w, m)[i] = w[m + i - 1]
  BY DEF From

\* The entries from the m-th on, and from a later one on.
LEMMA FromFacts ==
    ASSUME NEW T, NEW w \in Seq(T), NEW m \in 1 .. Len(w)
    PROVE  /\ From(w, m) \in Seq(T) /\ Len(From(w, m)) = Len(w) - m + 1
           /\ \A k \in 1 .. Len(From(w, m)) :
                 /\ From(w, m)[k] = w[m + k - 1] /\ m + k - 1 \in 1 .. Len(w)
                 /\ From(From(w, m), k) = From(w, m + k - 1)
<1>1. PICK n, u : n = Len(w) /\ u = From(w, m)
  OBVIOUS
<1>2. n \in Nat /\ m \in 1 .. n /\ m \in Nat
  BY <1>1
<1>3. u \in Seq(T) /\ Len(u) = n - m + 1 /\ \A k \in 1 .. (n - m + 1) : u[k] = w[m + k - 1]
  BY <1>1, <1>2 DEF From
<1>4. ASSUME NEW k \in 1 .. (n - m + 1)
      PROVE  m + k - 1 \in 1 .. n /\ From(u, k) = From(w, m + k - 1)
  <2>1. m + k - 1 \in 1 .. n
    BY <1>2
  <2>2. PICK x, y, j, l : /\ x = From(u, k) /\ y = From(w, m + k - 1)
                          /\ j = m + k - 1 /\ l = n - j + 1
    OBVIOUS
  <2>3. j \in 1 .. n /\ l \in Nat /\ l = (n - m + 1) - k + 1
    BY <1>2, <2>1, <2>2
  <2>4. x \in Seq(T) /\ Len(x) = l /\ \A i \in 1 .. l : x[i] = u[k + i - 1]
    BY <1>2, <1>3, <2>2, <2>3 DEF From
  <2>5. y \in Seq(T) /\ Len(y) = l /\ \A i \in 1 .. l : y[i] = w[j + i - 1]
    <3>1. j \in 1 .. Len(w)
      BY <1>1, <2>3
    <3>2. /\ From(w, j) \in Seq(T) /\ Len(From(w, j)) = Len(w) - j + 1
          /\ \A i \in 1 .. (Len(w) - j + 1) : From(w, j)[i] = w[j + i - 1]
      BY <3>1, FromEntries
    <3>. QED
      BY <1>1, <2>2, <3>2
  <2>6. ASSUME NEW i \in 1 .. l
        PROVE  x[i] = y[i]
    <3>1. k + i - 1 \in 1 .. (n - m + 1) /\ m + (k + i - 1) - 1 = j + i - 1
      BY <1>2, <2>2, <2>3
    <3>2. u[k + i - 1] = w[m + (k + i - 1) - 1]
      BY <1>3, <3>1
    <3>. QED
      BY <2>4, <2>5, <3>1, <3>2
  <2>7. x = y
    BY <2>4, <2>5, <2>6
  <2>. QED
    BY <2>1, <2>2, <2>7
<1>. QED
  BY <1>1, <1>3, <1>4

\* prune leaves nothing, or what begins with a bucket that is recent enough.
LEMMA PrunedIsFrom ==
    ASSUME NEW now \in Nat, NEW w \in Seq(Buckets(now)), NEW second \in Nat,
           Pruned(w, second) # <<>>
    PROVE  \E m \in 1 .. Len(w) : /\ Pruned(w, second) = From(w, m)
                                  /\ w[m].second > second - WindowSeconds
<1>1. PICK oldest : oldest = Max({second - (WindowSeconds - 1), 0})
  OBVIOUS
<1>2. oldest >= second - (WindowSeconds - 1) /\ oldest \in Int
  BY <1>1, Normalized, MaxOfTwo
<1>3. PICK stay : stay = {i \in DOMAIN w : w[i].second >= oldest}
  OBVIOUS
<1>4. DOMAIN w = 1 .. Len(w) /\ Len(w) \in Nat
  OBVIOUS
<1>5. Pruned(w, second) = IF stay = {} THEN <<>> ELSE SubSeq(w, Min(stay), Len(w))
  BY <1>1, <1>3 DEF Pruned
<1>6. stay # {}
  BY <1>5
<1>7. stay \in SUBSET Nat
  BY <1>3, <1>4
<1>8. PICK m \in stay : \A k \in stay : m <= k
  BY <1>6, <1>7, LeastElement
<1>9. PICK n : n = Min(stay)
  OBVIOUS
<1>10. n \in stay
  BY <1>8, <1>9 DEF Min
<1>11. n \in 1 .. Len(w) /\ w[n].second >= oldest
  BY <1>3, <1>4, <1>10
<1>12. w[n].second \in Nat
  <2>1. w[n] \in Buckets(now)
    BY <1>11, EntryOf
  <2>. QED
    BY <2>1 DEF Buckets
<1>13. w[n].second > second - WindowSeconds
  BY <1>2, <1>11, <1>12, Normalized
<1>. QED
  BY <1>5, <1>6, <1>9, <1>11, <1>13 DEF From

\* What prune leaves is backed as before.
LEMMA PrunedBacked ==
    ASSUME NEW now \in Nat, NEW w \in Seq(Buckets(now)), NEW second \in Nat, NEW tr,
           SuffixBacked(w, tr, now)
    PROVE  /\ Pruned(w, second) \in Seq(Buckets(now))
           /\ SuffixBacked(Pruned(w, second), tr, now)
           /\ Pruned(w, second) # <<>> =>
                 Pruned(w, second)[1].second > second - WindowSeconds
<1>1. CASE Pruned(w, second) = <<>>
  BY <1>1 DEF SuffixBacked
<1>2. CASE Pruned(w, second) # <<>>
  <2>1. PICK m \in 1 .. Len(w) : /\ Pruned(w, second) = From(w, m)
                                 /\ w[m].second > second - WindowSeconds
    BY <1>2, PrunedIsFrom
  <2>2. PICK u : u = From(w, m)
    OBVIOUS
  <2>3. /\ u \in Seq(Buckets(now)) /\ Len(u) = Len(w) - m + 1
        /\ \A k \in 1 .. Len(u) : /\ u[k] = w[m + k - 1] /\ m + k - 1 \in 1 .. Len(w)
                                  /\ From(u, k) = From(w, m + k - 1)
    BY <2>2, FromFacts
  <2>4. SuffixBacked(u, tr, now)
    BY <2>3 DEF SuffixBacked
  <2>5. 1 \in 1 .. Len(u) /\ m + 1 - 1 = m
    BY <2>3
  <2>6. u[1] = w[m]
    BY <2>3, <2>5
  <2>. QED
    BY <2>1, <2>2, <2>3, <2>4, <2>6
<1>. QED
  BY <1>1, <1>2

\* A byte is added to the last bucket: every suffix has it.
LastGrown(v, p) == v = [p EXCEPT ![Len(p)].bytes = @ + 1]

OneMoreByte(v, p, k, R) ==
    /\ v \in Seq(R) /\ Len(v) = Len(p) /\ BytesIn(From(v, k)) = BytesIn(From(p, k)) + 1

LEMMA FromOfLast ==
    ASSUME NEW T, NEW p \in Seq([second : T, bytes : Nat]), NEW k \in 1 .. Len(p),
           NEW v, LastGrown(v, p)
    PROVE  OneMoreByte(v, p, k, [second : T, bytes : Nat])
<1>1. PICK n, R, x, r : /\ r = v /\ n = Len(p) /\ R = [second : T, bytes : Nat]
                        /\ x = [p[Len(p)] EXCEPT !.bytes = @ + 1]
  OBVIOUS
<1>2. n \in Nat /\ k \in 1 .. n /\ n \in 1 .. n /\ DOMAIN p = 1 .. n /\ p \in Seq(R)
  BY <1>1
<1>3. p[n] \in R
  BY <1>1, <1>2, EntryOf
<1>4. x \in R /\ x.second = p[n].second
  BY <1>1, <1>3
<1>5. r = [p EXCEPT ![n] = x]
  BY <1>1 DEF LastGrown
<1>6. r \in Seq(R) /\ Len(r) = n /\ r[n] = x /\ \A i \in 1 .. n : i # n => r[i] = p[i]
  <2>1. n \in 1 .. Len(p)
    BY <1>1, <1>2
  <2>2. /\ [p EXCEPT ![n] = x] \in Seq(R) /\ Len([p EXCEPT ![n] = x]) = Len(p)
        /\ [p EXCEPT ![n] = x][n] = x
        /\ \A i \in 1 .. Len(p) : i # n => [p EXCEPT ![n] = x][i] = p[i]
    BY <1>2, <1>4, <2>1, OneReplaced
  <2>. QED
    BY <1>1, <1>5, <2>2, Zenon
<1>7. PICK u, z, l : u = From(p, k) /\ z = From(r, k) /\ l = n - k + 1
  OBVIOUS
<1>8. u \in Seq(R) /\ Len(u) = l /\ \A i \in 1 .. l : u[i] = p[k + i - 1]
  <2>1. /\ From(p, k) \in Seq(R) /\ Len(From(p, k)) = Len(p) - k + 1
        /\ \A i \in 1 .. (Len(p) - k + 1) : From(p, k)[i] = p[k + i - 1]
    BY <1>2, FromEntries
  <2>. QED
    BY <1>1, <1>7, <2>1
<1>9. z \in Seq(R) /\ Len(z) = l /\ \A i \in 1 .. l : z[i] = r[k + i - 1]
  <2>1. k \in 1 .. Len(r)
    BY <1>2, <1>6
  <2>2. /\ From(r, k) \in Seq(R) /\ Len(From(r, k)) = Len(r) - k + 1
        /\ \A i \in 1 .. (Len(r) - k + 1) : From(r, k)[i] = r[k + i - 1]
    BY <1>6, <2>1, FromEntries
  <2>. QED
    BY <1>6, <1>7, <2>2
<1>10. l \in Nat /\ l \in 1 .. l /\ k + l - 1 = n
  BY <1>2, <1>7
<1>11. PICK y : y = [u EXCEPT ![Len(u)].bytes = @ + 1]
  OBVIOUS
<1>12. u[l] = p[n] /\ z[l] = x
  BY <1>6, <1>8, <1>9, <1>10
<1>13. y = [u EXCEPT ![l] = x]
  <2>1. y = [u EXCEPT ![l] = [u[l] EXCEPT !.bytes = @ + 1]]
    BY <1>8, <1>11
  <2>. QED
    BY <1>1, <1>12, <2>1
<1>14. y \in Seq(R) /\ Len(y) = l /\ y[l] = x /\ \A i \in 1 .. l : i # l => y[i] = u[i]
  BY <1>4, <1>8, <1>10, <1>13
<1>15. ASSUME NEW i \in 1 .. l
       PROVE  z[i] = y[i]
  <2>1. CASE i = l
    BY <2>1, <1>12, <1>14
  <2>2. CASE i # l
    <3>1. k + i - 1 \in 1 .. n /\ k + i - 1 # n
      BY <1>2, <1>7, <1>10, <2>2
    <3>2. r[k + i - 1] = p[k + i - 1]
      BY <1>6, <3>1
    <3>. QED
      BY <1>8, <1>9, <1>14, <2>2, <3>2
  <2>. QED
    BY <2>1, <2>2
<1>16. z = y
  BY <1>9, <1>10, <1>14, <1>15, SameEntries
<1>17. BytesIn(y) = BytesIn(u) + 1
  <2>1. u \in Seq([second : T, bytes : Nat]) /\ Len(u) > 0
    BY <1>1, <1>8, <1>10
  <2>. QED
    BY <1>11, <2>1, BytesOfLast
<1>. QED
  BY <1>1, <1>6, <1>7, <1>16, <1>17 DEF OneMoreByte

\* A bucket is added at the end: every suffix has it.
LEMMA FromOfAppend ==
    ASSUME NEW T, NEW p \in Seq(T), NEW k \in 1 .. Len(p), NEW b \in T
    PROVE  From(Append(p, b), k) = Append(From(p, k), b)
<1>1. PICK n, v, u, z, l : /\ n = Len(p) /\ v = Append(p, b) /\ u = From(p, k) /\ z = From(v, k)
                           /\ l = n - k + 1
  OBVIOUS
<1>2. /\ v \in Seq(T) /\ Len(v) = n + 1 /\ v[n + 1] = b /\ \A i \in 1 .. n : v[i] = p[i]
      /\ n \in Nat /\ k \in 1 .. n /\ l \in Nat /\ k \in 1 .. (n + 1)
  BY <1>1
<1>3. u \in Seq(T) /\ Len(u) = l /\ \A i \in 1 .. l : u[i] = p[k + i - 1]
  <2>1. /\ From(p, k) \in Seq(T) /\ Len(From(p, k)) = Len(p) - k + 1
        /\ \A i \in 1 .. (Len(p) - k + 1) : From(p, k)[i] = p[k + i - 1]
    BY FromEntries
  <2>. QED
    BY <1>1, <2>1
<1>4. z \in Seq(T) /\ Len(z) = l + 1 /\ \A i \in 1 .. (l + 1) : z[i] = v[k + i - 1]
  <2>0. k \in 1 .. Len(v)
    BY <1>2
  <2>1. /\ From(v, k) \in Seq(T) /\ Len(From(v, k)) = Len(v) - k + 1
        /\ \A i \in 1 .. (Len(v) - k + 1) : From(v, k)[i] = v[k + i - 1]
    BY <1>2, <2>0, FromEntries
  <2>2. Len(v) - k + 1 = l + 1
    BY <1>1, <1>2
  <2>. QED
    BY <1>1, <2>1, <2>2
<1>5. PICK y : y = Append(u, b)
  OBVIOUS
<1>6. y \in Seq(T) /\ Len(y) = l + 1 /\ y[l + 1] = b /\ \A i \in 1 .. l : y[i] = u[i]
  BY <1>2, <1>3, <1>5
<1>7. ASSUME NEW i \in 1 .. (l + 1)
      PROVE  z[i] = y[i]
  <2>1. CASE i = l + 1
    <3>1. k + i - 1 = n + 1
      BY <1>1, <1>2, <2>1
    <3>. QED
      BY <1>2, <1>4, <1>6, <2>1, <3>1
  <2>2. CASE i # l + 1
    <3>1. i \in 1 .. l /\ k + i - 1 \in 1 .. n
      BY <1>1, <1>2, <2>2
    <3>. QED
      BY <1>2, <1>3, <1>4, <1>6, <3>1
  <2>. QED
    BY <2>1, <2>2
<1>8. z = y
  BY <1>4, <1>6, <1>7
<1>. QED
  BY <1>1, <1>5, <1>8

\* An empty window has no bytes.
LEMMA NoBytes == BytesIn(<<>>) = 0
<1>1. DOMAIN <<>> = {}
  OBVIOUS
<1>2. IsFiniteSet({})
  BY FS_EmptySet
<1>3. SumFunctionOnSet(BucketBytes(<<>>), {}) = 0
  BY <1>2, SumUnfolds
<1>. QED
  BY <1>1, <1>3 DEF BytesIn

\* record_bytes: the bytes are recorded under a second that may have passed, and
\* count as traffic of the second that lasts.
LEMMA RecordedBacked ==
    ASSUME NEW L \in Nat, NEW now \in 0 .. L, NEW w \in Seq(Buckets(now)),
           NEW sec \in 0 .. now, NEW tr \in [0 .. L -> Nat], SuffixBacked(w, tr, now)
    PROVE  /\ Recorded(w, sec, 1) \in Seq(Buckets(now))
           /\ SuffixBacked(Recorded(w, sec, 1), [tr EXCEPT ![now] = @ + 1], now)
<1>1. PICK p, v, more : /\ p = Pruned(w, sec) /\ v = Recorded(w, sec, 1)
                        /\ more = [tr EXCEPT ![now] = @ + 1]
  OBVIOUS
<1>2. now \in Nat /\ sec \in Nat
  OBVIOUS
<1>3. p \in Seq(Buckets(now)) /\ SuffixBacked(p, tr, now)
  BY <1>1, <1>2, PrunedBacked
<1>4. PICK n : n = Len(p)
  OBVIOUS
<1>5. n \in Nat
  BY <1>3, <1>4
<1>6. ASSUME NEW t \in 0 .. now
      PROVE  /\ SumFunctionOnSet(tr, t .. now) \in Nat
             /\ SumFunctionOnSet(more, t .. now) = SumFunctionOnSet(tr, t .. now) + 1
  <2>1. t .. now \in SUBSET (0 .. L) /\ now \in t .. now
    BY <1>2
  <2>. QED
    BY <1>1, <2>1, TrafficGrows
<1>7. ASSUME NEW k \in 1 .. n
      PROVE  /\ BytesIn(From(p, k)) <= SumFunctionOnSet(tr, p[k].second .. now)
             /\ p[k].second \in 0 .. now /\ BytesIn(From(p, k)) \in Nat
  <2>1. p[k] \in Buckets(now)
    BY <1>3, <1>4, EntryOf
  <2>2. p[k].second \in 0 .. now
    BY <2>1 DEF Buckets
  <2>3. From(p, k) \in Seq([second : 0 .. now, bytes : Nat])
    BY <1>3, <1>4, FromEntries DEF Buckets
  <2>4. BytesIn(From(p, k)) \in Nat
    BY <2>3, BytesAreNat
  <2>. QED
    BY <1>3, <1>4, <2>2, <2>4 DEF SuffixBacked
<1>8. v = IF p # <<>> /\ p[Len(p)].second = sec
          THEN [p EXCEPT ![Len(p)].bytes = @ + 1]
          ELSE Append(p, [second |-> sec, bytes |-> 1])
  BY <1>1 DEF Recorded
<1>9. CASE p # <<>> /\ p[Len(p)].second = sec
  <2>1. n \in 1 .. n
    BY <1>3, <1>4, <1>5, <1>9
  <2>2. p \in Seq([second : 0 .. now, bytes : Nat])
    BY <1>3 DEF Buckets
  <2>3. ASSUME NEW k \in 1 .. n
        PROVE  /\ v \in Seq([second : 0 .. now, bytes : Nat]) /\ Len(v) = n
               /\ BytesIn(From(v, k)) = BytesIn(From(p, k)) + 1
               /\ v[k].second = p[k].second
    <3>1. LastGrown(v, p) /\ k \in 1 .. Len(p)
      BY <1>4, <1>8, <1>9 DEF LastGrown
    <3>2. /\ v \in Seq([second : 0 .. now, bytes : Nat]) /\ Len(v) = Len(p)
          /\ BytesIn(From(v, k)) = BytesIn(From(p, k)) + 1
          /\ v[k].second = p[k].second
      <4>1. PICK T : T = 0 .. now
        OBVIOUS
      <4>2. p \in Seq([second : T, bytes : Nat])
        BY <2>2, <4>1
      <4>3. k \in 1 .. Len(p)
        BY <3>1
      <4>4. LastGrown(v, p)
        BY <3>1
      <4>5. OneMoreByte(v, p, k, [second : T, bytes : Nat])
        BY <4>2, <4>3, <4>4, FromOfLast
      <4>8. v[k].second = p[k].second
        <5>1. DOMAIN p = 1 .. Len(p)
          BY <4>2
        <5>2. CASE k = Len(p)
          BY <4>3, <4>4, <5>1, <5>2 DEF LastGrown
        <5>3. CASE k # Len(p)
          BY <4>3, <4>4, <5>1, <5>3 DEF LastGrown
        <5>. QED
          BY <5>2, <5>3
      <4>. QED
        BY <4>1, <4>5, <4>8 DEF OneMoreByte
    <3>. QED
      BY <1>4, <3>2
  <2>4. v \in Seq(Buckets(now)) /\ Len(v) = n
    BY <2>1, <2>3 DEF Buckets
  <2>5. ASSUME NEW k \in 1 .. n
        PROVE  BytesIn(From(v, k)) <= SumFunctionOnSet(more, v[k].second .. now)
    <3>1. PICK a, b, t : /\ a = BytesIn(From(p, k)) /\ t = p[k].second
                         /\ b = SumFunctionOnSet(tr, p[k].second .. now)
      OBVIOUS
    <3>2. a <= b /\ t \in 0 .. now /\ a \in Nat
      BY <1>7, <3>1
    <3>3. b \in Nat /\ SumFunctionOnSet(more, t .. now) = b + 1
      BY <1>6, <3>1, <3>2
    <3>4. BytesIn(From(v, k)) = a + 1 /\ v[k].second = t
      BY <2>3, <3>1
    <3>. QED
      BY <3>2, <3>3, <3>4
  <2>. QED
    BY <1>1, <2>4, <2>5 DEF SuffixBacked
<1>10. CASE ~(p # <<>> /\ p[Len(p)].second = sec)
  <2>1. PICK x : x = [second |-> sec, bytes |-> 1]
    OBVIOUS
  <2>2. x \in Buckets(now) /\ x.second = sec /\ x.bytes = 1
    BY <2>1 DEF Buckets
  <2>3. v = Append(p, x)
    BY <1>8, <1>10, <2>1
  <2>4. v \in Seq(Buckets(now)) /\ Len(v) = n + 1 /\ v[n + 1] = x /\ \A i \in 1 .. n : v[i] = p[i]
    BY <1>3, <1>4, <2>2, <2>3
  <2>5. ASSUME NEW k \in 1 .. n
        PROVE  BytesIn(From(v, k)) <= SumFunctionOnSet(more, v[k].second .. now)
    <3>1. PICK a, b, t : /\ a = BytesIn(From(p, k)) /\ t = p[k].second
                         /\ b = SumFunctionOnSet(tr, p[k].second .. now)
      OBVIOUS
    <3>2. a <= b /\ t \in 0 .. now /\ a \in Nat
      BY <1>7, <3>1
    <3>3. b \in Nat /\ SumFunctionOnSet(more, t .. now) = b + 1
      BY <1>6, <3>1, <3>2
    <3>4. From(v, k) = Append(From(p, k), x)
      BY <1>3, <1>4, <2>2, <2>3, FromOfAppend
    <3>5. From(p, k) \in Seq([second : 0 .. now, bytes : Nat])
      BY <1>3, <1>4, FromEntries DEF Buckets
    <3>6. BytesIn(From(v, k)) = a + 1
      BY <2>2, <3>1, <3>4, <3>5, BytesAppended DEF Buckets
    <3>7. v[k].second = t
      BY <2>4, <3>1
    <3>. QED
      BY <3>2, <3>3, <3>6, <3>7
  <2>6. BytesIn(From(v, n + 1)) <= SumFunctionOnSet(more, v[n + 1].second .. now)
    <3>1. From(v, n + 1) = Append(<<>>, x)
      <4>1. n + 1 \in 1 .. Len(v)
        BY <1>5, <2>4
      <4>2. /\ From(v, n + 1) \in Seq(Buckets(now)) /\ Len(From(v, n + 1)) = Len(v) - (n + 1) + 1
            /\ \A i \in 1 .. (Len(v) - (n + 1) + 1) : From(v, n + 1)[i] = v[(n + 1) + i - 1]
        BY <2>4, <4>1, FromEntries
      <4>3. Len(v) - (n + 1) + 1 = 1 /\ (n + 1) + 1 - 1 = n + 1
        BY <1>5, <2>4
      <4>4. Len(From(v, n + 1)) = 1 /\ From(v, n + 1)[1] = x
        <5>1. 1 \in 1 .. (Len(v) - (n + 1) + 1)
          BY <4>3
        <5>2. From(v, n + 1)[1] = v[(n + 1) + 1 - 1]
          BY <4>2, <5>1
        <5>. QED
          BY <2>4, <4>2, <4>3, <5>2
      <4>. QED
        BY <2>2, <4>2, <4>4
    <3>2. BytesIn(<<>>) = 0 /\ <<>> \in Seq([second : 0 .. now, bytes : Nat])
      BY NoBytes
    <3>3. BytesIn(From(v, n + 1)) = 0 + 1
      <4>1. PICK e, T : e = <<>> /\ T = 0 .. now
        OBVIOUS
      <4>2. e \in Seq([second : T, bytes : Nat]) /\ x \in [second : T, bytes : Nat]
        BY <2>2, <3>2, <4>1 DEF Buckets
      <4>3. BytesIn(Append(e, x)) = BytesIn(e) + x.bytes
        BY <4>2, BytesAppended
      <4>. QED
        BY <2>2, <3>1, <3>2, <4>1, <4>3
    <3>4. PICK b : b = SumFunctionOnSet(tr, sec .. now)
      OBVIOUS
    <3>5. b \in Nat /\ SumFunctionOnSet(more, sec .. now) = b + 1
      BY <1>6, <3>4
    <3>. QED
      BY <2>2, <2>4, <3>3, <3>5
  <2>7. \A k \in 1 .. (n + 1) : k \in 1 .. n \/ k = n + 1
    BY <1>5
  <2>. QED
    BY <1>1, <2>4, <2>5, <2>6, <2>7 DEF SuffixBacked
<1>. QED
  BY <1>9, <1>10

\* rate: what it reports times the seconds it is about is backed by traffic, also
\* when the second was read before the lock was taken.
LEMMA ObservedBacked ==
    ASSUME NEW L \in Nat, NEW now \in 0 .. L, NEW w \in Seq(Buckets(now)), NEW sec \in 0 .. now,
           NEW tr \in [0 .. L -> Nat], SuffixBacked(w, tr, now)
    PROVE  LET observed == EgressObservation(w, sec)
           IN  /\ observed.bps \in Nat /\ observed.seconds \in Nat
               /\ observed.bps * observed.seconds <= 8 * SumFunctionOnSet(tr, WindowOf(sec, now))
<1>1. PICK p, observed, total, W :
         /\ p = Pruned(w, sec) /\ observed = EgressObservation(w, sec)
         /\ W = WindowOf(sec, now) /\ total = SumFunctionOnSet(tr, WindowOf(sec, now))
  OBVIOUS
<1>2. now \in Nat /\ sec \in Nat /\ sec <= now /\ WindowSeconds \in Nat /\ WindowSeconds >= 1
  BY Normalized
<1>3. p \in Seq(Buckets(now)) /\ SuffixBacked(p, tr, now)
      /\ (p # <<>> => p[1].second > sec - WindowSeconds)
  BY <1>1, <1>2, PrunedBacked
<1>4. W \in SUBSET (0 .. L) /\ IsFiniteSet(W) /\ NatOn(tr, W)
  <2>1. W \in SUBSET (0 .. L)
    BY <1>1, <1>2 DEF WindowOf
  <2>2. IsFiniteSet(0 .. L)
    BY FS_Interval
  <2>. QED
    BY <2>1, <2>2, FS_Subset DEF NatOn
<1>5. total \in Nat
  BY <1>1, <1>4, SumPart
<1>6. CASE p = <<>>
  <2>1. observed = [bps |-> 0, seconds |-> 0]
    BY <1>1, <1>6 DEF EgressObservation
  <2>2. observed.bps = 0 /\ observed.seconds = 0
    BY <2>1
  <2>. QED
    BY <1>1, <1>5, <2>2
<1>7. CASE p # <<>>
  <2>1. 1 \in 1 .. Len(p) /\ p[1] \in Buckets(now) /\ Head(p) = p[1]
    BY <1>3, <1>7, EntryOf
  <2>2. PICK first, bytes : first = p[1].second /\ bytes = BytesIn(p)
    OBVIOUS
  <2>3. first \in 0 .. now /\ first > sec - WindowSeconds
    BY <1>3, <1>7, <2>1, <2>2 DEF Buckets
  <2>4. From(p, 1) = p
    <3>1. /\ From(p, 1) \in Seq(Buckets(now)) /\ Len(From(p, 1)) = Len(p) - 1 + 1
          /\ \A i \in 1 .. (Len(p) - 1 + 1) : From(p, 1)[i] = p[1 + i - 1]
      BY <1>3, <2>1, FromEntries
    <3>2. Len(p) \in Nat /\ Len(p) - 1 + 1 = Len(p) /\ \A i \in 1 .. Len(p) : 1 + i - 1 = i
      BY <1>3
    <3>. QED
      BY <1>3, <3>1, <3>2, SameEntries
  <2>5. bytes <= SumFunctionOnSet(tr, first .. now)
    BY <1>3, <2>1, <2>2, <2>4 DEF SuffixBacked
  <2>6. bytes \in Nat
    BY <1>3, <2>2, BytesAreNat DEF Buckets
  <2>7. first .. now \in SUBSET W
    BY <1>1, <1>2, <2>3 DEF WindowOf
  <2>8. /\ SumFunctionOnSet(tr, first .. now) <= total /\ SumFunctionOnSet(tr, first .. now) \in Nat
    BY <1>1, <1>4, <2>7, SumPart
  <2>9. bytes <= total
    BY <1>5, <2>5, <2>6, <2>8
  <2>10. PICK span : span = Min({Max({sec - Head(p).second, 0}) + 1, WindowSeconds})
    OBVIOUS
  <2>11. span \in Nat /\ span > 0
    <3>1. PICK d, m : d = sec - first /\ m = Max({d, 0})
      OBVIOUS
    <3>2. d \in Int /\ m \in Nat
      BY <1>2, <2>3, <3>1, MaxOfTwo
    <3>3. span = Min({m + 1, WindowSeconds})
      BY <2>1, <2>2, <2>10, <3>1
    <3>4. m + 1 \in Int /\ WindowSeconds \in Int /\ m + 1 >= 1
      BY <1>2, <3>2
    <3>5. span = IF m + 1 <= WindowSeconds THEN m + 1 ELSE WindowSeconds
      BY <3>3, <3>4, MinOfTwo
    <3>. QED
      BY <1>2, <3>2, <3>5
  <2>12. observed = [bps |-> (bytes * 8) \div span, seconds |-> span]
    BY <1>1, <1>7, <2>2, <2>10 DEF EgressObservation
  <2>13. PICK x, q : x = bytes * 8 /\ q = x \div span
    OBVIOUS
  <2>14. x \in Nat /\ x <= 8 * total
    BY <1>5, <2>6, <2>9, <2>13
  <2>15. q \in Nat /\ q * span <= x
    BY <2>11, <2>13, <2>14, QuotientTimes
  <2>16. observed.bps = q /\ observed.seconds = span
    BY <2>12, <2>13
  <2>17. PICK y : y = q * span
    OBVIOUS
  <2>18. y \in Nat /\ y <= x
    BY <2>11, <2>15, <2>17
  <2>19. y <= 8 * total
    BY <1>5, <2>14, <2>18
  <2>. QED
    BY <1>1, <2>11, <2>15, <2>16, <2>17, <2>19
<1>. QED
  BY <1>6, <1>7

-----------------------------------------------------------------------------
(***************************************************************************)
(* The sessions and the answers they were given.                           *)
(***************************************************************************)
\* The sessions that are not idle.
ActiveOf(ses, now) == [s \in {x \in DOMAIN ses : now - ses[x] < IdleSeconds} |-> ses[s]]

\* prune, by a clock that may be behind: an idle session goes, and whoever was
\* served lately is still there.
LEMMA PruneKeeps ==
    ASSUME NEW now \in Nat, NEW e \in 0 .. now, NEW ses, NEW ans, SessionsOK(ses, ans, now)
    PROVE  SessionsOK(ActiveOf(ses, e), ans, now)
<1>1. PICK act : act = ActiveOf(ses, e)
  OBVIOUS
<1>2. /\ DOMAIN act = {x \in DOMAIN ses : e - ses[x] < IdleSeconds}
      /\ \A x \in DOMAIN act : act[x] = ses[x] /\ x \in DOMAIN ses
  BY <1>1 DEF ActiveOf
<1>3. IdleSeconds \in Nat /\ SessionLimit \in Nat
  BY Normalized
<1>4. SeenOK(ses, ans, now) /\ AnswersOK(ans, now) /\ StillThere(ses, ans, now)
  BY DEF SessionsOK
<1>5. DOMAIN act \in SUBSET (DOMAIN ses)
  BY <1>2
<1>6. /\ IsFiniteSet(DOMAIN act) /\ Cardinality(DOMAIN act) <= SessionLimit
  <2>1. IsFiniteSet(DOMAIN ses) /\ Cardinality(DOMAIN ses) <= SessionLimit
    BY <1>4 DEF SeenOK
  <2>2. /\ IsFiniteSet(DOMAIN act) /\ Cardinality(DOMAIN act) <= Cardinality(DOMAIN ses)
    BY <1>5, <2>1, FS_Subset
  <2>3. Cardinality(DOMAIN act) \in Nat /\ Cardinality(DOMAIN ses) \in Nat
    BY <2>1, <2>2, FS_CardinalityType
  <2>. QED
    BY <1>3, <2>1, <2>2, <2>3
<1>7. SeenOK(act, ans, now)
  BY <1>2, <1>4, <1>5, <1>6 DEF SeenOK
<1>8. ASSUME NEW s \in DOMAIN ans, ans[s].served, now - ans[s].seen < IdleSeconds,
             s \in DOMAIN ses
      PROVE  s \in DOMAIN act
  <2>1. ans[s].seen = ses[s] /\ ses[s] \in 0 .. now
    BY <1>4, <1>8 DEF SeenOK
  <2>2. e - ses[s] < IdleSeconds
    BY <1>3, <1>8, <2>1
  <2>. QED
    BY <1>2, <1>8, <2>2
<1>9. StillThere(act, ans, now)
  BY <1>4, <1>8 DEF StillThere
<1>. QED
  BY <1>1, <1>4, <1>7, <1>9 DEF SessionsOK

\* The answers with one more for s: it was served now, or is as long ago as before.
Answered(new, ans, s, now) ==
    /\ AnswersOK(new, now) /\ DOMAIN new = DOMAIN ans \cup {s}
    /\ \A x \in DOMAIN ans : x # s => new[x] = ans[x]
    /\ s \in DOMAIN ans => \/ new[s].at = now
                           \/ new[s].at = ans[s].at /\ new[s].seen = ans[s].seen

ServedWith(new, ans, s, now, e) ==
    new = With(ans, s, [served |-> TRUE, at |-> now, seen |-> e])

RefusedWith(new, ans, s) ==
    new = With(ans, s, [Entry(ans, s, [served |-> FALSE, at |-> -1, seen |-> -1])
                           EXCEPT !.served = FALSE])

LEMMA OneAnswer ==
    ASSUME NEW now \in Nat, NEW ans, AnswersOK(ans, now), NEW s,
           NEW a \in [served : BOOLEAN, at : -1 .. now, seen : -1 .. now], NEW new,
           new = With(ans, s, a),
           s \in DOMAIN ans => a.at = now \/ (a.at = ans[s].at /\ a.seen = ans[s].seen)
    PROVE  Answered(new, ans, s, now) /\ new[s] = a
<1>1. /\ DOMAIN new = DOMAIN ans \cup {s} /\ new[s] = a
      /\ \A x \in DOMAIN ans : x # s => new[x] = ans[x]
  BY DEF With
<1>2. IsFiniteSet(DOMAIN new)
  BY <1>1, FS_AddElement DEF AnswersOK
<1>3. \A x \in DOMAIN new : new[x] \in [served : BOOLEAN, at : -1 .. now, seen : -1 .. now]
  BY <1>1, Zenon DEF AnswersOK
<1>. QED
  BY <1>1, <1>2, <1>3, Zenon DEF AnswersOK, Answered

LEMMA ServedNow ==
    ASSUME NEW now \in Nat, NEW e \in 0 .. now, NEW ans, AnswersOK(ans, now), NEW s,
           NEW new, ServedWith(new, ans, s, now, e)
    PROVE  /\ Answered(new, ans, s, now)
           /\ new[s].served /\ new[s].at = now /\ new[s].seen = e
<1>1. PICK a : a = [served |-> TRUE, at |-> now, seen |-> e]
  OBVIOUS
<1>2. a \in [served : BOOLEAN, at : -1 .. now, seen : -1 .. now]
      /\ a.served /\ a.at = now /\ a.seen = e
  BY <1>1
<1>3. new = With(ans, s, a)
  BY <1>1 DEF ServedWith
<1>4. Answered(new, ans, s, now) /\ new[s] = a
  BY <1>2, <1>3, OneAnswer
<1>. QED
  BY <1>2, <1>4, Zenon

LEMMA RefusedNow ==
    ASSUME NEW now \in Nat, NEW ans, AnswersOK(ans, now), NEW s, NEW new, RefusedWith(new, ans, s)
    PROVE  Answered(new, ans, s, now) /\ ~new[s].served
<1>1. PICK b : b = Entry(ans, s, [served |-> FALSE, at |-> -1, seen |-> -1])
  OBVIOUS
<1>2. b \in [served : BOOLEAN, at : -1 .. now, seen : -1 .. now]
  BY <1>1 DEF Entry, AnswersOK
<1>3. PICK a : a = [b EXCEPT !.served = FALSE]
  OBVIOUS
<1>4. a \in [served : BOOLEAN, at : -1 .. now, seen : -1 .. now]
      /\ ~a.served /\ a.at = b.at /\ a.seen = b.seen
  BY <1>2, <1>3
<1>5. s \in DOMAIN ans => b = ans[s]
  BY <1>1 DEF Entry
<1>6. new = With(ans, s, a)
  BY <1>1, <1>3 DEF RefusedWith
<1>7. Answered(new, ans, s, now) /\ new[s] = a
  BY <1>4, <1>5, <1>6, OneAnswer
<1>. QED
  BY <1>4, <1>7, Zenon

\* An answer to another session takes no rival away.
LEMMA RivalsStay ==
    ASSUME NEW now \in Nat, NEW ans, AnswersOK(ans, now), NEW s, NEW new,
           Answered(new, ans, s, now), NEW z \in DOMAIN ans, z # s
    PROVE  /\ IsFiniteSet(Rivals(new, z)) /\ new[z] = ans[z]
           /\ Cardinality(Rivals(ans, z)) >= SessionLimit =>
                 Cardinality(Rivals(new, z)) >= SessionLimit
<1>1. PICK A, B : A = Rivals(ans, z) /\ B = Rivals(new, z)
  OBVIOUS
<1>2. new[z] = ans[z] /\ AnswersOK(new, now) /\ DOMAIN new = DOMAIN ans \cup {s}
  BY DEF Answered
<1>3. IsFiniteSet(B)
  <2>1. B \in SUBSET (DOMAIN new) /\ IsFiniteSet(DOMAIN new)
    BY <1>1, <1>2 DEF Rivals, AnswersOK
  <2>. QED
    BY <2>1, FS_Subset
<1>4. ASSUME NEW o \in A
      PROVE  o \in B
  <2>1. /\ o \in DOMAIN ans /\ o # z /\ o \in DOMAIN new
        /\ ans[o].at >= ans[z].at \/ ans[o].seen >= ans[z].seen
    BY <1>1, <1>2 DEF Rivals
  <2>2. CASE new[o] = ans[o] \/ (new[o].at = ans[o].at /\ new[o].seen = ans[o].seen)
    BY <1>1, <1>2, <2>1, <2>2 DEF Rivals
  <2>3. CASE new[o].at = now
    <3>1. ans[z].at \in -1 .. now
      BY DEF AnswersOK
    <3>2. new[o].at >= new[z].at
      BY <1>2, <2>3, <3>1
    <3>. QED
      BY <1>1, <2>1, <3>2 DEF Rivals
  <2>. QED
    BY <2>1, <2>2, <2>3 DEF Answered
<1>5. A \in SUBSET B
  BY <1>4
<1>6. IsFiniteSet(A) /\ Cardinality(A) <= Cardinality(B)
  BY <1>3, <1>5, FS_Subset
<1>7. Cardinality(A) \in Nat /\ Cardinality(B) \in Nat /\ SessionLimit \in Nat
  BY <1>3, <1>6, FS_CardinalityType, Normalized
<1>8. Cardinality(A) >= SessionLimit => Cardinality(B) >= SessionLimit
  BY <1>6, <1>7
<1>. QED
  BY <1>1, <1>2, <1>3, <1>8

\* A refusal leaves the sessions alone.
LEMMA RejectKeeps ==
    ASSUME NEW now \in Nat, NEW act, NEW ans, SessionsOK(act, ans, now), NEW s, s \notin DOMAIN act,
           NEW new, RefusedWith(new, ans, s)
    PROVE  SessionsOK(act, new, now)
<1>1. SeenOK(act, ans, now) /\ AnswersOK(ans, now) /\ StillThere(act, ans, now)
  BY DEF SessionsOK
<1>2. Answered(new, ans, s, now) /\ ~new[s].served
  BY <1>1, RefusedNow
<1>3. /\ AnswersOK(new, now) /\ DOMAIN new = DOMAIN ans \cup {s}
      /\ \A x \in DOMAIN ans : x # s => new[x] = ans[x]
  BY <1>2 DEF Answered
<1>4. SeenOK(act, new, now)
  BY <1>1, <1>3 DEF SeenOK
<1>5. StillThere(act, new, now)
  <2>1. ASSUME NEW z \in DOMAIN new, new[z].served, now - new[z].seen < IdleSeconds,
               z \notin DOMAIN act
        PROVE  Cardinality(Rivals(new, z)) >= SessionLimit
    <3>1. z # s /\ z \in DOMAIN ans /\ new[z] = ans[z]
      BY <1>2, <1>3, <2>1
    <3>2. Cardinality(Rivals(ans, z)) >= SessionLimit
      BY <1>1, <2>1, <3>1 DEF StillThere
    <3>. QED
      BY <1>1, <1>2, <3>1, <3>2, RivalsStay
  <2>. QED
    BY <2>1 DEF StillThere
<1>. QED
  BY <1>3, <1>4, <1>5 DEF SessionsOK

\* A session that is there is seen again.
LEMMA RefreshKeeps ==
    ASSUME NEW now \in Nat, NEW e \in 0 .. now, NEW act, NEW ans, SessionsOK(act, ans, now),
           NEW s \in DOMAIN act, NEW new, ServedWith(new, ans, s, now, e)
    PROVE  SessionsOK([act EXCEPT ![s] = e], new, now)
<1>1. PICK seen : seen = [act EXCEPT ![s] = e]
  OBVIOUS
<1>2. SeenOK(act, ans, now) /\ AnswersOK(ans, now) /\ StillThere(act, ans, now)
  BY DEF SessionsOK
<1>3. Answered(new, ans, s, now) /\ new[s].served /\ new[s].at = now /\ new[s].seen = e
  BY <1>2, ServedNow
<1>4. /\ AnswersOK(new, now) /\ DOMAIN new = DOMAIN ans \cup {s}
      /\ \A x \in DOMAIN ans : x # s => new[x] = ans[x]
  BY <1>3 DEF Answered
<1>5. DOMAIN seen = DOMAIN act /\ \A x \in DOMAIN act : seen[x] = IF x = s THEN e ELSE act[x]
  BY <1>1
<1>6. SeenOK(seen, new, now)
  <2>1. ASSUME NEW x \in DOMAIN seen
        PROVE  /\ x \in DOMAIN new /\ seen[x] \in 0 .. now /\ new[x].served /\ new[x].seen = seen[x]
    <3>1. CASE x = s
      BY <1>3, <1>4, <1>5, <3>1
    <3>2. CASE x # s
      BY <1>2, <1>4, <1>5, <3>2 DEF SeenOK
    <3>. QED
      BY <3>1, <3>2
  <2>. QED
    BY <1>2, <1>5, <2>1 DEF SeenOK
<1>7. StillThere(seen, new, now)
  <2>1. ASSUME NEW z \in DOMAIN new, new[z].served, now - new[z].seen < IdleSeconds,
               z \notin DOMAIN seen
        PROVE  Cardinality(Rivals(new, z)) >= SessionLimit
    <3>1. z # s /\ z \notin DOMAIN act /\ z \in DOMAIN ans /\ new[z] = ans[z]
      BY <1>4, <1>5, <2>1
    <3>2. Cardinality(Rivals(ans, z)) >= SessionLimit
      BY <1>2, <2>1, <3>1 DEF StillThere
    <3>. QED
      BY <1>2, <1>3, <3>1, <3>2, RivalsStay
  <2>. QED
    BY <2>1 DEF StillThere
<1>. QED
  BY <1>1, <1>4, <1>6, <1>7 DEF SessionsOK

\* Room is made, at the limit, by the session that was seen longest ago.
LEMMA RoomIsMade ==
    ASSUME NEW now \in Nat, NEW act, NEW ans, SessionsOK(act, ans, now), NEW room \in MakesRoom(act)
    PROVE  /\ DOMAIN room \in SUBSET (DOMAIN act) /\ \A x \in DOMAIN room : room[x] = act[x]
           /\ IsFiniteSet(DOMAIN room) /\ Cardinality(DOMAIN room) < SessionLimit
           /\ \A z \in DOMAIN act \ DOMAIN room :
                 /\ Cardinality(DOMAIN room) = SessionLimit - 1
                 /\ \A x \in DOMAIN act : act[z] <= act[x]
           /\ Cardinality(DOMAIN act) >= SessionLimit =>
                 Cardinality(DOMAIN room) = SessionLimit - 1
<1>1. SessionLimit \in Nat /\ SessionLimit >= 1
  BY Normalized
<1>2. IsFiniteSet(DOMAIN act) /\ Cardinality(DOMAIN act) <= SessionLimit
  BY DEF SessionsOK, SeenOK
<1>3. Cardinality(DOMAIN act) \in Nat
  BY <1>2, FS_CardinalityType
<1>4. CASE Cardinality(DOMAIN act) < SessionLimit
  <2>1. room = act
    BY <1>4 DEF MakesRoom
  <2>. QED
    BY <1>1, <1>2, <1>3, <1>4, <2>1
<1>5. CASE ~(Cardinality(DOMAIN act) < SessionLimit)
  <2>1. Cardinality(DOMAIN act) = SessionLimit
    BY <1>1, <1>2, <1>3, <1>5
  <2>2. PICK e \in DOMAIN act : /\ \A y \in DOMAIN act : act[e] <= act[y]
                                /\ room = Without(act, {e})
    BY <1>5 DEF MakesRoom
  <2>3. DOMAIN room = DOMAIN act \ {e} /\ \A x \in DOMAIN room : room[x] = act[x]
    BY <2>2 DEF Without
  <2>4. IsFiniteSet(DOMAIN room) /\ Cardinality(DOMAIN room) = SessionLimit - 1
    BY <1>2, <2>1, <2>2, <2>3, FS_RemoveElement
  <2>5. Cardinality(DOMAIN room) < SessionLimit
    BY <1>1, <2>4
  <2>6. \A z \in DOMAIN act \ DOMAIN room : \A x \in DOMAIN act : act[z] <= act[x]
    BY <2>2, <2>3, Zenon
  <2>. QED
    BY <2>3, <2>4, <2>5, <2>6, Zenon
<1>. QED
  BY <1>4, <1>5

\* A newcomer is let in.
LEMMA AdmitKeeps ==
    ASSUME NEW now \in Nat, NEW e \in 0 .. now, NEW act, NEW ans, SessionsOK(act, ans, now),
           NEW s \in PlaybackSessions, s \notin DOMAIN act, NEW room \in MakesRoom(act),
           NEW new, ServedWith(new, ans, s, now, e)
    PROVE  SessionsOK(With(room, s, e), new, now)
<1>1. PICK seen : seen = With(room, s, e)
  OBVIOUS
<1>2. SeenOK(act, ans, now) /\ AnswersOK(ans, now) /\ StillThere(act, ans, now)
  BY DEF SessionsOK
<1>3. Answered(new, ans, s, now) /\ new[s].served /\ new[s].at = now /\ new[s].seen = e
  BY <1>2, ServedNow
<1>4. /\ DOMAIN room \in SUBSET (DOMAIN act) /\ \A x \in DOMAIN room : room[x] = act[x]
      /\ IsFiniteSet(DOMAIN room) /\ Cardinality(DOMAIN room) < SessionLimit
      /\ \A z \in DOMAIN act \ DOMAIN room :
            /\ Cardinality(DOMAIN room) = SessionLimit - 1
            /\ \A x \in DOMAIN act : act[z] <= act[x]
  BY RoomIsMade
<1>5. /\ DOMAIN seen = DOMAIN room \cup {s} /\ seen[s] = e
      /\ \A x \in DOMAIN room : x # s /\ seen[x] = act[x]
  BY <1>1, <1>4 DEF With
<1>6. SessionLimit \in Nat /\ Cardinality(DOMAIN room) \in Nat
  BY <1>4, Normalized, FS_CardinalityType
<1>7. IsFiniteSet(DOMAIN seen) /\ Cardinality(DOMAIN seen) = Cardinality(DOMAIN room) + 1
  <2>1. s \notin DOMAIN room
    BY <1>4
  <2>. QED
    BY <1>4, <1>5, <2>1, FS_AddElement
<1>8. /\ AnswersOK(new, now) /\ DOMAIN new = DOMAIN ans \cup {s}
      /\ \A x \in DOMAIN ans : x # s => new[x] = ans[x]
  BY <1>3 DEF Answered
<1>9. ASSUME NEW x \in DOMAIN seen
      PROVE  /\ x \in DOMAIN new /\ seen[x] \in 0 .. now /\ new[x].served /\ new[x].seen = seen[x]
  <2>1. CASE x = s
    BY <1>3, <1>5, <1>8, <2>1
  <2>2. CASE x # s
    <3>1. x \in DOMAIN act /\ seen[x] = act[x]
      BY <1>4, <1>5, <2>2
    <3>2. x \in DOMAIN ans /\ act[x] \in 0 .. now /\ ans[x].served /\ ans[x].seen = act[x]
      BY <1>2, <3>1 DEF SeenOK
    <3>. QED
      BY <1>8, <2>2, <3>1, <3>2
  <2>. QED
    BY <2>1, <2>2
<1>10. SeenOK(seen, new, now)
  <2>1. DOMAIN seen \subseteq PlaybackSessions
    BY <1>2, <1>4, <1>5 DEF SeenOK
  <2>2. Cardinality(DOMAIN seen) <= SessionLimit
    BY <1>4, <1>6, <1>7
  <2>. QED
    BY <1>7, <1>9, <2>1, <2>2 DEF SeenOK
<1>11. StillThere(seen, new, now)
  <2>1. ASSUME NEW z \in DOMAIN new, new[z].served, now - new[z].seen < IdleSeconds,
               z \notin DOMAIN seen
        PROVE  Cardinality(Rivals(new, z)) >= SessionLimit
    <3>1. z # s /\ z \notin DOMAIN room /\ z \in DOMAIN ans /\ new[z] = ans[z]
      BY <1>5, <1>8, <2>1
    <3>2. CASE z \notin DOMAIN act
      <4>1. Cardinality(Rivals(ans, z)) >= SessionLimit
        BY <1>2, <2>1, <3>1, <3>2 DEF StillThere
      <4>. QED
        BY <1>2, <1>3, <3>1, <4>1, RivalsStay
    <3>3. CASE z \in DOMAIN act
      <4>1. /\ Cardinality(DOMAIN room) = SessionLimit - 1
            /\ \A x \in DOMAIN act : act[z] <= act[x]
        BY <1>4, <3>1, <3>3
      <4>2. PICK R : R = Rivals(new, z)
        OBVIOUS
      <4>3. ASSUME NEW x \in DOMAIN seen
            PROVE  x \in R
        <5>1. x \in DOMAIN new /\ x # z /\ new[x].seen = seen[x]
          BY <1>9, <2>1
        <5>2. CASE x = s
          <6>1. ans[z].at \in -1 .. now
            BY <1>2, <3>1 DEF AnswersOK
          <6>2. new[x].at >= new[z].at
            BY <1>3, <3>1, <5>2, <6>1
          <6>. QED
            BY <4>2, <5>1, <6>2 DEF Rivals
        <5>3. CASE x # s
          <6>1. x \in DOMAIN act /\ seen[x] = act[x]
            BY <1>4, <1>5, <5>3
          <6>2. ans[z].seen = act[z] /\ act[z] \in 0 .. now /\ act[x] \in 0 .. now
            BY <1>2, <3>3, <6>1 DEF SeenOK
          <6>3. new[x].seen >= new[z].seen
            BY <3>1, <4>1, <5>1, <6>1, <6>2
          <6>. QED
            BY <4>2, <5>1, <6>3 DEF Rivals
        <5>. QED
          BY <5>2, <5>3
      <4>4. IsFiniteSet(R)
        BY <1>2, <1>3, <3>1, <4>2, RivalsStay
      <4>5. DOMAIN seen \in SUBSET R
        BY <4>3
      <4>6. Cardinality(DOMAIN seen) <= Cardinality(R) /\ Cardinality(R) \in Nat
        BY <4>4, <4>5, FS_Subset, FS_CardinalityType
      <4>7. Cardinality(DOMAIN seen) = SessionLimit
        BY <1>6, <1>7, <4>1
      <4>8. Cardinality(R) >= SessionLimit
        BY <1>6, <4>6, <4>7
      <4>. QED
        BY <4>2, <4>8
    <3>. QED
      BY <3>2, <3>3
  <2>. QED
    BY <2>1 DEF StillThere
<1>. QED
  BY <1>1, <1>8, <1>10, <1>11 DEF SessionsOK

\* Time passes: fewer sessions are owed anything.
LEMMA TickKeeps ==
    ASSUME NEW now \in Nat, NEW ses, NEW ans, SessionsOK(ses, ans, now)
    PROVE  SessionsOK(ses, ans, now + 1)
<1>1. SeenOK(ses, ans, now) /\ AnswersOK(ans, now) /\ StillThere(ses, ans, now)
  BY DEF SessionsOK
<1>2. \A x \in -1 .. now : x \in -1 .. (now + 1) /\ now - x < now + 1 - x
  OBVIOUS
<1>3. \A x \in 0 .. now : x \in 0 .. (now + 1)
  OBVIOUS
<1>4. SeenOK(ses, ans, now + 1)
  BY <1>1, <1>3 DEF SeenOK
<1>5. AnswersOK(ans, now + 1)
  BY <1>1, <1>2 DEF AnswersOK
<1>6. ASSUME NEW s \in DOMAIN ans, (now + 1) - ans[s].seen < IdleSeconds
      PROVE  now - ans[s].seen < IdleSeconds
  <2>1. ans[s].seen \in Int /\ IdleSeconds \in Nat
    BY <1>1, Normalized DEF AnswersOK
  <2>. QED
    BY <1>6, <2>1
<1>7. StillThere(ses, ans, now + 1)
  BY <1>1, <1>6 DEF StillThere
<1>. QED
  BY <1>4, <1>5, <1>7 DEF SessionsOK

-----------------------------------------------------------------------------
(***************************************************************************)
(* The requests, and the actions one at a time.                            *)
(***************************************************************************)
\* More traffic backs what less did.
LEMMA RequestGrows ==
    ASSUME NEW tr \in [0 .. AdmissionTimeLimit -> Nat], NEW n \in 0 .. AdmissionTimeLimit,
           NEW r, RequestOK(r, tr)
    PROVE  RequestOK(r, [tr EXCEPT ![n] = @ + 1])
<1>1. PICK more, L, S, a, b :
         /\ more = [tr EXCEPT ![n] = @ + 1] /\ L = AdmissionTimeLimit
         /\ S = WindowOf(r.second, r.at)
         /\ a = SumFunctionOnSet(tr, WindowOf(r.second, r.at))
         /\ b = SumFunctionOnSet(more, WindowOf(r.second, r.at))
  OBVIOUS
<1>2. L \in Nat /\ tr \in [0 .. L -> Nat] /\ n \in 0 .. L
  BY <1>1, Normalized
<1>3. ASSUME RateBacked(r, tr)
      PROVE  RateBacked(r, more)
  <2>1. r.second \in 0 .. L /\ r.at \in 0 .. L
    BY <1>1, <1>3 DEF RateBacked
  <2>2. S \in SUBSET (0 .. L)
    BY <1>1, <1>2, <2>1 DEF WindowOf
  <2>3. a \in Nat /\ b \in Nat /\ a <= b
    BY <1>1, <1>2, <2>2, TrafficGrows
  <2>4. PICK x : x = r.observed.bps * r.observed.seconds
    OBVIOUS
  <2>5. x <= 8 * a /\ x \in Nat
    BY <1>1, <1>3, <2>4 DEF RateBacked
  <2>6. x <= 8 * b
    BY <2>3, <2>5
  <2>. QED
    BY <1>1, <1>3, <2>4, <2>6 DEF RateBacked
<1>. QED
  BY <1>1, <1>3, Zenon DEF RequestOK

\* A verdict of overload needs at least the recovery rate.
LEMMA OverloadNeedsRate ==
    ASSUME NEW was \in BOOLEAN, NEW observed, observed.bps \in Nat, Overloaded(was, observed)
    PROVE  observed.bps >= RecoveryBps
  BY Normalized DEF Overloaded

\* What an admission request may look like once it has read the rate.
LEMMA InvTypes ==
    ASSUME AdmissionInv
    PROVE  /\ edge_now \in Nat /\ AdmissionTimeLimit \in Nat /\ edge_now \in 0 .. AdmissionTimeLimit
           /\ \A t \in AdmissionThreads : requests[t].pc # "idle" => RequestOK(requests[t], traffic)
           /\ \A e \in 0 .. edge_now : SessionsOK(ActiveSessions(e), answers, edge_now)
<1>1. edge_now \in 0 .. AdmissionTimeLimit /\ AdmissionTimeLimit \in Nat
  BY Normalized DEF AdmissionInv
<1>2. edge_now \in Nat
  BY <1>1
<1>3. ASSUME NEW t \in AdmissionThreads, requests[t].pc # "idle"
      PROVE  RequestOK(requests[t], traffic)
  BY <1>3 DEF AdmissionInv, Idle
<1>4. ASSUME NEW e \in 0 .. edge_now
      PROVE  SessionsOK(ActiveSessions(e), answers, edge_now)
  <2>1. SessionsOK(ActiveOf(sessions, e), answers, edge_now)
    BY <1>2, PruneKeeps DEF AdmissionInv
  <2>2. ActiveSessions(e) = ActiveOf(sessions, e)
    BY DEF ActiveSessions, ActiveOf
  <2>. QED
    BY <2>1, <2>2
<1>. QED
  BY <1>1, <1>2, <1>3, <1>4

\* A request that goes on to its decision, and the clock it reads.
LEMMA DecidingFacts ==
    ASSUME AdmissionInv, NEW t \in AdmissionThreads, requests[t].pc \in {"stored", "counted"}
    PROVE  /\ requests[t] \in Deciding
           /\ \A e : ClockRead(t, e) => e \in 0 .. edge_now
<1>1. RequestOK(requests[t], traffic)
  <2>1. requests[t].pc # "idle"
    OBVIOUS
  <2>. QED
    BY <2>1, InvTypes
<1>2. requests[t].pc \notin {"rated", "loaded"}
  OBVIOUS
<1>3. requests[t] \in Deciding
  BY <1>1, <1>2, Zenon DEF RequestOK
<1>4. requests[t].since \in Nat /\ edge_now \in Nat
  BY <1>3, InvTypes DEF Deciding
<1>. QED
  BY <1>3, <1>4 DEF ClockRead

\* Threads other than t are as they were.
LEMMA ThreadMoves ==
    ASSUME AdmissionInv, NEW t \in AdmissionThreads, NEW r, r = Idle \/ RequestOK(r, traffic),
           requests' = [requests EXCEPT ![t] = r], traffic' = traffic
    PROVE  /\ DOMAIN requests' = AdmissionThreads
           /\ \A u \in AdmissionThreads : requests'[u] = Idle \/ RequestOK(requests'[u], traffic')
<1>1. DOMAIN requests = AdmissionThreads
  BY DEF AdmissionInv
<1>2. DOMAIN requests' = AdmissionThreads
  BY <1>1
<1>3. ASSUME NEW u \in AdmissionThreads
      PROVE  requests'[u] = Idle \/ RequestOK(requests'[u], traffic)
  <2>1. CASE u = t
    BY <1>1, <2>1
  <2>2. CASE u # t
    <3>1. requests'[u] = requests[u]
      BY <1>1, <2>2
    <3>. QED
      BY <3>1 DEF AdmissionInv
  <2>. QED
    BY <2>1, <2>2
<1>. QED
  BY <1>2, <1>3

LEMMA RecordBytesKeeps ==
    ASSUME AdmissionInv, NEW second \in 0 .. AdmissionTimeLimit, RecordBytes(second)
    PROVE  AdmissionInv'
<1>1. edge_now \in Nat /\ AdmissionTimeLimit \in Nat /\ edge_now \in 0 .. AdmissionTimeLimit
  BY InvTypes
<1>2. second \in 0 .. edge_now
  BY <1>1 DEF RecordBytes
<1>3. /\ traffic \in [0 .. AdmissionTimeLimit -> Nat] /\ buckets \in Seq(Buckets(edge_now))
      /\ SuffixBacked(buckets, traffic, edge_now)
  BY DEF AdmissionInv
<1>4. /\ Recorded(buckets, second, 1) \in Seq(Buckets(edge_now))
      /\ SuffixBacked(Recorded(buckets, second, 1), [traffic EXCEPT ![edge_now] = @ + 1], edge_now)
  BY <1>1, <1>2, <1>3, RecordedBacked
<1>5. /\ buckets' = Recorded(buckets, second, 1) /\ edge_now' = edge_now
      /\ traffic' = [traffic EXCEPT ![edge_now] = @ + 1] /\ requests' = requests
  BY DEF RecordBytes
<1>6. traffic' \in [0 .. AdmissionTimeLimit -> Nat]
  BY <1>1, <1>3, <1>5
<1>7. ASSUME NEW t \in AdmissionThreads, requests[t] # Idle
      PROVE  RequestOK(requests[t], traffic')
  <2>1. RequestOK(requests[t], traffic)
    BY <1>7 DEF AdmissionInv
  <2>. QED
    BY <1>1, <1>3, <1>5, <2>1, RequestGrows
<1>. QED
  BY <1>4, <1>5, <1>6, <1>7 DEF AdmissionInv, RecordBytes

LEMMA ReadRateKeeps ==
    ASSUME AdmissionInv, NEW t \in AdmissionThreads, NEW s \in Askers,
           NEW second \in 0 .. AdmissionTimeLimit, ReadRate(t, s, second)
    PROVE  AdmissionInv'
<1>1. edge_now \in Nat /\ AdmissionTimeLimit \in Nat /\ edge_now \in 0 .. AdmissionTimeLimit
  BY InvTypes
<1>2. /\ traffic \in [0 .. AdmissionTimeLimit -> Nat] /\ buckets \in Seq(Buckets(edge_now))
      /\ SuffixBacked(buckets, traffic, edge_now)
  BY DEF AdmissionInv
<1>3. PICK o : o = EgressObservation(buckets, second)
  OBVIOUS
<1>4. second \in 0 .. edge_now /\ second \in Nat
  BY <1>1 DEF ReadRate
<1>5. /\ o.bps \in Nat /\ o.seconds \in Nat
      /\ o.bps * o.seconds <= 8 * SumFunctionOnSet(traffic, WindowOf(second, edge_now))
  BY <1>1, <1>2, <1>3, <1>4, ObservedBacked
<1>6. PICK r : r = [pc |-> "rated", session |-> s, second |-> second, at |-> edge_now,
                    observed |-> o]
  OBVIOUS
<1>7. r.pc = "rated" /\ r.session = s /\ r.second = second /\ r.at = edge_now /\ r.observed = o
  BY <1>6
<1>8. RateBacked(r, traffic)
  BY <1>1, <1>5, <1>7 DEF RateBacked
<1>9. RequestOK(r, traffic)
  BY <1>7, <1>8 DEF RequestOK
<1>10. requests' = [requests EXCEPT ![t] = r] /\ traffic' = traffic
  BY <1>3, <1>6 DEF ReadRate
<1>11. /\ DOMAIN requests' = AdmissionThreads
       /\ \A u \in AdmissionThreads : requests'[u] = Idle \/ RequestOK(requests'[u], traffic')
  BY <1>9, <1>10, ThreadMoves
<1>12. /\ Pruned(buckets, second) \in Seq(Buckets(edge_now))
       /\ SuffixBacked(Pruned(buckets, second), traffic, edge_now)
  BY <1>1, <1>2, <1>4, PrunedBacked
<1>13. buckets' = Pruned(buckets, second) /\ edge_now' = edge_now
       /\ overloaded' = overloaded /\ sessions' = sessions /\ answers' = answers
  BY DEF ReadRate
<1>. QED
  BY <1>10, <1>11, <1>12, <1>13 DEF AdmissionInv

\* A request that has read the flag.
LEMMA LoadOverloadedKeeps ==
    ASSUME AdmissionInv, NEW t \in AdmissionThreads, LoadOverloaded(t)
    PROVE  AdmissionInv'
<1>1. PICK q, o : q = requests[t] /\ o = Overloaded(overloaded, q.observed)
  OBVIOUS
<1>2. RequestOK(q, traffic) /\ q.pc = "rated"
  <2>1. requests[t].pc = "rated"
    BY DEF LoadOverloaded
  <2>. QED
    BY <1>1, <2>1, InvTypes
<1>3. overloaded \in BOOLEAN
  BY DEF AdmissionInv
<1>4. RateBacked(q, traffic) /\ q.session \in Askers
  BY <1>2 DEF RequestOK, Deciding
<1>5. q.observed.bps \in Nat
  BY <1>4 DEF RateBacked
<1>6. o \in BOOLEAN
  <2>1. CASE overloaded
    BY <1>1, <2>1 DEF Overloaded
  <2>2. CASE ~overloaded
    BY <1>1, <2>2 DEF Overloaded
  <2>. QED
    BY <2>1, <2>2
<1>7. o => q.observed.bps >= RecoveryBps
  BY <1>1, <1>3, <1>5, OverloadNeedsRate
<1>8. PICK r : r = [pc |-> "loaded", session |-> q.session, second |-> q.second, at |-> q.at,
                    observed |-> q.observed, overloaded |-> o]
  OBVIOUS
<1>9. /\ r.pc = "loaded" /\ r.session = q.session /\ r.second = q.second /\ r.at = q.at
      /\ r.observed = q.observed /\ r.overloaded = o
  BY <1>8
<1>10. RateBacked(r, traffic)
  BY <1>4, <1>9, Zenon DEF RateBacked
<1>11. RequestOK(r, traffic)
  <2>1. r.pc \in {"rated", "loaded"}
    BY <1>9
  <2>. QED
    BY <1>4, <1>6, <1>7, <1>9, <1>10, <2>1, Zenon DEF RequestOK
<1>12. requests' = [requests EXCEPT ![t] = r] /\ traffic' = traffic
  <2>1. DOMAIN requests = AdmissionThreads
    BY DEF AdmissionInv
  <2>. QED
    BY <1>1, <1>8, <2>1 DEF LoadOverloaded
<1>13. /\ DOMAIN requests' = AdmissionThreads
       /\ \A u \in AdmissionThreads : requests'[u] = Idle \/ RequestOK(requests'[u], traffic')
  BY <1>11, <1>12, ThreadMoves
<1>. QED
  BY <1>12, <1>13 DEF AdmissionInv, LoadOverloaded

LEMMA StoreOverloadedKeeps ==
    ASSUME AdmissionInv, NEW t \in AdmissionThreads, StoreOverloaded(t)
    PROVE  AdmissionInv'
<1>1. PICK q : q = requests[t]
  OBVIOUS
<1>2. RequestOK(q, traffic) /\ q.pc = "loaded"
  <2>1. requests[t].pc = "loaded"
    BY DEF StoreOverloaded
  <2>. QED
    BY <1>1, <2>1, InvTypes
<1>3. q.overloaded \in BOOLEAN /\ q.session \in Askers
  <2>1. q \notin Deciding
    BY <1>2 DEF Deciding
  <2>. QED
    BY <1>2, <2>1, Zenon DEF RequestOK
<1>4. PICK r : r = [pc |-> "stored", session |-> q.session, overloaded |-> q.overloaded,
                    since |-> edge_now]
  OBVIOUS
<1>5. RequestOK(r, traffic)
  <2>1. edge_now \in Nat
    BY InvTypes
  <2>2. r \in Deciding
    BY <1>3, <1>4, <2>1 DEF Deciding
  <2>. QED
    BY <2>2, Zenon DEF RequestOK
<1>6. requests' = [requests EXCEPT ![t] = r] /\ traffic' = traffic
  <2>1. DOMAIN requests = AdmissionThreads
    BY DEF AdmissionInv
  <2>. QED
    BY <1>1, <1>4, <2>1 DEF StoreOverloaded
<1>7. /\ DOMAIN requests' = AdmissionThreads
      /\ \A u \in AdmissionThreads : requests'[u] = Idle \/ RequestOK(requests'[u], traffic')
  BY <1>5, <1>6, ThreadMoves
<1>8. overloaded' \in BOOLEAN
  <2>1. overloaded' = q.overloaded
    BY <1>1 DEF StoreOverloaded
  <2>. QED
    BY <1>3, <2>1, Zenon
<1>9. /\ sessions' = sessions /\ answers' = answers /\ edge_now' = edge_now /\ buckets' = buckets
  BY DEF StoreOverloaded
<1>. QED
  BY <1>6, <1>7, <1>8, <1>9 DEF AdmissionInv

\* The count of the active sessions, which prunes them.
LEMMA CountSessionsKeeps ==
    ASSUME AdmissionInv, NEW t \in AdmissionThreads, NEW e, CountSessions(t, e)
    PROVE  AdmissionInv'
<1>1. requests[t].pc \in {"stored", "counted"} /\ ClockRead(t, e)
  BY DEF CountSessions
<1>2. requests[t] \in Deciding /\ e \in 0 .. edge_now
  BY <1>1, DecidingFacts
<1>3. PICK q, r : q = requests[t] /\ r = [q EXCEPT !.pc = "counted", !.since = edge_now]
  OBVIOUS
<1>4. RequestOK(r, traffic)
  <2>1. edge_now \in Nat
    BY InvTypes
  <2>2. r \in Deciding
    BY <1>2, <1>3, <2>1 DEF Deciding
  <2>. QED
    BY <2>2, Zenon DEF RequestOK
<1>5. requests' = [requests EXCEPT ![t] = r] /\ traffic' = traffic
  <2>1. DOMAIN requests = AdmissionThreads
    BY DEF AdmissionInv
  <2>. QED
    BY <1>3, <2>1 DEF CountSessions
<1>6. /\ DOMAIN requests' = AdmissionThreads
      /\ \A u \in AdmissionThreads : requests'[u] = Idle \/ RequestOK(requests'[u], traffic')
  BY <1>4, <1>5, ThreadMoves
<1>7. SessionsOK(ActiveSessions(e), answers, edge_now)
  BY <1>2, InvTypes
<1>8. /\ sessions' = ActiveSessions(e) /\ answers' = answers /\ edge_now' = edge_now
      /\ buckets' = buckets /\ overloaded' = overloaded
  BY DEF CountSessions
<1>. QED
  BY <1>5, <1>6, <1>7, <1>8 DEF AdmissionInv

LEMMA SnapshotTakenKeeps ==
    ASSUME AdmissionInv, NEW t \in AdmissionThreads, SnapshotTaken(t)
    PROVE  AdmissionInv'
<1>1. PICK r : r = Idle
  OBVIOUS
<1>2. requests' = [requests EXCEPT ![t] = r] /\ traffic' = traffic
  BY <1>1 DEF SnapshotTaken
<1>3. /\ DOMAIN requests' = AdmissionThreads
      /\ \A u \in AdmissionThreads : requests'[u] = Idle \/ RequestOK(requests'[u], traffic')
  BY <1>1, <1>2, ThreadMoves
<1>. QED
  BY <1>2, <1>3 DEF AdmissionInv, SnapshotTaken

\* The decision, over the sessions that are not idle.
LEMMA DecisionKeeps ==
    ASSUME AdmissionInv, NEW t \in AdmissionThreads, NEW e, AdmitPlayback(t, e)
    PROVE  /\ SessionsOK(sessions', answers', edge_now) /\ e \in 0 .. edge_now
           /\ \A s \in DOMAIN answers : answers'[s] = answers[s] \/ answers'[s].served
                                        \/ s \notin DOMAIN ActiveSessions(e)
<1>1. PICK s, act, over : /\ s = requests[t].session /\ act = ActiveSessions(e)
                          /\ over = requests[t].overloaded
  OBVIOUS
<1>2. requests[t].pc \in {"stored", "counted"} /\ ClockRead(t, e)
  BY DEF AdmitPlayback
<1>3. requests[t] \in Deciding /\ e \in 0 .. edge_now
  BY <1>2, DecidingFacts
<1>4. edge_now \in Nat /\ SessionsOK(act, answers, edge_now) /\ s \in Askers
  BY <1>1, <1>3, InvTypes DEF Deciding
<1>5. CASE s = Anonymous
  <2>1. sessions' = sessions /\ answers' = answers
    BY <1>1, <1>5 DEF AdmitPlayback, Answer
  <2>. QED
    BY <1>3, <2>1 DEF AdmissionInv
<1>6. CASE s # Anonymous
  <2>1. PICK answer : answer = Answer(s, act, over)
    OBVIOUS
  <2>2. /\ \/ answer \in {"Anonymous", "Rejected"} /\ sessions' = act
           \/ answer = "Existing" /\ sessions' = [act EXCEPT ![s] = e]
           \/ /\ answer = "Admitted"
              /\ \E room \in MakesRoom(act) : sessions' = With(room, s, e)
        /\ answers' = WithAnswer(s, answer # "Rejected", e)
        /\ s # "snapshot"
    BY <1>1, <1>6, <2>1, Zenon DEF AdmitPlayback
  <2>3. s \in PlaybackSessions
    BY <1>4, <1>6, <2>2 DEF Askers
  <2>4. answer = IF s \in DOMAIN act THEN "Existing" ELSE IF over THEN "Rejected" ELSE "Admitted"
    BY <1>6, <2>1, Zenon DEF Answer
  <2>5. \A z \in DOMAIN answers : z # s => answers'[z] = answers[z]
    BY <2>2 DEF WithAnswer, With
  <2>6. CASE s \in DOMAIN act
    <3>1. answer = "Existing"
      BY <2>4, <2>6
    <3>2. sessions' = [act EXCEPT ![s] = e]
      BY <2>2, <3>1
    <3>3. ServedWith(answers', answers, s, edge_now, e)
      BY <2>2, <3>1 DEF WithAnswer, ServedWith
    <3>4. SessionsOK([act EXCEPT ![s] = e], answers', edge_now)
      BY <1>3, <1>4, <2>6, <3>3, RefreshKeeps
    <3>5. SessionsOK(sessions', answers', edge_now)
      BY <3>2, <3>4, Zenon
    <3>6. answers'[s].served
      BY <3>3 DEF ServedWith, With
    <3>. QED
      BY <1>3, <2>5, <3>5, <3>6
  <2>7. CASE s \notin DOMAIN act /\ over
    <3>1. answer = "Rejected"
      BY <2>4, <2>7
    <3>2. sessions' = act
      BY <2>2, <3>1
    <3>3. RefusedWith(answers', answers, s)
      BY <2>2, <3>1 DEF WithAnswer, RefusedWith
    <3>4. SessionsOK(sessions', answers', edge_now)
      BY <1>4, <2>7, <3>2, <3>3, RejectKeeps
    <3>. QED
      BY <1>1, <1>3, <2>5, <2>7, <3>4
  <2>8. CASE s \notin DOMAIN act /\ ~over
    <3>1. answer = "Admitted"
      BY <2>4, <2>8
    <3>2. PICK room \in MakesRoom(act) : sessions' = With(room, s, e)
      BY <2>2, <3>1
    <3>3. ServedWith(answers', answers, s, edge_now, e)
      BY <2>2, <3>1 DEF WithAnswer, ServedWith
    <3>4. SessionsOK(With(room, s, e), answers', edge_now)
      BY <1>3, <1>4, <2>3, <2>8, <3>3, AdmitKeeps
    <3>5. SessionsOK(sessions', answers', edge_now)
      BY <3>2, <3>4, Zenon
    <3>. QED
      BY <1>1, <1>3, <2>5, <2>8, <3>5
  <2>. QED
    BY <2>6, <2>7, <2>8
<1>. QED
  BY <1>5, <1>6

LEMMA AdmitPlaybackKeeps ==
    ASSUME AdmissionInv, NEW t \in AdmissionThreads, NEW e, AdmitPlayback(t, e)
    PROVE  AdmissionInv'
<1>1. PICK r : r = Idle
  OBVIOUS
<1>2. requests' = [requests EXCEPT ![t] = r] /\ traffic' = traffic
  BY <1>1 DEF AdmitPlayback, Idle
<1>3. /\ DOMAIN requests' = AdmissionThreads
      /\ \A u \in AdmissionThreads : requests'[u] = Idle \/ RequestOK(requests'[u], traffic')
  BY <1>1, <1>2, ThreadMoves
<1>4. SessionsOK(sessions', answers', edge_now)
  BY DecisionKeeps
<1>5. edge_now' = edge_now /\ buckets' = buckets /\ overloaded' = overloaded
  BY DEF AdmitPlayback
<1>. QED
  BY <1>2, <1>3, <1>4, <1>5 DEF AdmissionInv

\* The clock: what was backed until now is backed in the next second.
LEMMA ElapseKeeps ==
    ASSUME AdmissionInv, AdmissionElapse
    PROVE  AdmissionInv'
<1>1. PICK n, m, L : n = edge_now /\ m = edge_now + 1 /\ L = AdmissionTimeLimit
  OBVIOUS
<1>2. n \in Nat /\ L \in Nat /\ n \in 0 .. L /\ edge_now' = m /\ m \in 0 .. L /\ m = n + 1
  BY <1>1, InvTypes DEF AdmissionElapse
<1>3. /\ buckets' = buckets /\ traffic' = traffic /\ requests' = requests
      /\ overloaded' = overloaded /\ sessions' = sessions /\ answers' = answers
  BY DEF AdmissionElapse
<1>4. \A x \in 0 .. n : x \in 0 .. m
  BY <1>2
<1>5. buckets \in Seq(Buckets(m))
  <2>1. buckets \in Seq(Buckets(n))
    BY <1>1 DEF AdmissionInv
  <2>2. \A b \in Buckets(n) : b \in Buckets(m)
    BY <1>4 DEF Buckets
  <2>. QED
    BY <2>1, <2>2
<1>6. SuffixBacked(buckets, traffic, m)
  <2>1. ASSUME NEW k \in 1 .. Len(buckets)
        PROVE  BytesIn(From(buckets, k)) <= SumFunctionOnSet(traffic, buckets[k].second .. m)
    <3>1. buckets \in Seq(Buckets(n)) /\ traffic \in [0 .. L -> Nat]
      BY <1>1 DEF AdmissionInv
    <3>2. PICK a, t, A, B : /\ a = BytesIn(From(buckets, k)) /\ t = buckets[k].second
                            /\ A = t .. n /\ B = t .. m
      OBVIOUS
    <3>3. t \in 0 .. n
      <4>1. buckets[k] \in Buckets(n)
        BY <3>1, EntryOf
      <4>. QED
        BY <3>2, <4>1 DEF Buckets
    <3>4. a <= SumFunctionOnSet(traffic, A)
      BY <1>1, <3>2 DEF AdmissionInv, SuffixBacked
    <3>5. a \in Nat
      <4>1. From(buckets, k) \in Seq([second : 0 .. n, bytes : Nat])
        BY <3>1, FromEntries DEF Buckets
      <4>. QED
        BY <3>2, <4>1, BytesAreNat
    <3>6. B \in SUBSET (0 .. L) /\ A \in SUBSET B
      BY <1>2, <3>2, <3>3
    <3>7. IsFiniteSet(B) /\ NatOn(traffic, B)
      <4>1. IsFiniteSet(0 .. L)
        BY <1>2, FS_Interval
      <4>. QED
        BY <3>1, <3>6, <4>1, FS_Subset DEF NatOn
    <3>8. PICK x, y : x = SumFunctionOnSet(traffic, A) /\ y = SumFunctionOnSet(traffic, B)
      OBVIOUS
    <3>9. x <= y /\ x \in Nat /\ y \in Nat
      BY <3>6, <3>7, <3>8, SumPart
    <3>10. a <= y
      BY <3>4, <3>5, <3>8, <3>9
    <3>. QED
      BY <3>2, <3>8, <3>10
  <2>. QED
    BY <2>1 DEF SuffixBacked
<1>7. SessionsOK(sessions, answers, m)
  BY <1>1, <1>2, TickKeeps DEF AdmissionInv
<1>. QED
  BY <1>1, <1>2, <1>3, <1>5, <1>6, <1>7 DEF AdmissionInv

LEMMA AdmissionInitOK == AdmissionInit => AdmissionInv
<1>. SUFFICES ASSUME AdmissionInit PROVE AdmissionInv
  OBVIOUS
<1>1. DOMAIN sessions = {} /\ DOMAIN answers = {}
  BY DEF AdmissionInit, EmptyMap
<1>2. SessionsOK(sessions, answers, 0)
  <2>1. IsFiniteSet({}) /\ Cardinality({}) = 0 /\ SessionLimit \in Nat
    BY FS_EmptySet, Normalized
  <2>2. SeenOK(sessions, answers, 0)
    BY <1>1, <2>1 DEF SeenOK
  <2>3. AnswersOK(answers, 0)
    BY <1>1, <2>1 DEF AnswersOK
  <2>4. StillThere(sessions, answers, 0)
    BY <1>1 DEF StillThere
  <2>. QED
    BY <2>2, <2>3, <2>4 DEF SessionsOK
<1>3. buckets \in Seq(Buckets(0)) /\ SuffixBacked(buckets, traffic, 0)
  BY DEF AdmissionInit, SuffixBacked
<1>4. AdmissionTimeLimit \in Nat
  BY Normalized
<1>5. traffic \in [0 .. AdmissionTimeLimit -> Nat] /\ edge_now = 0
  BY <1>4 DEF AdmissionInit
<1>6. overloaded \in BOOLEAN
  BY DEF AdmissionInit
<1>7. DOMAIN requests = AdmissionThreads /\ \A t \in AdmissionThreads : requests[t] = Idle
  BY DEF AdmissionInit
<1>. QED
  BY <1>2, <1>3, <1>4, <1>5, <1>6, <1>7 DEF AdmissionInv

LEMMA AdmissionStep ==
    ASSUME AdmissionInv, [AdmissionNext]_admissionVars
    PROVE  AdmissionInv'
<1>1. CASE UNCHANGED admissionVars
  BY <1>1 DEF AdmissionInv, admissionVars
<1>2. ASSUME NEW second \in 0 .. AdmissionTimeLimit, RecordBytes(second)
      PROVE  AdmissionInv'
  BY <1>2, RecordBytesKeeps
<1>3. ASSUME NEW t \in AdmissionThreads, NEW s \in Askers,
             NEW second \in 0 .. AdmissionTimeLimit, ReadRate(t, s, second)
      PROVE  AdmissionInv'
  BY <1>3, ReadRateKeeps
<1>4. ASSUME NEW t \in AdmissionThreads, LoadOverloaded(t)
      PROVE  AdmissionInv'
  BY <1>4, LoadOverloadedKeeps
<1>5. ASSUME NEW t \in AdmissionThreads, StoreOverloaded(t)
      PROVE  AdmissionInv'
  BY <1>5, StoreOverloadedKeeps
<1>6. ASSUME NEW t \in AdmissionThreads, NEW e, CountSessions(t, e)
      PROVE  AdmissionInv'
  BY <1>6, CountSessionsKeeps
<1>7. ASSUME NEW t \in AdmissionThreads, SnapshotTaken(t)
      PROVE  AdmissionInv'
  BY <1>7, SnapshotTakenKeeps
<1>8. ASSUME NEW t \in AdmissionThreads, NEW e, AdmitPlayback(t, e)
      PROVE  AdmissionInv'
  BY <1>8, AdmitPlaybackKeeps
<1>9. CASE AdmissionElapse
  BY <1>9, ElapseKeeps
<1>. QED
  BY <1>1, <1>2, <1>3, <1>4, <1>5, <1>6, <1>7, <1>8, <1>9 DEF AdmissionNext, Askers

\* The inductive invariant of playback admission, with every clock read before
\* the lock it is used under: every suffix of the window is backed by traffic,
\* every rate a request holds is backed by the traffic from the start of its
\* window until it was read, and a session that was served is there until it
\* idles or has as many rivals as there is room for (edge_admission.rs:123-310).
THEOREM AdmissionInvariant == AdmissionSpec => []AdmissionInv
<1>1. AdmissionInit => AdmissionInv
  BY AdmissionInitOK
<1>2. AdmissionInv /\ [AdmissionNext]_admissionVars => AdmissionInv'
  BY AdmissionStep
<1>. QED
  BY <1>1, <1>2, PTL DEF AdmissionSpec

LEMMA AdmissionInvSound ==
    ASSUME AdmissionInv
    PROVE  AdmissionSound
<1>1. ASSUME NEW t \in AdmissionThreads
      PROVE  requests[t].pc \in {"idle", "rated", "loaded", "stored", "counted"}
  <2>1. CASE requests[t] = Idle
    BY <2>1 DEF Idle
  <2>2. CASE requests[t] # Idle
    <3>1. RequestOK(requests[t], traffic)
      BY <2>2 DEF AdmissionInv
    <3>2. CASE requests[t] \in Deciding
      BY <3>2 DEF Deciding
    <3>3. CASE requests[t].pc \in {"rated", "loaded"}
      BY <3>3
    <3>. QED
      BY <3>1, <3>2, <3>3, Zenon DEF RequestOK
  <2>. QED
    BY <2>1, <2>2
<1>2. ASSUME NEW i \in DOMAIN buckets
      PROVE  buckets[i].second \in 0 .. edge_now /\ buckets[i].bytes \in Nat
  <2>1. buckets \in Seq(Buckets(edge_now))
    BY DEF AdmissionInv
  <2>2. i \in 1 .. Len(buckets)
    BY <2>1
  <2>3. buckets[i] \in Buckets(edge_now)
    BY <2>1, <2>2, EntryOf
  <2>. QED
    BY <2>3 DEF Buckets
<1>3. AdmissionTypeOK
  BY <1>1, <1>2 DEF AdmissionTypeOK, AdmissionInv, SessionsOK, SeenOK
<1>4. ASSUME NEW t \in AdmissionThreads, requests[t].pc = "loaded", requests[t].overloaded
      PROVE  8 * SumFunctionOnSet(traffic, WindowOf(requests[t].second, requests[t].at))
                >= RecoveryBps * requests[t].observed.seconds
  <2>1. PICK r, W : r = requests[t] /\ W = WindowOf(r.second, r.at)
    OBVIOUS
  <2>2. RequestOK(r, traffic)
    <3>1. requests[t].pc # "idle"
      BY <1>4
    <3>. QED
      BY <2>1, <3>1, InvTypes
  <2>3. r \notin Deciding
    BY <1>4, <2>1 DEF Deciding
  <2>4. r.observed.bps >= RecoveryBps /\ RateBacked(r, traffic)
    BY <1>4, <2>1, <2>2, <2>3, Zenon DEF RequestOK
  <2>5. PICK b, s, R, total : /\ b = r.observed.bps /\ s = r.observed.seconds /\ R = RecoveryBps
                              /\ total = SumFunctionOnSet(traffic, WindowOf(r.second, r.at))
    OBVIOUS
  <2>6. b \in Nat /\ s \in Nat /\ R \in Nat /\ b >= R /\ b * s <= 8 * total
    BY <2>4, <2>5, Normalized DEF RateBacked
  <2>7. total \in Nat
    <3>1. AdmissionTimeLimit \in Nat
      BY InvTypes
    <3>2. W \in SUBSET (0 .. AdmissionTimeLimit)
      BY <2>1, <2>4, <3>1 DEF RateBacked, WindowOf
    <3>3. IsFiniteSet(0 .. AdmissionTimeLimit)
      BY <3>1, FS_Interval
    <3>4. IsFiniteSet(W) /\ NatOn(traffic, W)
      BY <3>2, <3>3, FS_Subset DEF AdmissionInv, NatOn
    <3>. QED
      BY <2>1, <2>5, <3>4, SumPart
  <2>8. PICK x, y : x = b * s /\ y = R * s
    OBVIOUS
  <2>9. y <= x /\ y \in Nat /\ x \in Nat
    BY <2>6, <2>8, TimesMonotone
  <2>10. 8 * total >= y
    BY <2>6, <2>7, <2>8, <2>9
  <2>. QED
    BY <2>1, <2>5, <2>8, <2>10
<1>5. OverloadIsBacked
  BY <1>4 DEF OverloadIsBacked, WindowOf
<1>. QED
  BY <1>3, <1>5 DEF AdmissionSound

\* AdmissionSound for every configuration, any number of sessions, requests and
\* responses in progress: whatever two requests do to the shared flag between a
\* load and a store, nobody is found overloaded unless the traffic from the start
\* of the request's own window until it read the rate reached the recovery rate
\* over the seconds it observed (edge_admission.rs:152-170, 262-305).
THEOREM AdmissionCorrect == AdmissionSpec => []AdmissionSound
<1>1. AdmissionInv => AdmissionSound
  BY AdmissionInvSound
<1>. QED
  BY <1>1, AdmissionInvariant, PTL

\* The step behind ServedStaysServed.
LEMMA ServedStep ==
    ASSUME AdmissionInv, [AdmissionNext]_admissionVars, answers' # answers,
           NEW s \in DOMAIN answers, answers[s].served,
           edge_now - answers[s].seen < IdleSeconds, ~answers'[s].served
    PROVE  Cardinality(Rivals(answers, s)) >= SessionLimit
<1>1. PICK t \in AdmissionThreads : \E e \in 0 .. AdmissionTimeLimit : AdmitPlayback(t, e)
  BY DEF AdmissionNext, admissionVars, RecordBytes, ReadRate, LoadOverloaded,
         StoreOverloaded, CountSessions, SnapshotTaken, AdmissionElapse
<1>2. PICK e : AdmitPlayback(t, e)
  BY <1>1
<1>3. s \notin DOMAIN ActiveSessions(e) /\ e \in 0 .. edge_now
  BY <1>2, DecisionKeeps
<1>4. SessionsOK(ActiveSessions(e), answers, edge_now)
  BY <1>3, InvTypes
<1>. QED
  BY <1>3, <1>4 DEF SessionsOK, StillThere

\* A session the edge serves is turned away, before it idles, only if as many as
\* there is room for were served after it or by a clock no earlier: overload alone
\* refuses newcomers (edge_admission.rs:190-216, 307-310).
THEOREM SessionsAreKept == AdmissionSpec => ServedStaysServed
<1>1. AdmissionInv /\ [AdmissionNext]_admissionVars =>
        [\A s \in DOMAIN answers :
            /\ answers[s].served /\ edge_now - answers[s].seen < IdleSeconds
            /\ ~answers'[s].served
            => Cardinality({o \in DOMAIN answers \ {s} :
                   \/ answers[o].at >= answers[s].at
                   \/ answers[o].seen >= answers[s].seen}) >= SessionLimit]_answers
  BY ServedStep DEF Rivals
<1>. QED
  BY <1>1, AdmissionInvariant, PTL DEF AdmissionSpec, ServedStaysServed

(***************************************************************************)
(* The fleet of edges.                                                     *)
(***************************************************************************)
FleetEdge == [up : BOOLEAN, draining : BOOLEAN, readers : {load.readers : load \in Loads} \cup {0},
              overloaded : BOOLEAN, responded : -1 .. FleetTimeLimit]

NodeSnapshot == [responded : -1 .. FleetTimeLimit,
                 readers : {load.readers : load \in Loads} \cup {0},
                 overloaded : BOOLEAN, draining : BOOLEAN, updated : 0 .. FleetTimeLimit]

\* A view of the other nodes.
ViewOK(e, view) ==
    DOMAIN view \subseteq Edges \ {e} /\ \A o \in DOMAIN view : view[o] \in NodeSnapshot

ViewsOK ==
    /\ DOMAIN views = Edges /\ views = [e \in Edges |-> views[e]]
    /\ \A e \in Edges : ViewOK(e, views[e])

PlannersOK ==
    planners \in [Edges -> [Regions -> [last : -Cooldown .. FleetTimeLimit, samples : 0 .. 2]]]

\* The node is one the request means.
Meant(request, e) ==
    \/ request.node = e
    \/ request.node = NoNode /\ request.region \in {NoRegion, RegionOf[e]}

\* A command as it was issued, and every node it was resolved to is meant.
IssueOf(c) == [id |-> c.id, request |-> c.request, targets |-> c.targets]

IssuedOK ==
    /\ IsFiniteSet(issued)
    /\ \A c \in issued :
          /\ c.id \in 1 .. Cardinality(issued)
          /\ \A e \in c.targets : Meant(c.request, e)
    /\ \A c, d \in issued : c.id = d.id => c = d

\* Commands have numbers of their own, and nobody has created an instance for one
\* the provisioner has still to run for.
CommandsOK ==
    /\ \A c \in executing :
          /\ c \in [id : Nat, origin : Edges, request : {c.request}, targets : {c.targets},
                    planned : BOOLEAN, step : {"provision", "publish"}]
          /\ IssueOf(c) \in issued
          /\ c.step = "provision" => \A x \in created : x[1] # c.id
    /\ \A c, d \in executing : c.id = d.id => c = d

EnvelopesOK == \A m \in envelopes : IssueOf(m.envelope) \in issued

\* A node drains only because some command meant it.
DrainsOK ==
    \A e \in Edges : fleet[e].draining =>
        \E c \in issued : c.request.kind = "CloseNode" /\ Meant(c.request, e)

CreatedOK ==
    /\ \A x, y \in created : x[1] = y[1] => x = y
    /\ \A x \in created : \E c \in issued : c.id = x[1] /\ c.request.kind = "ProvisionNode"

\* The inductive invariant of the fleet.
FleetInv ==
    /\ fleet \in [Edges -> FleetEdge] /\ fleet_now \in 0 .. FleetTimeLimit
    /\ ViewsOK /\ PlannersOK /\ IssuedOK /\ CommandsOK /\ EnvelopesOK /\ DrainsOK /\ CreatedOK

-----------------------------------------------------------------------------
LEMMA FleetLimits ==
    /\ FleetTimeLimit \in Nat /\ Cooldown \in Nat /\ Cooldown >= 1 /\ MinEdges \in Nat
    /\ MinEdges >= 1
<1>1. ConfiguredMin \in Nat /\ ConfiguredCooldown \in Nat /\ FleetTimeLimit \in Nat
  BY FleetAssumption
<1>2. /\ Max({ConfiguredMin, 1}) = IF ConfiguredMin >= 1 THEN ConfiguredMin ELSE 1
      /\ Max({ConfiguredCooldown, 1}) = IF ConfiguredCooldown >= 1 THEN ConfiguredCooldown ELSE 1
  BY <1>1, MaxOfTwo
<1>. QED
  BY <1>1, <1>2 DEF MinEdges, Cooldown

LEMMA LocalSnapshotType ==
    ASSUME FleetInv, NEW e \in Edges
    PROVE  LocalSnapshot(e) \in NodeSnapshot /\ LocalSnapshot(e).draining = fleet[e].draining
<1>1. fleet[e] \in FleetEdge /\ fleet_now \in 0 .. FleetTimeLimit
  BY DEF FleetInv
<1>. QED
  BY <1>1 DEF LocalSnapshot, EdgeService, FleetEdge, NodeSnapshot

LEMMA FreshFacts ==
    ASSUME FleetInv, NEW e \in Edges
    PROVE  /\ DOMAIN Fresh(e) \subseteq DOMAIN views[e]
           /\ \A o \in DOMAIN Fresh(e) : Fresh(e)[o] = views[e][o]
           /\ ViewOK(e, Fresh(e))
<1>1. ViewOK(e, views[e])
  BY DEF FleetInv, ViewsOK
<1>2. /\ DOMAIN Fresh(e) \subseteq DOMAIN views[e]
      /\ \A o \in DOMAIN Fresh(e) : Fresh(e)[o] = views[e][o]
  BY DEF Fresh, Retain
<1>. QED
  BY <1>1, <1>2 DEF ViewOK

\* What the planner plans on: the fresh part of the view, and the node itself.
LEMMA WithLocalFacts ==
    ASSUME FleetInv, NEW e \in Edges
    PROVE  /\ DOMAIN WithLocal(e) = DOMAIN Fresh(e) \cup {e}
           /\ \A o \in DOMAIN Fresh(e) : WithLocal(e)[o] = views[e][o]
           /\ WithLocal(e)[e] = LocalSnapshot(e)
           /\ DOMAIN WithLocal(e) \subseteq Edges
<1>1. PICK f, s : f = Fresh(e) /\ s = LocalSnapshot(e)
  OBVIOUS
<1>2. WithLocal(e) = With(f, e, s)
  BY <1>1 DEF WithLocal
<1>3. DOMAIN f \subseteq Edges \ {e} /\ \A o \in DOMAIN f : f[o] = views[e][o]
  BY <1>1, FreshFacts DEF ViewOK
<1>4. /\ DOMAIN With(f, e, s) = DOMAIN f \cup {e} /\ With(f, e, s)[e] = s
      /\ \A o \in DOMAIN f : o # e => With(f, e, s)[o] = f[o]
  BY DEF With
<1>. QED
  BY <1>1, <1>2, <1>3, <1>4

\* A view stays one when it takes a snapshot of another node or loses some.
LEMMA ViewsKeep ==
    ASSUME FleetInv, NEW e \in Edges, NEW view, ViewOK(e, view),
           views' = [views EXCEPT ![e] = view]
    PROVE  ViewsOK'
<1>1. /\ DOMAIN views = Edges /\ \A o \in Edges : ViewOK(o, views[o])
  BY DEF FleetInv, ViewsOK
<1>2. DOMAIN views' = Edges /\ views' = [o \in Edges |-> views'[o]]
  BY <1>1
<1>3. \A o \in Edges : ViewOK(o, views'[o])
  BY <1>1
<1>. QED
  BY <1>2, <1>3 DEF ViewsOK

LEMMA IngestSnapshotKeeps ==
    ASSUME FleetInv, NEW from, NEW to, IngestSnapshot(from, to)
    PROVE  FleetInv'
<1>1. /\ <<from, to>> \in TelemetryPaths
      /\ views' = [views EXCEPT ![to] = With(views[to], from, LocalSnapshot(from))]
      /\ UNCHANGED <<fleet, planners, executing, envelopes, fleet_now, issued, created>>
  BY DEF IngestSnapshot, FleetInv, ViewsOK
<1>2. from \in Edges /\ to \in Edges /\ from # to
  BY <1>1, FleetAssumption
<1>3. PICK view, s : view = With(views[to], from, s) /\ s = LocalSnapshot(from)
  OBVIOUS
<1>4. s \in NodeSnapshot /\ ViewOK(to, views[to])
  BY <1>2, <1>3, LocalSnapshotType DEF FleetInv, ViewsOK
<1>5. ViewOK(to, view)
  BY <1>2, <1>3, <1>4 DEF ViewOK, With
<1>6. ViewsOK'
  BY <1>1, <1>2, <1>3, <1>5, ViewsKeep
<1>. QED
  BY <1>1, <1>6 DEF FleetInv, PlannersOK, IssuedOK, CommandsOK, EnvelopesOK, DrainsOK, CreatedOK

\* The targets a command resolves to are meant.
LEMMA TargetsMeant ==
    ASSUME FleetInv, NEW e \in Edges, NEW request
    PROVE  \A o \in SelectedTargets(e, request) : Meant(request, o)
<1>. SUFFICES ASSUME NEW o \in SelectedTargets(e, request)
              PROVE  Meant(request, o)
  OBVIOUS
<1>1. CASE request.node # NoNode
  BY <1>1 DEF SelectedTargets, Meant
<1>2. CASE request.node = NoNode
  <2>1. o \in InRegion(WithLocal(e), request.region)
    BY <1>2 DEF SelectedTargets
  <2>2. RegionOf[o] = request.region
    BY <2>1 DEF InRegion
  <2>. QED
    BY <1>2, <2>2 DEF Meant
<1>. QED
  BY <1>1, <1>2

\* Where a command is applied it is meant.
LEMMA LocalIsMeant ==
    ASSUME NEW e \in Edges, NEW request, NEW targets, \A o \in targets : Meant(request, o),
           TargetsLocal(e, request, targets)
    PROVE  Meant(request, e)
  BY DEF TargetsLocal, Meant

\* A command that is applied drains only a node it means.
LEMMA DrainedKeeps ==
    ASSUME FleetInv, NEW e \in Edges, NEW c, c \in issued', \A o \in c.targets : Meant(c.request, o),
           issued \subseteq issued', fleet' = Drained(fleet, e, c.request, c.targets)
    PROVE  fleet' \in [Edges -> FleetEdge] /\ DrainsOK'
<1>1. fleet \in [Edges -> FleetEdge] /\ DrainsOK
  BY DEF FleetInv
<1>2. CASE c.request.kind = "CloseNode" /\ TargetsLocal(e, c.request, c.targets)
  <2>1. fleet' = [fleet EXCEPT ![e].draining = TRUE]
    BY <1>2 DEF Drained
  <2>2. Meant(c.request, e)
    BY <1>2, LocalIsMeant
  <2>3. fleet' \in [Edges -> FleetEdge]
    BY <1>1, <2>1 DEF FleetEdge
  <2>4. \A o \in Edges : o # e => fleet'[o] = fleet[o]
    BY <1>1, <2>1
  <2>5. ASSUME NEW o \in Edges, fleet'[o].draining
        PROVE  \E d \in issued' : d.request.kind = "CloseNode" /\ Meant(d.request, o)
    <3>1. CASE o = e
      BY <1>2, <2>2, <3>1
    <3>2. CASE o # e
      BY <1>1, <2>4, <2>5, <3>2 DEF DrainsOK
    <3>. QED
      BY <3>1, <3>2
  <2>6. DrainsOK'
    BY <2>5 DEF DrainsOK, Meant
  <2>. QED
    BY <2>3, <2>6
<1>3. CASE ~(c.request.kind = "CloseNode" /\ TargetsLocal(e, c.request, c.targets))
  <2>1. fleet' = fleet
    BY <1>3 DEF Drained
  <2>2. DrainsOK'
    BY <1>1, <2>1 DEF DrainsOK, Meant
  <2>. QED
    BY <1>1, <2>1, <2>2
<1>. QED
  BY <1>2, <1>3

\* A command is issued.
LEMMA BeginKeeps ==
    ASSUME FleetInv, NEW e \in Edges, NEW request, NEW planned \in BOOLEAN,
           Begin(e, request, planned), UNCHANGED <<envelopes, fleet_now, created>>
    PROVE  /\ fleet' \in [Edges -> FleetEdge] /\ DrainsOK' /\ IssuedOK' /\ CommandsOK'
           /\ EnvelopesOK' /\ CreatedOK'
<1>1. PICK c, n, targets :
         /\ n = Cardinality(issued) /\ targets = SelectedTargets(e, request)
         /\ c = [id |-> n + 1, origin |-> e, request |-> request, targets |-> targets,
                 planned |-> planned, step |-> "provision"]
  OBVIOUS
<1>2. /\ executing' = executing \cup {c} /\ fleet' = Drained(fleet, e, request, targets)
      /\ issued' = issued \cup {IssueOf(c)}
  BY <1>1 DEF Begin, IssueOf
<1>3. PICK i : i = IssueOf(c)
  OBVIOUS
<1>4. i.id = n + 1 /\ i.request = request /\ i.targets = targets /\ c.id = n + 1 /\ c.origin = e
  BY <1>1, <1>3 DEF IssueOf
<1>5. /\ IsFiniteSet(issued) /\ n \in Nat
      /\ \A d \in issued : d.id \in 1 .. n /\ \A o \in d.targets : Meant(d.request, o)
      /\ \A d, f \in issued : d.id = f.id => d = f
  BY <1>1, FS_CardinalityType DEF FleetInv, IssuedOK
<1>6. i \notin issued
  BY <1>4, <1>5
<1>7. IsFiniteSet(issued') /\ Cardinality(issued') = n + 1
  BY <1>1, <1>2, <1>3, <1>5, <1>6, FS_AddElement
<1>8. \A o \in i.targets : Meant(i.request, o)
  BY <1>1, <1>4, TargetsMeant
<1>9. IssuedOK'
  <2>1. \A d \in issued' : d.id \in 1 .. (n + 1) /\ \A o \in d.targets : Meant(d.request, o)
    BY <1>2, <1>3, <1>4, <1>5, <1>8
  <2>2. \A d, f \in issued' : d.id = f.id => d = f
    BY <1>2, <1>3, <1>4, <1>5
  <2>. QED
    BY <1>7, <2>1, <2>2 DEF IssuedOK, Meant
<1>10. fleet' \in [Edges -> FleetEdge] /\ DrainsOK'
  BY <1>2, <1>3, <1>4, <1>8, DrainedKeeps
<1>11. \A x \in created : x[1] # n + 1
  BY <1>5 DEF FleetInv, CreatedOK
<1>12. /\ \A d \in executing :
             /\ d \in [id : Nat, origin : Edges, request : {d.request}, targets : {d.targets},
                       planned : BOOLEAN, step : {"provision", "publish"}]
             /\ IssueOf(d) \in issued
             /\ d.step = "provision" => \A x \in created : x[1] # d.id
       /\ \A d, f \in executing : d.id = f.id => d = f
  BY DEF FleetInv, CommandsOK
<1>13. \A d \in executing : d.id # n + 1
  <2>1. \A d \in executing : IssueOf(d) \in issued /\ IssueOf(d).id = d.id
    BY <1>12 DEF IssueOf
  <2>. QED
    BY <1>5, <2>1
<1>14. CommandsOK'
  <2>1. c \in [id : Nat, origin : Edges, request : {c.request}, targets : {c.targets},
               planned : BOOLEAN, step : {"provision", "publish"}]
    BY <1>1, <1>5
  <2>2. IssueOf(c) \in issued' /\ \A x \in created' : x[1] # c.id
    BY <1>2, <1>4, <1>11
  <2>3. ASSUME NEW d \in executing'
        PROVE  /\ d \in [id : Nat, origin : Edges, request : {d.request}, targets : {d.targets},
                         planned : BOOLEAN, step : {"provision", "publish"}]
               /\ IssueOf(d) \in issued'
               /\ d.step = "provision" => \A x \in created' : x[1] # d.id
    <3>1. CASE d = c
      BY <2>1, <2>2, <3>1
    <3>2. CASE d \in executing
      BY <1>2, <1>12, <3>2
    <3>. QED
      BY <1>2, <3>1, <3>2
  <2>4. \A d, f \in executing' : d.id = f.id => d = f
    BY <1>2, <1>4, <1>12, <1>13
  <2>. QED
    BY <2>3, <2>4 DEF CommandsOK
<1>15. EnvelopesOK'
  BY <1>2 DEF FleetInv, EnvelopesOK
<1>16. CreatedOK'
  BY <1>2 DEF FleetInv, CreatedOK
<1>. QED
  BY <1>9, <1>10, <1>14, <1>15, <1>16

LEMMA OperatorControlKeeps ==
    ASSUME FleetInv, NEW e \in Edges, NEW request, OperatorControl(e, request)
    PROVE  FleetInv'
<1>1. /\ Begin(e, request, FALSE)
      /\ UNCHANGED <<planners, envelopes, fleet_now, created>>
  BY DEF OperatorControl
<1>2. /\ fleet' \in [Edges -> FleetEdge] /\ DrainsOK' /\ IssuedOK' /\ CommandsOK'
      /\ EnvelopesOK' /\ CreatedOK'
  BY <1>1, BeginKeeps
<1>3. PICK view \in {Fresh(e), views[e]} : views' = [views EXCEPT ![e] = view]
  BY DEF OperatorControl
<1>4. ViewOK(e, view)
  BY <1>3, FreshFacts DEF FleetInv, ViewsOK
<1>5. ViewsOK'
  BY <1>3, <1>4, ViewsKeep
<1>6. PlannersOK' /\ fleet_now' \in 0 .. FleetTimeLimit
  BY <1>1 DEF FleetInv, PlannersOK
<1>. QED
  BY <1>2, <1>5, <1>6 DEF FleetInv

\* The planner's memory after a plan.
LEMMA PlannedType ==
    ASSUME FleetInv, NEW e \in Edges, NEW nodes
    PROVE  Planned(e, planners[e], nodes)
             \in [Regions -> [last : -Cooldown .. FleetTimeLimit, samples : 0 .. 2]]
<1>1. PICK p : p = planners[e]
  OBVIOUS
<1>2. p \in [Regions -> [last : -Cooldown .. FleetTimeLimit, samples : 0 .. 2]]
  BY <1>1 DEF FleetInv, PlannersOK
<1>3. ASSUME NEW r \in Regions
      PROVE  Samples(p, nodes, r) \in 0 .. 2
  <2>1. PICK n : n = p[r].samples + 1
    OBVIOUS
  <2>2. n \in 1 .. 3
    BY <1>2, <2>1
  <2>3. Min({n, 2}) = IF n <= 2 THEN n ELSE 2
    BY <2>2, MinOfTwo
  <2>4. Min({n, 2}) \in 0 .. 2
    BY <2>2, <2>3
  <2>. QED
    BY <2>1, <2>4 DEF Samples
<1>4. fleet_now \in -Cooldown .. FleetTimeLimit
  BY FleetLimits DEF FleetInv
<1>5. ASSUME NEW r \in Regions
      PROVE  Planned(e, p, nodes)[r] \in [last : -Cooldown .. FleetTimeLimit, samples : 0 .. 2]
  <2>1. CASE InRegion(nodes, r) = {}
    BY <1>2, <2>1 DEF Planned
  <2>2. CASE InRegion(nodes, r) # {}
    <3>1. PICK l : l = IF Provisions(e, p, nodes, r) THEN fleet_now ELSE p[r].last
      OBVIOUS
    <3>2. l \in -Cooldown .. FleetTimeLimit
      BY <1>2, <1>4, <3>1
    <3>3. Planned(e, p, nodes)[r] = [last |-> l, samples |-> Samples(p, nodes, r)]
      BY <2>2, <3>1 DEF Planned
    <3>. QED
      BY <1>3, <3>2, <3>3
  <2>. QED
    BY <2>1, <2>2
<1>6. Planned(e, p, nodes) = [r \in Regions |-> Planned(e, p, nodes)[r]]
  BY DEF Planned
<1>. QED
  BY <1>1, <1>5, <1>6

LEMMA RunEdgeLifecycleKeeps ==
    ASSUME FleetInv, NEW e \in Edges, RunEdgeLifecycle(e)
    PROVE  FleetInv'
<1>1. PICK nodes, plan : nodes = WithLocal(e) /\ plan = PlannedRequests(e, planners[e], nodes)
  OBVIOUS
<1>2. /\ views' = [views EXCEPT ![e] = Fresh(e)]
      /\ planners' = [planners EXCEPT ![e] = Planned(e, planners[e], nodes)]
      /\ IF plan = {} THEN UNCHANGED <<executing, fleet, issued>>
         ELSE \E request \in plan : Begin(e, request, TRUE)
      /\ UNCHANGED <<envelopes, fleet_now, created>>
  BY <1>1 DEF RunEdgeLifecycle
<1>3. ViewsOK'
  BY <1>2, FreshFacts, ViewsKeep
<1>4. PlannersOK'
  <2>1. PICK p : p = Planned(e, planners[e], nodes)
    OBVIOUS
  <2>2. p \in [Regions -> [last : -Cooldown .. FleetTimeLimit, samples : 0 .. 2]]
    BY <2>1, PlannedType
  <2>. QED
    BY <1>2, <2>1, <2>2 DEF FleetInv, PlannersOK
<1>5. /\ fleet' \in [Edges -> FleetEdge] /\ DrainsOK' /\ IssuedOK' /\ CommandsOK'
      /\ EnvelopesOK' /\ CreatedOK'
  <2>1. CASE plan = {}
    BY <1>2, <2>1 DEF FleetInv, DrainsOK, IssuedOK, CommandsOK, EnvelopesOK, CreatedOK
  <2>2. CASE plan # {}
    <3>1. PICK request : Begin(e, request, TRUE)
      BY <1>2, <2>2
    <3>. QED
      BY <1>2, <3>1, BeginKeeps
  <2>. QED
    BY <2>1, <2>2
<1>6. fleet_now' \in 0 .. FleetTimeLimit
  BY <1>2 DEF FleetInv
<1>. QED
  BY <1>3, <1>4, <1>5, <1>6 DEF FleetInv

\* The provisioner starts or stops at most one node, and drains none.
LEMMA ProvisionerKeeps ==
    ASSUME FleetInv, NEW c, ProvisionRun(c) \/ ProvisionClose(c) \/ fleet' = fleet,
           issued' = issued
    PROVE  fleet' \in [Edges -> FleetEdge] /\ DrainsOK'
<1>1. fleet \in [Edges -> FleetEdge]
  BY DEF FleetInv
<1>2. CASE fleet' = fleet
  BY <1>2 DEF FleetInv, DrainsOK
<1>3. ASSUME NEW n \in Edges, fleet' = [fleet EXCEPT ![n] = Booted]
      PROVE  fleet' \in [Edges -> FleetEdge] /\ DrainsOK'
  <2>1. Booted \in FleetEdge /\ ~Booted.draining
    BY FleetLimits DEF Booted, FleetEdge
  <2>2. fleet' \in [Edges -> FleetEdge]
    BY <1>1, <1>3, <2>1
  <2>3. \A e \in Edges : fleet'[e].draining => fleet[e].draining
    BY <1>1, <1>3, <2>1
  <2>. QED
    BY <2>2, <2>3 DEF FleetInv, DrainsOK
<1>4. ASSUME NEW n, fleet' = [fleet EXCEPT ![n].up = FALSE]
      PROVE  fleet' \in [Edges -> FleetEdge] /\ DrainsOK'
  <2>1. CASE n \in Edges
    <3>1. fleet' \in [Edges -> FleetEdge]
      BY <1>1, <1>4, <2>1 DEF FleetEdge
    <3>2. \A e \in Edges : fleet'[e].draining = fleet[e].draining
      BY <1>1, <1>4, <2>1 DEF FleetEdge
    <3>. QED
      BY <3>1, <3>2 DEF FleetInv, DrainsOK
  <2>2. CASE n \notin Edges
    <3>1. fleet' = fleet
      BY <1>1, <1>4, <2>2
    <3>. QED
      BY <1>2, <3>1
  <2>. QED
    BY <2>1, <2>2
<1>5. CASE ProvisionRun(c)
  BY <1>2, <1>3, <1>5 DEF ProvisionRun
<1>6. CASE ProvisionClose(c)
  BY <1>2, <1>4, <1>6 DEF ProvisionClose
<1>. QED
  BY <1>2, <1>5, <1>6

LEMMA ControlProvisionedKeeps ==
    ASSUME FleetInv, NEW c \in executing, ControlProvisioned(c)
    PROVE  FleetInv'
<1>1. PICK d, e : d = [c EXCEPT !.step = "publish"] /\ e = c.origin
  OBVIOUS
<1>2. /\ c.step = "provision"
      /\ ProvisionRun(c) \/ ProvisionClose(c) \/ fleet' = fleet
      /\ created' = IF ExecutesAt(e, c) THEN created \cup {<<c.id, e>>} ELSE created
      /\ executing' = (executing \ {c}) \cup {d}
      /\ UNCHANGED <<views, planners, envelopes, fleet_now, issued>>
  BY <1>1 DEF ControlProvisioned
<1>3. fleet' \in [Edges -> FleetEdge] /\ DrainsOK'
  BY <1>2, ProvisionerKeeps
<1>4. /\ \A o \in executing :
            /\ o \in [id : Nat, origin : Edges, request : {o.request}, targets : {o.targets},
                      planned : BOOLEAN, step : {"provision", "publish"}]
            /\ IssueOf(o) \in issued
            /\ o.step = "provision" => \A x \in created : x[1] # o.id
      /\ \A o, q \in executing : o.id = q.id => o = q
  BY DEF FleetInv, CommandsOK
<1>5. IssueOf(c) \in issued /\ \A x \in created : x[1] # c.id
  BY <1>2, <1>4
<1>6. \A x \in created' : x \in created \/ (x[1] = c.id /\ x = <<c.id, e>> /\ ExecutesAt(e, c))
  BY <1>2
<1>7. /\ d \in [id : Nat, origin : Edges, request : {c.request}, targets : {c.targets},
                planned : BOOLEAN, step : {"provision", "publish"}]
      /\ d.step = "publish" /\ d.id = c.id /\ d.request = c.request /\ d.targets = c.targets
  BY <1>1, <1>4
<1>8. CommandsOK'
  <2>1. IssueOf(d) \in issued'
    BY <1>2, <1>5, <1>7 DEF IssueOf
  <2>2. ASSUME NEW o \in executing'
        PROVE  /\ o \in [id : Nat, origin : Edges, request : {o.request}, targets : {o.targets},
                         planned : BOOLEAN, step : {"provision", "publish"}]
               /\ IssueOf(o) \in issued'
               /\ o.step = "provision" => \A x \in created' : x[1] # o.id
    <3>1. CASE o = d
      BY <1>7, <2>1, <3>1
    <3>2. CASE o \in executing /\ o # c
      <4>1. o.id # c.id
        BY <1>4, <3>2
      <4>. QED
        BY <1>2, <1>4, <1>6, <3>2, <4>1
    <3>. QED
      BY <1>2, <3>1, <3>2
  <2>3. \A o, q \in executing' : o.id = q.id => o = q
    BY <1>2, <1>4, <1>7
  <2>. QED
    BY <2>2, <2>3 DEF CommandsOK
<1>9. CreatedOK'
  <2>1. \A x, y \in created : x[1] = y[1] => x = y
    BY DEF FleetInv, CreatedOK
  <2>2. \A x, y \in created' : x[1] = y[1] => x = y
    BY <1>5, <1>6, <2>1
  <2>3. ExecutesAt(e, c) => \E i \in issued : i.id = c.id /\ i.request.kind = "ProvisionNode"
    BY <1>5 DEF ExecutesAt, IssueOf
  <2>4. \A x \in created' : \E i \in issued : i.id = x[1] /\ i.request.kind = "ProvisionNode"
    BY <1>6, <2>3 DEF FleetInv, CreatedOK
  <2>. QED
    BY <1>2, <2>2, <2>4 DEF CreatedOK
<1>10. /\ IssuedOK' /\ ViewsOK' /\ PlannersOK' /\ fleet_now' \in 0 .. FleetTimeLimit
       /\ EnvelopesOK'
  BY <1>2 DEF FleetInv, IssuedOK, ViewsOK, PlannersOK, EnvelopesOK, Meant
<1>. QED
  BY <1>3, <1>8, <1>9, <1>10 DEF FleetInv

LEMMA PublishControlKeeps ==
    ASSUME FleetInv, NEW c \in executing, PublishControl(c)
    PROVE  FleetInv'
<1>1. /\ executing' = executing \ {c}
      /\ UNCHANGED <<fleet, views, planners, fleet_now, issued, created>>
  BY DEF PublishControl
<1>2. EnvelopesOK'
  <2>1. IssueOf(ControlEnvelope(c)) \in issued
    BY DEF FleetInv, CommandsOK, ControlEnvelope, IssueOf
  <2>2. ASSUME NEW m \in envelopes'
        PROVE  m \in envelopes \/ m.envelope = ControlEnvelope(c)
    BY DEF PublishControl
  <2>. QED
    BY <1>1, <2>1, <2>2 DEF FleetInv, EnvelopesOK
<1>3. CommandsOK'
  BY <1>1 DEF FleetInv, CommandsOK
<1>4. /\ IssuedOK' /\ ViewsOK' /\ PlannersOK' /\ CreatedOK' /\ DrainsOK'
      /\ fleet' \in [Edges -> FleetEdge] /\ fleet_now' \in 0 .. FleetTimeLimit
  BY <1>1 DEF FleetInv, IssuedOK, ViewsOK, PlannersOK, CreatedOK, DrainsOK, Meant
<1>. QED
  BY <1>2, <1>3, <1>4 DEF FleetInv

LEMMA IngestControlKeeps ==
    ASSUME FleetInv, NEW m \in envelopes, IngestControl(m), m.to \in Up => m.to \in Edges
    PROVE  FleetInv'
<1>1. /\ envelopes' = envelopes \ {m} /\ UNCHANGED <<views, planners, executing, fleet_now, issued>>
  BY DEF IngestControl
<1>2. PICK c, i : c = m.envelope /\ i = IssueOf(c)
  OBVIOUS
<1>3. i \in issued /\ i.request = c.request /\ i.targets = c.targets
  BY <1>2 DEF FleetInv, EnvelopesOK, IssueOf
<1>4. \A o \in i.targets : Meant(i.request, o)
  BY <1>3 DEF FleetInv, IssuedOK
<1>5. fleet' \in [Edges -> FleetEdge] /\ DrainsOK' /\ created' = created
  <2>1. CASE /\ m.to \in Up /\ c.origin # m.to /\ TargetsLocal(m.to, c.request, c.targets)
    <3>1. created' = created
      BY <1>2, <2>1 DEF IngestControl, ExecutesAt
    <3>2. fleet' = Drained(fleet, m.to, i.request, i.targets)
      BY <1>2, <1>3, <2>1 DEF IngestControl
    <3>3. i \in issued' /\ issued \subseteq issued'
      BY <1>1, <1>3
    <3>4. fleet' \in [Edges -> FleetEdge] /\ DrainsOK'
      BY <1>4, <2>1, <3>2, <3>3, DrainedKeeps
    <3>. QED
      BY <3>1, <3>4
  <2>2. CASE ~(m.to \in Up /\ c.origin # m.to /\ TargetsLocal(m.to, c.request, c.targets))
    <3>1. fleet' = fleet /\ created' = created
      BY <1>2, <2>2 DEF IngestControl
    <3>. QED
      BY <1>1, <3>1 DEF FleetInv, DrainsOK
  <2>. QED
    BY <2>1, <2>2
<1>6. EnvelopesOK'
  BY <1>1 DEF FleetInv, EnvelopesOK
<1>7. IssuedOK' /\ ViewsOK' /\ PlannersOK' /\ fleet_now' \in 0 .. FleetTimeLimit /\ CommandsOK'
      /\ CreatedOK'
  BY <1>1, <1>5 DEF FleetInv, IssuedOK, ViewsOK, PlannersOK, CommandsOK, CreatedOK, Meant
<1>. QED
  BY <1>5, <1>6, <1>7 DEF FleetInv

LEMMA ServePlayersKeeps ==
    ASSUME FleetInv, NEW e \in Edges, NEW load \in Loads, ServePlayers(e, load)
    PROVE  FleetInv'
<1>1. /\ fleet' = [fleet EXCEPT ![e].readers = load.readers, ![e].overloaded = load.overloaded,
                                ![e].responded = fleet_now]
      /\ UNCHANGED <<views, planners, executing, envelopes, fleet_now, issued, created>>
  BY DEF ServePlayers
<1>2. fleet \in [Edges -> FleetEdge] /\ fleet_now \in 0 .. FleetTimeLimit
  BY DEF FleetInv
<1>3. load.readers \in {l.readers : l \in Loads} \cup {0} /\ load.overloaded \in BOOLEAN
  BY FleetAssumption
<1>4. fleet_now \in -1 .. FleetTimeLimit
  BY <1>2, FleetLimits
<1>5. PICK f : f = [fleet[e] EXCEPT !.readers = load.readers, !.overloaded = load.overloaded,
                                    !.responded = fleet_now]
  OBVIOUS
<1>6. f \in FleetEdge /\ f.draining = fleet[e].draining
  BY <1>2, <1>3, <1>4, <1>5 DEF FleetEdge
<1>7. fleet' = [fleet EXCEPT ![e] = f]
  BY <1>1, <1>2, <1>5 DEF FleetEdge
<1>8. fleet' \in [Edges -> FleetEdge] /\ \A o \in Edges : fleet'[o].draining = fleet[o].draining
  BY <1>2, <1>6, <1>7
<1>9. DrainsOK'
  BY <1>1, <1>8 DEF FleetInv, DrainsOK
<1>10. IssuedOK' /\ ViewsOK' /\ PlannersOK' /\ CommandsOK' /\ CreatedOK' /\ EnvelopesOK'
  BY <1>1 DEF FleetInv, IssuedOK, ViewsOK, PlannersOK, CommandsOK, CreatedOK, EnvelopesOK, Meant
<1>. QED
  BY <1>1, <1>2, <1>8, <1>9, <1>10 DEF FleetInv

LEMMA FleetElapseKeeps ==
    ASSUME FleetInv, FleetElapse
    PROVE  FleetInv'
<1>1. /\ fleet_now < FleetTimeLimit /\ fleet_now' = fleet_now + 1
      /\ UNCHANGED <<fleet, views, planners, executing, envelopes, issued, created>>
  BY DEF FleetElapse
<1>2. fleet_now' \in 0 .. FleetTimeLimit
  BY <1>1, FleetLimits DEF FleetInv
<1>3. /\ IssuedOK' /\ ViewsOK' /\ PlannersOK' /\ CommandsOK' /\ CreatedOK' /\ EnvelopesOK'
      /\ DrainsOK' /\ fleet' \in [Edges -> FleetEdge]
  BY <1>1 DEF FleetInv, IssuedOK, ViewsOK, PlannersOK, CommandsOK, CreatedOK, EnvelopesOK,
     DrainsOK, Meant
<1>. QED
  BY <1>2, <1>3 DEF FleetInv

LEMMA FleetInitOK == FleetInit => FleetInv
<1>. SUFFICES ASSUME FleetInit
              PROVE  FleetInv
  OBVIOUS
<1>1. fleet \in [Edges -> FleetEdge] /\ \A e \in Edges : ~fleet[e].draining
  <2>1. ASSUME NEW e \in Edges
        PROVE  [Booted EXCEPT !.up = e \in BootEdges] \in FleetEdge
               /\ ~[Booted EXCEPT !.up = e \in BootEdges].draining
    <3>1. (e \in BootEdges) \in BOOLEAN /\ -1 \in -1 .. FleetTimeLimit
      BY FleetLimits
    <3>. QED
      BY <3>1 DEF Booted, FleetEdge
  <2>. QED
    BY <2>1 DEF FleetInit
<1>2. fleet_now \in 0 .. FleetTimeLimit
  BY FleetLimits DEF FleetInit
<1>3. ViewsOK
  BY DEF FleetInit, ViewsOK, ViewOK, EmptyMap
<1>4. PlannersOK
  <2>1. -Cooldown \in -Cooldown .. FleetTimeLimit
    BY FleetLimits
  <2>. QED
    BY <2>1 DEF FleetInit, PlannersOK
<1>5. IssuedOK /\ CommandsOK /\ EnvelopesOK /\ DrainsOK /\ CreatedOK
  BY <1>1, FS_EmptySet DEF FleetInit, IssuedOK, CommandsOK, EnvelopesOK, DrainsOK, CreatedOK
<1>. QED
  BY <1>1, <1>2, <1>3, <1>4, <1>5 DEF FleetInv

LEMMA FleetStep == FleetInv /\ [FleetNext]_fleetVars => FleetInv'
<1>. SUFFICES ASSUME FleetInv, [FleetNext]_fleetVars
              PROVE  FleetInv'
  OBVIOUS
<1>1. ASSUME NEW path \in TelemetryPaths, IngestSnapshot(path[1], path[2])
      PROVE  FleetInv'
  BY <1>1, IngestSnapshotKeeps
<1>2. ASSUME NEW e \in Edges, NEW request \in OperatorRequests, OperatorControl(e, request)
      PROVE  FleetInv'
  BY <1>2, OperatorControlKeeps
<1>3. ASSUME NEW e \in Edges, RunEdgeLifecycle(e)
      PROVE  FleetInv'
  BY <1>3, RunEdgeLifecycleKeeps
<1>4. ASSUME NEW c \in executing, ControlProvisioned(c) \/ PublishControl(c)
      PROVE  FleetInv'
  BY <1>4, ControlProvisionedKeeps, PublishControlKeeps
<1>5. ASSUME NEW e \in Edges, NEW load \in Loads, ServePlayers(e, load)
      PROVE  FleetInv'
  BY <1>5, ServePlayersKeeps
<1>6. ASSUME NEW m \in envelopes, IngestControl(m)
      PROVE  FleetInv'
  BY <1>6, IngestControlKeeps DEF Up
<1>7. CASE FleetElapse
  BY <1>7, FleetElapseKeeps
<1>8. CASE UNCHANGED fleetVars
  <2>1. UNCHANGED <<fleet, views, planners, executing, envelopes, fleet_now, issued, created>>
    BY <1>8 DEF fleetVars
  <2>2. fleet' \in [Edges -> FleetEdge] /\ fleet_now' \in 0 .. FleetTimeLimit
    BY <2>1 DEF FleetInv
  <2>3. /\ IssuedOK' /\ ViewsOK' /\ PlannersOK' /\ CommandsOK' /\ CreatedOK' /\ EnvelopesOK'
        /\ DrainsOK'
    BY <2>1 DEF FleetInv, IssuedOK, ViewsOK, PlannersOK, CommandsOK, CreatedOK, EnvelopesOK,
       DrainsOK, Meant
  <2>. QED
    BY <2>2, <2>3 DEF FleetInv
<1>. QED
  BY <1>1, <1>2, <1>3, <1>4, <1>5, <1>6, <1>7, <1>8, Zenon DEF FleetNext

\* What the nodes, their views and the commands between them agree on
\* (main.rs:11613-11637, 11696-11755): a command keeps the number and the targets
\* it was issued with wherever it is, and nobody has created an instance for one
\* whose provisioner has still to run at its origin.
THEOREM FleetInvariant == FleetSpec => []FleetInv
<1>. QED
  BY FleetInitOK, FleetStep, PTL DEF FleetSpec

\* FleetSound (main.rs:11613-11637, 11696-11755) for any fleet, paths of telemetry
\* and control, requests and limits: a node drains only if a command meant it, and
\* a provision command creates an instance at one executor.
THEOREM FleetCorrect == FleetSpec => []FleetSound
<1>1. FleetInv => FleetSound
  <2>. SUFFICES ASSUME FleetInv
                PROVE  FleetSound
    OBVIOUS
  <2>1. FleetTypeOK
    BY DEF FleetInv, ViewsOK, ViewOK, PlannersOK, FleetEdge, FleetTypeOK
  <2>2. CommandsHitTheirTargets
    BY DEF FleetInv, DrainsOK, CreatedOK, Meant, CommandsHitTheirTargets
  <2>. QED
    BY <2>1, <2>2 DEF FleetSound
<1>. QED
  BY <1>1, FleetInvariant, PTL

-----------------------------------------------------------------------------
\* Of the idle edges of a region some edge is the one idle longest.
LEMMA LongestIdleIsIdle ==
    ASSUME FleetInv, NEW e \in Edges, NEW r, IdleEdges(WithLocal(e), r) # {}
    PROVE  LongestIdle(WithLocal(e), r) \in IdleEdges(WithLocal(e), r)
<1>1. PICK nodes, idle : nodes = WithLocal(e) /\ idle = IdleEdges(nodes, r)
  OBVIOUS
<1>2. \A o \in DOMAIN nodes : nodes[o] \in NodeSnapshot /\ o \in Edges
  <2>1. /\ DOMAIN nodes = DOMAIN Fresh(e) \cup {e} /\ DOMAIN nodes \subseteq Edges
        /\ \A o \in DOMAIN Fresh(e) : nodes[o] = Fresh(e)[o]
        /\ nodes[e] = LocalSnapshot(e)
    BY <1>1, WithLocalFacts, FreshFacts
  <2>2. \A o \in DOMAIN Fresh(e) : Fresh(e)[o] \in NodeSnapshot
    BY FreshFacts DEF ViewOK
  <2>. QED
    BY <2>1, <2>2, LocalSnapshotType
<1>3. idle \subseteq DOMAIN nodes /\ idle \subseteq Nat /\ idle # {}
  BY <1>1, <1>2, FleetAssumption DEF IdleEdges, LiveEdges, InRegion
<1>4. \A o \in idle : Activity(nodes[o]) \in Nat
  <2>. SUFFICES ASSUME NEW o \in idle
                PROVE  Activity(nodes[o]) \in Nat
    OBVIOUS
  <2>1. nodes[o].responded \in -1 .. FleetTimeLimit /\ nodes[o].updated \in 0 .. FleetTimeLimit
    BY <1>2, <1>3 DEF NodeSnapshot
  <2>. QED
    BY <2>1, FleetLimits DEF Activity
<1>5. PICK a \in {Activity(nodes[o]) : o \in idle} :
         \A b \in {Activity(nodes[o]) : o \in idle} : a <= b
  <2>1. {Activity(nodes[o]) : o \in idle} \in SUBSET Nat /\ {Activity(nodes[o]) : o \in idle} # {}
    BY <1>3, <1>4
  <2>. QED
    BY <2>1, LeastElement
<1>6. PICK x \in {o \in idle : Activity(nodes[o]) = a} :
         \A o \in {q \in idle : Activity(nodes[q]) = a} : x <= o
  <2>1. {o \in idle : Activity(nodes[o]) = a} \in SUBSET Nat /\ {o \in idle : Activity(nodes[o]) = a} # {}
    BY <1>3, <1>5
  <2>. QED
    BY <2>1, LeastElement
<1>7. \A o \in idle :
         \/ Activity(nodes[x]) < Activity(nodes[o])
         \/ Activity(nodes[x]) = Activity(nodes[o]) /\ x <= o
  <2>. SUFFICES ASSUME NEW o \in idle
                PROVE  \/ Activity(nodes[x]) < Activity(nodes[o])
                       \/ Activity(nodes[x]) = Activity(nodes[o]) /\ x <= o
    OBVIOUS
  <2>1. a \in Nat /\ Activity(nodes[o]) \in Nat /\ a <= Activity(nodes[o]) /\ Activity(nodes[x]) = a
    BY <1>4, <1>5, <1>6
  <2>2. Activity(nodes[o]) = a => x <= o
    BY <1>6
  <2>. QED
    BY <2>1, <2>2
<1>8. \E y \in idle : \A o \in idle :
         \/ Activity(nodes[y]) < Activity(nodes[o])
         \/ Activity(nodes[y]) = Activity(nodes[o]) /\ y <= o
  BY <1>6, <1>7
<1>9. LongestIdle(nodes, r) \in idle
  BY <1>1, <1>8, Zenon DEF LongestIdle
<1>. QED
  BY <1>1, <1>9

\* What the controller can know of the world around it.
SeesTheFleet(e) ==
    /\ Informed(e) /\ executing = {} /\ envelopes = {}
    /\ \A o \in Edges : ~fleet[o].up => o \notin DOMAIN Fresh(e)

\* The edges that an informed controller of a region takes for live do serve.
LEMMA LiveEdgesServe ==
    ASSUME FleetInv, NEW e \in Edges, e \in Up, SeesTheFleet(e)
    PROVE  LiveEdges(WithLocal(e), RegionOf[e]) \subseteq Serving(RegionOf[e])
<1>. SUFFICES ASSUME NEW o \in LiveEdges(WithLocal(e), RegionOf[e])
              PROVE  o \in Serving(RegionOf[e])
  OBVIOUS
<1>1. /\ o \in DOMAIN WithLocal(e) /\ o \in Edges /\ RegionOf[o] = RegionOf[e]
      /\ ~WithLocal(e)[o].draining
  BY WithLocalFacts DEF LiveEdges, InRegion
<1>2. executing = {} /\ envelopes = {}
  BY DEF SeesTheFleet
<1>3. fleet[o].up /\ ~fleet[o].draining
  <2>1. CASE o = e
    <3>1. ~LocalSnapshot(e).draining
      BY <1>1, <2>1, WithLocalFacts
    <3>. QED
      BY <2>1, <3>1, LocalSnapshotType DEF Up
  <2>2. CASE o # e
    <3>1. o \in DOMAIN Fresh(e) /\ WithLocal(e)[o] = views[e][o]
      BY <1>1, <2>2, WithLocalFacts
    <3>2. fleet[o].up
      BY <1>1, <3>1 DEF SeesTheFleet
    <3>3. [views[e][o] EXCEPT !.updated = 0] = [LocalSnapshot(o) EXCEPT !.updated = 0]
      BY <1>1, <2>2, <3>2 DEF SeesTheFleet, Informed, Up
    <3>4. PICK s, t : s = views[e][o] /\ t = LocalSnapshot(o)
      OBVIOUS
    <3>5. s \in NodeSnapshot /\ t \in NodeSnapshot /\ t.draining = fleet[o].draining
      <4>1. ViewOK(e, Fresh(e)) /\ Fresh(e)[o] = views[e][o]
        BY <3>1, FreshFacts
      <4>2. views[e][o] \in NodeSnapshot
        BY <3>1, <4>1 DEF ViewOK
      <4>. QED
        BY <1>1, <3>4, <4>2, LocalSnapshotType
    <3>6. s.draining = t.draining
      BY <3>3, <3>4, <3>5 DEF NodeSnapshot
    <3>. QED
      BY <1>1, <3>1, <3>2, <3>4, <3>5, <3>6
  <2>. QED
    BY <2>1, <2>2
<1>. QED
  BY <1>1, <1>2, <1>3 DEF Serving

\* A close takes the named edge out of service and no other one.
LEMMA CloseTakesOne ==
    ASSUME FleetInv, NEW e \in Edges, NEW x \in Edges, Begin(e, CloseRequest(x), TRUE),
           executing = {}, envelopes = {}, UNCHANGED envelopes, NEW r
    PROVE  Serving(r) \ {x} \subseteq Serving(r)'
<1>1. PICK request, targets, id : /\ request = CloseRequest(x) /\ targets = SelectedTargets(e, request)
                                  /\ id = Cardinality(issued) + 1
  OBVIOUS
<1>2. /\ executing' = executing \cup
            {[id |-> id, origin |-> e, request |-> request, targets |-> targets,
              planned |-> TRUE, step |-> "provision"]}
      /\ fleet' = Drained(fleet, e, request, targets)
  BY <1>1 DEF Begin
<1>3. request.kind = "CloseNode" /\ request.node = x /\ x # NoNode
  BY <1>1, FleetAssumption DEF CloseRequest
<1>4. targets = {x}
  BY <1>1, <1>3 DEF SelectedTargets
<1>5. fleet' = IF e = x THEN [fleet EXCEPT ![e].draining = TRUE] ELSE fleet
  BY <1>2, <1>3, <1>4 DEF Drained, TargetsLocal
<1>6. \A o \in Edges : o # x => fleet'[o] = fleet[o]
  BY <1>5 DEF FleetInv
<1>7. \A c \in executing' : c.request = request
  BY <1>2
<1>8. \A o \in Edges : o # x => request # CloseRequest(o)
  <2>1. \A o \in Edges : CloseRequest(o).node = o
    BY DEF CloseRequest
  <2>. QED
    BY <1>3, <2>1
<1>9. envelopes' = {}
  OBVIOUS
<1>. SUFFICES ASSUME NEW o \in Serving(r), o # x
              PROVE  o \in Serving(r)'
  OBVIOUS
<1>10. o \in Edges /\ RegionOf[o] = r /\ fleet'[o].up /\ ~fleet'[o].draining
  BY <1>6 DEF Serving
<1>11. ~\E c \in executing' : c.request = CloseRequest(o)
  BY <1>7, <1>8, <1>10
<1>. QED
  BY <1>9, <1>10, <1>11 DEF Serving, CloseRequest

\* A provision takes no edge out of service.
LEMMA ProvisionTakesNone ==
    ASSUME FleetInv, NEW e \in Edges, NEW q, Begin(e, ProvisionRequest(q), TRUE),
           executing = {}, envelopes = {}, UNCHANGED envelopes, NEW r
    PROVE  Serving(r) \subseteq Serving(r)'
<1>1. PICK request, targets, id : /\ request = ProvisionRequest(q)
                                  /\ targets = SelectedTargets(e, request)
                                  /\ id = Cardinality(issued) + 1
  OBVIOUS
<1>2. /\ executing' = executing \cup
            {[id |-> id, origin |-> e, request |-> request, targets |-> targets,
              planned |-> TRUE, step |-> "provision"]}
      /\ fleet' = Drained(fleet, e, request, targets)
  BY <1>1 DEF Begin
<1>3. request.kind = "ProvisionNode"
  BY <1>1 DEF ProvisionRequest
<1>4. fleet' = fleet
  BY <1>2, <1>3 DEF Drained
<1>5. \A c \in executing' : c.request = request
  BY <1>2
<1>6. \A o \in Edges : request # CloseRequest(o)
  <2>1. \A o \in Edges : CloseRequest(o).kind = "CloseNode"
    BY DEF CloseRequest
  <2>. QED
    BY <1>3, <2>1
<1>. SUFFICES ASSUME NEW o \in Serving(r)
              PROVE  o \in Serving(r)'
  OBVIOUS
<1>7. o \in Edges /\ RegionOf[o] = r /\ fleet'[o].up /\ ~fleet'[o].draining
  BY <1>4 DEF Serving
<1>8. ~\E c \in executing' : c.request = CloseRequest(o)
  BY <1>5, <1>6, <1>7
<1>. QED
  BY <1>7, <1>8 DEF Serving, CloseRequest

\* What an informed controller plans leaves the minimum serving everywhere.
LEMMA InformedPlanKeepsMinimum ==
    ASSUME FleetInv, NEW e \in Edges, RunEdgeLifecycle(e), executing' # {},
           SeesTheFleet(e), NEW r \in Regions, Cardinality(Serving(r)) >= MinEdges
    PROVE  Cardinality(Serving(r)') >= MinEdges
<1>1. PICK nodes : nodes = WithLocal(e)
  OBVIOUS
<1>2. e \in Up /\ UNCHANGED envelopes /\ executing = {} /\ envelopes = {}
  BY DEF RunEdgeLifecycle, SeesTheFleet
<1>3. PICK request \in PlannedRequests(e, planners[e], nodes) : Begin(e, request, TRUE)
  BY <1>1, <1>2 DEF RunEdgeLifecycle
<1>4. IsFiniteSet(Serving(r)) /\ IsFiniteSet(Serving(r)')
  <2>1. Serving(r) \subseteq Edges /\ Serving(r)' \subseteq Edges
    BY DEF Serving
  <2>. QED
    BY <2>1, FleetAssumption, FS_Subset
<1>5. /\ Cardinality(Serving(r)) \in Nat /\ Cardinality(Serving(r)') \in Nat /\ MinEdges \in Nat
  BY <1>4, FS_CardinalityType, FleetLimits
<1>6. ASSUME NEW q, request = ProvisionRequest(q)
      PROVE  Cardinality(Serving(r)') >= MinEdges
  <2>1. Serving(r) \subseteq Serving(r)'
    BY <1>2, <1>3, <1>6, ProvisionTakesNone
  <2>2. Cardinality(Serving(r)) <= Cardinality(Serving(r)')
    BY <1>4, <2>1, FS_Subset
  <2>. QED
    BY <1>5, <2>2
<1>7. ASSUME NEW q \in Regions, Closes(e, planners[e], nodes, q),
             request = CloseRequest(LongestIdle(nodes, q))
      PROVE  Cardinality(Serving(r)') >= MinEdges
  <2>1. PICK x, live : x = LongestIdle(nodes, q) /\ live = LiveEdges(nodes, q)
    OBVIOUS
  <2>2. /\ Cardinality(live) > MinEdges /\ live # {} /\ e = Min(live)
        /\ IdleEdges(nodes, q) # {}
    BY <1>7, <2>1 DEF Closes, Leads
  <2>3. live \subseteq Edges /\ \A o \in live : RegionOf[o] = q
    BY <1>1, <2>1, WithLocalFacts DEF LiveEdges, InRegion
  <2>4. RegionOf[e] = q
    <3>1. live \in SUBSET Nat
      BY <2>3, FleetAssumption
    <3>. QED
      BY <2>2, <2>3, <3>1, MinOfNat
  <2>5. x \in live
    <3>1. x \in IdleEdges(nodes, q)
      BY <1>1, <2>1, <2>2, LongestIdleIsIdle
    <3>. QED
      BY <2>1, <3>1 DEF IdleEdges
  <2>6. Serving(r) \ {x} \subseteq Serving(r)'
    BY <1>2, <1>3, <1>7, <2>1, <2>3, <2>5, CloseTakesOne
  <2>7. CASE r = q
    <3>1. live \subseteq Serving(r)
      BY <1>1, <1>2, <2>1, <2>4, <2>7, LiveEdgesServe
    <3>2. live \ {x} \subseteq Serving(r)'
      BY <2>6, <3>1
    <3>3. IsFiniteSet(live) /\ Cardinality(live) \in Nat
      BY <1>4, <3>1, FS_Subset, FS_CardinalityType
    <3>4. IsFiniteSet(live \ {x}) /\ Cardinality(live \ {x}) = Cardinality(live) - 1
      BY <2>5, <3>3, FS_RemoveElement
    <3>5. Cardinality(live \ {x}) <= Cardinality(Serving(r)')
      BY <1>4, <3>2, FS_Subset
    <3>. QED
      BY <1>5, <2>2, <3>3, <3>4, <3>5
  <2>8. CASE r # q
    <3>1. x \notin Serving(r)
      BY <2>3, <2>5, <2>8 DEF Serving
    <3>2. Serving(r) \subseteq Serving(r)'
      BY <2>6, <3>1
    <3>3. Cardinality(Serving(r)) <= Cardinality(Serving(r)')
      BY <1>4, <3>2, FS_Subset
    <3>. QED
      BY <1>5, <3>3
  <2>. QED
    BY <2>7, <2>8
<1>. QED
  BY <1>3, <1>6, <1>7 DEF PlannedRequests

\* InformedCloseKeepsMinimum (edge_lifecycle.rs:90-146) for any fleet and limits: a
\* close that a controller plans on an up-to-date view takes out of service one
\* edge of its own region, which had more than the minimum in service.
THEOREM InformedClosesKeepMinimum == FleetSpec => InformedCloseKeepsMinimum
<1>. DEFINE Keeps ==
        \A c \in executing' :
         /\ c.planned /\ Informed(c.origin) /\ executing = {} /\ envelopes = {}
         /\ \A o \in Edges : ~fleet[o].up => o \notin DOMAIN Fresh(c.origin)
         => \A r \in Regions :
              LET before == Serving(r) IN
              Cardinality(before) >= MinEdges => Cardinality(Serving(r)') >= MinEdges
<1>1. FleetInv /\ [FleetNext]_fleetVars => [Keeps]_fleetVars
  <2>. SUFFICES ASSUME FleetInv, FleetNext, NEW c \in executing', c.planned,
                       SeesTheFleet(c.origin), NEW r \in Regions, Cardinality(Serving(r)) >= MinEdges
                PROVE  Cardinality(Serving(r)') >= MinEdges
    BY Zenon DEF SeesTheFleet
  <2>1. executing = {} /\ executing' # executing
    BY DEF SeesTheFleet
  <2>2. ASSUME NEW o \in Edges, NEW request \in OperatorRequests, OperatorControl(o, request)
        PROVE  FALSE
    <3>1. Begin(o, request, FALSE)
      BY <2>2 DEF OperatorControl
    <3>. QED
      BY <2>1, <3>1 DEF Begin
  <2>3. ASSUME NEW o \in Edges, RunEdgeLifecycle(o)
        PROVE  o = c.origin
    <3>1. \E request : Begin(o, request, TRUE)
      BY <2>1, <2>3 DEF RunEdgeLifecycle
    <3>. QED
      BY <2>1, <3>1 DEF Begin
  <2>4. ~\E d \in executing : ControlProvisioned(d) \/ PublishControl(d)
    BY <2>1
  <2>5. ~UNCHANGED executing
    BY <2>1
  <2>6. ASSUME NEW path, IngestSnapshot(path[1], path[2])
        PROVE  FALSE
    BY <2>5, <2>6 DEF IngestSnapshot
  <2>7. ASSUME NEW o, NEW load, ServePlayers(o, load)
        PROVE  FALSE
    BY <2>5, <2>7 DEF ServePlayers
  <2>8. ASSUME NEW m, IngestControl(m)
        PROVE  FALSE
    BY <2>5, <2>8 DEF IngestControl
  <2>9. ~FleetElapse
    BY <2>5 DEF FleetElapse
  <2>10. \E e \in Edges : e = c.origin /\ RunEdgeLifecycle(e)
    BY <2>2, <2>3, <2>4, <2>6, <2>7, <2>8, <2>9, Zenon DEF FleetNext
  <2>. QED
    BY <2>1, <2>10, InformedPlanKeepsMinimum
<1>. QED
  BY <1>1, FleetInvariant, PTL DEF FleetSpec, InformedCloseKeepsMinimum

(***************************************************************************)
(* The record of an edge's answers.                                        *)
(***************************************************************************)
Failures == Statuses \ {"success"}

KeptEntry == [at : 1 .. ResponseTimeLimit, status : Statuses]

\* What a handler may be recording at a time.
AnswerOK(a, now) ==
    \/ a = NoAnswerYet
    \/ /\ a.step \in {"total", "errors", "missing", "last", "gate", "push"}
       /\ a = [step |-> a.step, at |-> a.at, status |-> a.status]
       /\ a.at \in 1 .. now /\ a.status \in Statuses
       /\ a.step = "errors" => a.status # "success"
       /\ a.step = "missing" => a.status = "not_found"
       /\ a.step = "gate" => a.status = "success"

HandlersOK ==
    /\ DOMAIN handlers = Handlers /\ handlers = [h \in Handlers |-> handlers[h]]
    /\ \A h \in Handlers : AnswerOK(handlers[h], response_now)

\* The handlers that have not counted their answer, that have, that have still
\* to count an error or a missing stream, and that have counted one and not yet
\* pushed it.
Uncounted(hs) == {h \in Handlers : hs[h].step = "total"}
Counted(hs) == {h \in Handlers : hs[h].step \in {"errors", "missing", "last", "gate", "push"}}
ErrorDue(hs) == {h \in Handlers : hs[h].step = "errors"}
MissingDue(hs) == {h \in Handlers : hs[h].step = "missing"}
ErrorHeld(hs) ==
    {h \in Handlers : hs[h].step \in {"missing", "last", "push"} /\ hs[h].status \in Failures}
MissingHeld(hs) ==
    {h \in Handlers : hs[h].step \in {"last", "push"} /\ hs[h].status = "not_found"}

\* A counter covers what was kept and what is held by handlers on the way there.
CountersOK ==
    /\ responses_total \in Nat /\ response_errors \in Nat /\ response_not_found \in Nat
    /\ responses_total + Cardinality(Uncounted(handlers)) <= ResponseLimit
    /\ Len(kept) + Cardinality(Counted(handlers)) <= responses_total
    /\ response_errors + Cardinality(ErrorDue(handlers)) <= responses_total
    /\ response_not_found + Cardinality(MissingDue(handlers)) <= response_errors
    /\ CountIn(kept, Failures) + Cardinality(ErrorHeld(handlers)) <= response_errors
    /\ CountIn(kept, {"not_found"}) + Cardinality(MissingHeld(handlers)) <= response_not_found

Apart(a, b) == a - b >= SuccessInterval \/ b - a >= SuccessInterval

\* The handler's success passed the gate and is not in the list yet.
Passed(hs, h) == hs[h].step = "push" /\ hs[h].status = "success"

\* The successes that passed the gate, in the list or not, are an interval apart,
\* and none is later than the last one.
SpacingOK(hs, ks, last) ==
    /\ \A i \in DOMAIN ks : ks[i].status = "success" => ks[i].at <= last
    /\ \A h \in Handlers : Passed(hs, h) => hs[h].at <= last
    /\ \A i \in DOMAIN ks : \A h \in Handlers :
          ks[i].status = "success" /\ Passed(hs, h) => Apart(ks[i].at, hs[h].at)
    /\ \A h, o \in Handlers : h # o /\ Passed(hs, h) /\ Passed(hs, o) => Apart(hs[h].at, hs[o].at)
    /\ \A i, j \in DOMAIN ks :
          i # j /\ ks[i].status = "success" /\ ks[j].status = "success" => Apart(ks[i].at, ks[j].at)

\* The list of a snapshot is covered by the counters from the time it is read, so
\* that those it reads afterwards cover it.
SnapshotOK ==
    /\ service.read \in 0 .. 4 /\ service = [read |-> service.read, fields |-> service.fields]
    /\ DOMAIN service.fields = {"recent", "responses_total", "response_errors",
                                "response_not_found"}
    /\ service.fields.recent \in Seq(KeptEntry)
    /\ service.read >= 1 =>
          /\ Len(service.fields.recent) <= responses_total
          /\ CountIn(service.fields.recent, Failures) <= response_errors
          /\ CountIn(service.fields.recent, {"not_found"}) <= response_not_found
    /\ service.read >= 2 => Len(service.fields.recent) <= service.fields.responses_total
    /\ service.read >= 3 =>
          CountIn(service.fields.recent, Failures) <= service.fields.response_errors
    /\ service.read >= 4 =>
          CountIn(service.fields.recent, {"not_found"}) <= service.fields.response_not_found

\* The list is the newest end of what was kept.
ListOK ==
    /\ kept \in Seq(KeptEntry)
    /\ recent_responses = SubSeq(kept, 1, Min({Len(kept), RecentLimit}))

\* The inductive invariant of the record of answers.
ResponsesInv ==
    /\ response_now \in 1 .. ResponseTimeLimit
    /\ last_response \in 0 .. ResponseTimeLimit
    /\ last_recent_success \in 0 .. ResponseTimeLimit
    /\ HandlersOK /\ ListOK /\ CountersOK /\ SnapshotOK
    /\ SpacingOK(handlers, kept, last_recent_success)
-----------------------------------------------------------------------------
LEMMA ResponseLimits ==
    /\ RecentLimit \in Nat /\ RecentLimit >= 1 /\ SuccessInterval \in Nat /\ SuccessInterval >= 1
    /\ ResponseLimit \in Nat /\ ResponseTimeLimit \in Nat /\ ResponseTimeLimit >= 1
    /\ IsFiniteSet(Handlers)
BY ResponsesAssumption

\* B is A but for h.
Tallied(A, B, h) ==
    /\ Cardinality(A) \in Nat /\ Cardinality(B) \in Nat
    /\ (h \in A <=> h \in B) => Cardinality(B) = Cardinality(A)
    /\ h \in B /\ h \notin A => Cardinality(B) = Cardinality(A) + 1
    /\ h \in A /\ h \notin B => Cardinality(A) = Cardinality(B) + 1

LEMMA OneMoves ==
    ASSUME NEW A, NEW B, NEW h, IsFiniteSet(A), IsFiniteSet(B), A \ {h} = B \ {h}
    PROVE  Tallied(A, B, h)
<1>1. Cardinality(A) \in Nat /\ Cardinality(B) \in Nat
  BY FS_CardinalityType
<1>2. CASE h \in A <=> h \in B
  <2>1. A = B
    BY <1>2
  <2>. QED
    BY <1>1, <1>2, <2>1 DEF Tallied
<1>3. CASE h \in B /\ h \notin A
  <2>1. B = A \cup {h}
    BY <1>3
  <2>2. Cardinality(B) = Cardinality(A) + 1
    BY <1>3, <2>1, FS_AddElement
  <2>. QED
    BY <1>1, <1>3, <2>2 DEF Tallied
<1>4. CASE h \in A /\ h \notin B
  <2>1. A = B \cup {h}
    BY <1>4
  <2>2. Cardinality(A) = Cardinality(B) + 1
    BY <1>4, <2>1, FS_AddElement
  <2>. QED
    BY <1>1, <1>4, <2>2 DEF Tallied
<1>. QED
  BY <1>2, <1>3, <1>4

\* A handler goes on: the counts change by the one it leaves or enters.
LEMMA HandlerMoves ==
    ASSUME NEW hs, DOMAIN hs = Handlers, NEW h \in Handlers, NEW b, NEW next,
           next = [hs EXCEPT ![h] = b]
    PROVE  /\ Tallied(Uncounted(hs), Uncounted(next), h)
           /\ Tallied(Counted(hs), Counted(next), h)
           /\ Tallied(ErrorDue(hs), ErrorDue(next), h)
           /\ Tallied(MissingDue(hs), MissingDue(next), h)
           /\ Tallied(ErrorHeld(hs), ErrorHeld(next), h)
           /\ Tallied(MissingHeld(hs), MissingHeld(next), h)
<1>1. next[h] = b /\ \A o \in Handlers : o # h => next[o] = hs[o]
  OBVIOUS
<1>2. \A S \in SUBSET Handlers : IsFiniteSet(S)
  BY ResponseLimits, FS_Subset
<1>3. Tallied(Uncounted(hs), Uncounted(next), h)
  <2>1. Uncounted(hs) \ {h} = Uncounted(next) \ {h}
    BY <1>1, Zenon DEF Uncounted
  <2>2. Uncounted(hs) \in SUBSET Handlers /\ Uncounted(next) \in SUBSET Handlers
    BY DEF Uncounted
  <2>. QED
    BY <1>2, <2>1, <2>2, OneMoves
<1>4. Tallied(Counted(hs), Counted(next), h)
  <2>1. Counted(hs) \ {h} = Counted(next) \ {h}
    BY <1>1, Zenon DEF Counted
  <2>2. Counted(hs) \in SUBSET Handlers /\ Counted(next) \in SUBSET Handlers
    BY DEF Counted
  <2>. QED
    BY <1>2, <2>1, <2>2, OneMoves
<1>5. Tallied(ErrorDue(hs), ErrorDue(next), h)
  <2>1. ErrorDue(hs) \ {h} = ErrorDue(next) \ {h}
    BY <1>1, Zenon DEF ErrorDue
  <2>2. ErrorDue(hs) \in SUBSET Handlers /\ ErrorDue(next) \in SUBSET Handlers
    BY DEF ErrorDue
  <2>. QED
    BY <1>2, <2>1, <2>2, OneMoves
<1>6. Tallied(MissingDue(hs), MissingDue(next), h)
  <2>1. MissingDue(hs) \ {h} = MissingDue(next) \ {h}
    BY <1>1, Zenon DEF MissingDue
  <2>2. MissingDue(hs) \in SUBSET Handlers /\ MissingDue(next) \in SUBSET Handlers
    BY DEF MissingDue
  <2>. QED
    BY <1>2, <2>1, <2>2, OneMoves
<1>7. Tallied(ErrorHeld(hs), ErrorHeld(next), h)
  <2>1. ErrorHeld(hs) \ {h} = ErrorHeld(next) \ {h}
    BY <1>1, Zenon DEF ErrorHeld
  <2>2. ErrorHeld(hs) \in SUBSET Handlers /\ ErrorHeld(next) \in SUBSET Handlers
    BY DEF ErrorHeld
  <2>. QED
    BY <1>2, <2>1, <2>2, OneMoves
<1>8. Tallied(MissingHeld(hs), MissingHeld(next), h)
  <2>1. MissingHeld(hs) \ {h} = MissingHeld(next) \ {h}
    BY <1>1, Zenon DEF MissingHeld
  <2>2. MissingHeld(hs) \in SUBSET Handlers /\ MissingHeld(next) \in SUBSET Handlers
    BY DEF MissingHeld
  <2>. QED
    BY <1>2, <2>1, <2>2, OneMoves
<1>. QED
  BY <1>3, <1>4, <1>5, <1>6, <1>7, <1>8

\* The answers of some statuses among entries are a number, none of no entries.
LEMMA CountInNat ==
    ASSUME NEW ks \in Seq(KeptEntry), NEW S
    PROVE  CountIn(ks, S) \in Nat /\ (ks = <<>> => CountIn(ks, S) = 0)
<1>1. PICK T : T = {i \in DOMAIN ks : ks[i].status \in S}
  OBVIOUS
<1>2. T \in SUBSET (1 .. Len(ks)) /\ Len(ks) \in Nat
  BY <1>1
<1>3. IsFiniteSet(T)
  <2>1. IsFiniteSet(1 .. Len(ks))
    BY <1>2, FS_Interval
  <2>. QED
    BY <1>2, <2>1, FS_Subset
<1>4. ks = <<>> => T = {}
  BY <1>1
<1>. QED
  BY <1>1, <1>3, <1>4, FS_CardinalityType, FS_EmptySet DEF CountIn

\* The newest end of a list shows no more than the list.
LEMMA CountInPrefix ==
    ASSUME NEW ks \in Seq(KeptEntry), NEW n \in 0 .. Len(ks), NEW S
    PROVE  CountIn(SubSeq(ks, 1, n), S) <= CountIn(ks, S)
<1>1. PICK T, U : /\ T = {i \in DOMAIN ks : ks[i].status \in S}
                  /\ U = {i \in DOMAIN SubSeq(ks, 1, n) : SubSeq(ks, 1, n)[i].status \in S}
  OBVIOUS
<1>2. DOMAIN ks = 1 .. Len(ks) /\ Len(ks) \in Nat
  OBVIOUS
<1>3. DOMAIN SubSeq(ks, 1, n) = 1 .. n /\ \A i \in 1 .. n : SubSeq(ks, 1, n)[i] = ks[i]
  OBVIOUS
<1>4. U \subseteq T
  BY <1>1, <1>2, <1>3
<1>5. T \in SUBSET (1 .. Len(ks))
  BY <1>1, <1>2
<1>6. IsFiniteSet(T)
  <2>1. IsFiniteSet(1 .. Len(ks))
    BY <1>2, FS_Interval
  <2>. QED
    BY <1>5, <2>1, FS_Subset
<1>7. Cardinality(U) <= Cardinality(T)
  BY <1>4, <1>6, FS_Subset
<1>. QED
  BY <1>1, <1>7 DEF CountIn

\* An entry in front of a list.
LEMMA PushFront ==
    ASSUME NEW ks \in Seq(KeptEntry), NEW e \in KeptEntry
    PROVE  /\ <<e>> \o ks \in Seq(KeptEntry) /\ Len(<<e>> \o ks) = Len(ks) + 1
           /\ DOMAIN (<<e>> \o ks) = 1 .. (Len(ks) + 1) /\ Len(ks) \in Nat
           /\ (<<e>> \o ks)[1] = e
           /\ \A i \in 2 .. (Len(ks) + 1) : (<<e>> \o ks)[i] = ks[i - 1] /\ i - 1 \in DOMAIN ks
<1>1. <<e>> \in Seq(KeptEntry) /\ Len(<<e>>) = 1 /\ <<e>>[1] = e /\ Len(ks) \in Nat
  OBVIOUS
<1>2. PICK f : f = <<e>>
  OBVIOUS
<1>3. /\ f \o ks \in Seq(KeptEntry) /\ Len(f \o ks) = 1 + Len(ks)
      /\ (f \o ks)[1] = e
      /\ \A i \in 2 .. (Len(ks) + 1) : (f \o ks)[i] = ks[i - 1] /\ i - 1 \in DOMAIN ks
  BY <1>1, <1>2
<1>. QED
  BY <1>1, <1>2, <1>3

LEMMA CountInPush ==
    ASSUME NEW ks \in Seq(KeptEntry), NEW e \in KeptEntry, NEW S
    PROVE  /\ CountIn(<<e>> \o ks, S) <= CountIn(ks, S) + 1
           /\ e.status \notin S => CountIn(<<e>> \o ks, S) <= CountIn(ks, S)
<1>1. PICK n, new : n = Len(ks) /\ new = <<e>> \o ks
  OBVIOUS
<1>2. /\ n \in Nat /\ DOMAIN new = 1 .. (n + 1) /\ new[1] = e /\ DOMAIN ks = 1 .. n
      /\ \A i \in 2 .. (n + 1) : new[i] = ks[i - 1] /\ i - 1 \in DOMAIN ks
  BY <1>1, PushFront
<1>3. PICK T, U, V : /\ T = {i \in DOMAIN ks : ks[i].status \in S}
                     /\ U = {i \in DOMAIN new : new[i].status \in S}
                     /\ V = {i + 1 : i \in T}
  OBVIOUS
<1>4. IsFiniteSet(T) /\ Cardinality(T) \in Nat
  <2>1. T \in SUBSET (1 .. n)
    BY <1>2, <1>3
  <2>2. IsFiniteSet(1 .. n)
    BY <1>2, FS_Interval
  <2>. QED
    BY <2>1, <2>2, FS_Subset, FS_CardinalityType
<1>5. IsFiniteSet(V) /\ Cardinality(V) <= Cardinality(T)
  <2>1. [i \in T |-> i + 1] \in Surjection(T, V)
    BY <1>3 DEF Surjection
  <2>. QED
    BY <1>4, <2>1, FS_Surjection
<1>6. Cardinality(V) \in Nat
  BY <1>5, FS_CardinalityType
<1>0. PICK W : W = V \cup {1}
  OBVIOUS
<1>7. U \subseteq W /\ (e.status \notin S => U \subseteq V)
  <2>1. ASSUME NEW i \in U, i # 1
        PROVE  i \in V
    <3>1. i \in 2 .. (n + 1)
      BY <1>2, <1>3, <2>1
    <3>2. i - 1 \in T
      BY <1>2, <1>3, <2>1, <3>1
    <3>3. i = (i - 1) + 1
      BY <3>1
    <3>. QED
      BY <1>3, <3>2, <3>3
  <2>2. e.status \notin S => 1 \notin U
    BY <1>2, <1>3
  <2>. QED
    BY <1>0, <2>1, <2>2
<1>8. IsFiniteSet(W) /\ Cardinality(W) <= Cardinality(V) + 1
  <2>1. CASE 1 \in V
    <3>1. W = V
      BY <1>0, <2>1
    <3>. QED
      BY <1>5, <1>6, <3>1
  <2>2. CASE 1 \notin V
    <3>1. IsFiniteSet(W) /\ Cardinality(W) = Cardinality(V) + 1
      BY <1>0, <1>5, <2>2, FS_AddElement
    <3>. QED
      BY <1>6, <3>1
  <2>. QED
    BY <2>1, <2>2
<1>9. Cardinality(U) <= Cardinality(W) /\ Cardinality(U) \in Nat
  BY <1>7, <1>8, FS_Subset, FS_CardinalityType
<1>10. e.status \notin S => Cardinality(U) <= Cardinality(V)
  BY <1>5, <1>7, FS_Subset
<1>11. Cardinality(W) \in Nat
  BY <1>8, FS_CardinalityType
<1>12. CountIn(new, S) = Cardinality(U) /\ CountIn(ks, S) = Cardinality(T)
  BY <1>3 DEF CountIn
<1>13. Cardinality(U) <= Cardinality(T) + 1
  BY <1>4, <1>5, <1>6, <1>8, <1>9, <1>11
<1>14. e.status \notin S => Cardinality(U) <= Cardinality(T)
  BY <1>4, <1>5, <1>6, <1>9, <1>10
<1>. QED
  BY <1>1, <1>12, <1>13, <1>14

-----------------------------------------------------------------------------
\* The counters only grow, so that a list they cover stays covered.
LEMMA SnapshotKeeps ==
    ASSUME ResponsesInv, UNCHANGED service,
           responses_total' \in Nat, response_errors' \in Nat, response_not_found' \in Nat,
           responses_total <= responses_total', response_errors <= response_errors',
           response_not_found <= response_not_found'
    PROVE  SnapshotOK'
<1>1. PICK s : s = service.fields.recent
  OBVIOUS
<1>2. /\ s \in Seq(KeptEntry) /\ Len(s) \in Nat
      /\ CountIn(s, Failures) \in Nat /\ CountIn(s, {"not_found"}) \in Nat
  BY <1>1, CountInNat DEF ResponsesInv, SnapshotOK
<1>3. responses_total \in Nat /\ response_errors \in Nat /\ response_not_found \in Nat
  BY DEF ResponsesInv, CountersOK
<1>4. service.read >= 1 => /\ Len(s) <= responses_total' /\ CountIn(s, Failures) <= response_errors'
                           /\ CountIn(s, {"not_found"}) <= response_not_found'
  <2>1. service.read >= 1 => /\ Len(s) <= responses_total /\ CountIn(s, Failures) <= response_errors
                             /\ CountIn(s, {"not_found"}) <= response_not_found
    BY <1>1 DEF ResponsesInv, SnapshotOK
  <2>. QED
    BY <1>2, <1>3, <2>1
<1>5. SnapshotOK
  BY DEF ResponsesInv
<1>6. \A S : CountIn(s, S)' = CountIn(s, S)
  OBVIOUS
<1>. QED
  BY <1>1, <1>4, <1>5 DEF SnapshotOK, CountIn

LEMMA HandlersKeep ==
    ASSUME ResponsesInv, NEW h \in Handlers, NEW b, AnswerOK(b, response_now),
           handlers' = [handlers EXCEPT ![h] = b], response_now' = response_now
    PROVE  HandlersOK'
<1>1. DOMAIN handlers = Handlers /\ \A o \in Handlers : AnswerOK(handlers[o], response_now)
  BY DEF ResponsesInv, HandlersOK
<1>2. DOMAIN handlers' = Handlers /\ handlers' = [o \in Handlers |-> handlers'[o]]
  BY <1>1
<1>3. \A o \in Handlers : AnswerOK(handlers'[o], response_now)
  BY <1>1, Zenon
<1>. QED
  BY <1>2, <1>3 DEF HandlersOK, AnswerOK

\* A handler that does not pass the gate changes nothing of the spacing.
LEMMA SpacingKeeps ==
    ASSUME NEW hs, NEW ks, NEW last, SpacingOK(hs, ks, last), DOMAIN hs = Handlers,
           NEW h \in Handlers, NEW b, b.step # "push" \/ b.status # "success"
    PROVE  SpacingOK([hs EXCEPT ![h] = b], ks, last)
<1>1. PICK next : next = [hs EXCEPT ![h] = b]
  OBVIOUS
<1>2. ~Passed(next, h) /\ \A o \in Handlers : o # h => next[o] = hs[o]
  BY <1>1 DEF Passed
<1>3. \A o \in Handlers : Passed(next, o) => Passed(hs, o) /\ next[o] = hs[o]
  BY <1>2 DEF Passed
<1>4. SpacingOK(next, ks, last)
  BY <1>3, Zenon DEF SpacingOK
<1>. QED
  BY <1>1, <1>4

\* Where the handler is before and after.
LEMMA Moves ==
    ASSUME ResponsesInv, NEW h \in Handlers, NEW b, handlers' = [handlers EXCEPT ![h] = b]
    PROVE  /\ Tallied(Uncounted(handlers), Uncounted(handlers'), h)
           /\ Tallied(Counted(handlers), Counted(handlers'), h)
           /\ Tallied(ErrorDue(handlers), ErrorDue(handlers'), h)
           /\ Tallied(MissingDue(handlers), MissingDue(handlers'), h)
           /\ Tallied(ErrorHeld(handlers), ErrorHeld(handlers'), h)
           /\ Tallied(MissingHeld(handlers), MissingHeld(handlers'), h)
           /\ handlers'[h] = b
BY HandlerMoves DEF ResponsesInv, HandlersOK

\* What the steps of a handler say of it.
LEMMA Phases ==
    ASSUME NEW hs, NEW h \in Handlers
    PROVE  /\ h \in Uncounted(hs) <=> hs[h].step = "total"
           /\ h \in Counted(hs) <=> hs[h].step \in {"errors", "missing", "last", "gate", "push"}
           /\ h \in ErrorDue(hs) <=> hs[h].step = "errors"
           /\ h \in MissingDue(hs) <=> hs[h].step = "missing"
           /\ h \in ErrorHeld(hs) <=> /\ hs[h].step \in {"missing", "last", "push"}
                                      /\ hs[h].status \in Failures
           /\ h \in MissingHeld(hs) <=> /\ hs[h].step \in {"last", "push"}
                                        /\ hs[h].status = "not_found"
BY DEF Uncounted, Counted, ErrorDue, MissingDue, ErrorHeld, MissingHeld

\* What a handler that goes to another step records.
LEMMA GotoMeans ==
    ASSUME ResponsesInv, NEW h \in Handlers, NEW step, handlers[h].step # "idle", Goto(h, step)
    PROVE  /\ handlers' = [handlers EXCEPT ![h] =
                 [step |-> step, at |-> handlers[h].at, status |-> handlers[h].status]]
           /\ handlers[h].at \in 1 .. response_now /\ handlers[h].status \in Statuses
           /\ handlers[h].step = "errors" => handlers[h].status # "success"
           /\ handlers[h].step = "missing" => handlers[h].status = "not_found"
           /\ handlers[h].step = "gate" => handlers[h].status = "success"
<1>1. PICK a : a = handlers[h]
  OBVIOUS
<1>2. AnswerOK(a, response_now) /\ a # NoAnswerYet
  BY <1>1 DEF ResponsesInv, HandlersOK, NoAnswerYet
<1>3. /\ a = [step |-> a.step, at |-> a.at, status |-> a.status]
      /\ a.at \in 1 .. response_now /\ a.status \in Statuses
      /\ a.step = "errors" => a.status # "success"
      /\ a.step = "missing" => a.status = "not_found"
      /\ a.step = "gate" => a.status = "success"
  BY <1>2 DEF AnswerOK
<1>4. [a EXCEPT !.step = step] = [step |-> step, at |-> a.at, status |-> a.status]
  BY <1>3
<1>. QED
  BY <1>1, <1>3, <1>4 DEF Goto

\* What holds of the counts before a step.
LEMMA CountsBefore ==
    ASSUME ResponsesInv
    PROVE  /\ responses_total \in Nat /\ response_errors \in Nat /\ response_not_found \in Nat
           /\ kept \in Seq(KeptEntry) /\ Len(kept) \in Nat
           /\ CountIn(kept, Failures) \in Nat /\ CountIn(kept, {"not_found"}) \in Nat
           /\ ResponseLimit \in Nat
BY CountInNat, ResponseLimits DEF ResponsesInv, CountersOK, ListOK

LEMMA BeginResponseKeeps ==
    ASSUME ResponsesInv, NEW h \in Handlers, NEW status \in Statuses, BeginResponse(h, status)
    PROVE  ResponsesInv'
<1>1. PICK b : b = [step |-> "total", at |-> response_now, status |-> status]
  OBVIOUS
<1>2. /\ handlers[h] = NoAnswerYet /\ handlers' = [handlers EXCEPT ![h] = b]
      /\ responses_total + Cardinality(Uncounted(handlers)) < ResponseLimit
      /\ UNCHANGED <<response_now, responses_total, response_errors, response_not_found,
                     last_response, last_recent_success, recent_responses, service, kept>>
  BY <1>1 DEF BeginResponse, Uncounted
<1>3. AnswerOK(b, response_now)
  BY <1>1 DEF AnswerOK, ResponsesInv
<1>4. HandlersOK'
  BY <1>2, <1>3, HandlersKeep
<1>5. SnapshotOK'
  BY <1>2, CountsBefore, SnapshotKeeps
<1>6. SpacingOK(handlers, kept, last_recent_success)'
  BY <1>1, <1>2, SpacingKeeps DEF ResponsesInv, HandlersOK
<1>7. CountersOK'
  <2>1. /\ h \notin Uncounted(handlers) /\ h \in Uncounted(handlers')
        /\ h \notin Counted(handlers) /\ h \notin Counted(handlers')
        /\ h \notin ErrorDue(handlers) /\ h \notin ErrorDue(handlers')
        /\ h \notin MissingDue(handlers) /\ h \notin MissingDue(handlers')
        /\ h \notin ErrorHeld(handlers) /\ h \notin ErrorHeld(handlers')
        /\ h \notin MissingHeld(handlers) /\ h \notin MissingHeld(handlers')
    <3>1. handlers'[h] = b
      BY <1>2, Moves
    <3>2. handlers[h].step = "idle" /\ handlers'[h].step = "total"
      BY <1>1, <1>2, <3>1 DEF NoAnswerYet
    <3>. QED
      BY <3>2, Phases
  <2>2. /\ Cardinality(Uncounted(handlers')) = Cardinality(Uncounted(handlers)) + 1
        /\ Cardinality(Uncounted(handlers)) \in Nat
        /\ Cardinality(Counted(handlers')) = Cardinality(Counted(handlers))
        /\ Cardinality(ErrorDue(handlers')) = Cardinality(ErrorDue(handlers))
        /\ Cardinality(MissingDue(handlers')) = Cardinality(MissingDue(handlers))
        /\ Cardinality(ErrorHeld(handlers')) = Cardinality(ErrorHeld(handlers))
        /\ Cardinality(MissingHeld(handlers')) = Cardinality(MissingHeld(handlers))
    BY <1>2, <2>1, Moves, Zenon DEF Tallied
  <2>3. responses_total + Cardinality(Uncounted(handlers')) <= ResponseLimit
    BY <1>2, <2>2, CountsBefore
  <2>. QED
    BY <1>2, <2>2, <2>3 DEF ResponsesInv, CountersOK, CountIn
<1>8. ListOK'
  BY <1>2 DEF ResponsesInv, ListOK
<1>. QED
  BY <1>2, <1>4, <1>5, <1>6, <1>7, <1>8 DEF ResponsesInv

\* A step of a handler that leaves the list and the gate alone.
LEMMA HandlerStep ==
    ASSUME ResponsesInv, NEW h \in Handlers, NEW b, AnswerOK(b, response_now),
           handlers' = [handlers EXCEPT ![h] = b], b.step # "push" \/ b.status # "success",
           UNCHANGED <<response_now, last_recent_success, recent_responses, service, kept>>,
           last_response' \in 0 .. ResponseTimeLimit, CountersOK',
           responses_total <= responses_total', response_errors <= response_errors',
           response_not_found <= response_not_found'
    PROVE  ResponsesInv'
<1>1. HandlersOK'
  BY HandlersKeep
<1>2. responses_total' \in Nat /\ response_errors' \in Nat /\ response_not_found' \in Nat
  BY DEF CountersOK
<1>3. SnapshotOK'
  BY <1>2, SnapshotKeeps
<1>4. SpacingOK(handlers, kept, last_recent_success)'
  BY SpacingKeeps DEF ResponsesInv, HandlersOK
<1>5. ListOK'
  BY DEF ResponsesInv, ListOK
<1>. QED
  BY <1>1, <1>3, <1>4, <1>5 DEF ResponsesInv

LEMMA CountTotalKeeps ==
    ASSUME ResponsesInv, NEW h \in Handlers, CountTotal(h)
    PROVE  ResponsesInv'
<1>1. PICK a, step, b :
         /\ a = handlers[h] /\ step = IF Failed(a.status) THEN "errors" ELSE "last"
         /\ b = [step |-> step, at |-> a.at, status |-> a.status]
  OBVIOUS
<1>2. /\ a.step = "total" /\ responses_total' = responses_total + 1 /\ Goto(h, step)
      /\ UNCHANGED <<response_now, response_errors, response_not_found, last_response,
                     last_recent_success, recent_responses, service, kept>>
  BY <1>1 DEF CountTotal
<1>3. /\ handlers' = [handlers EXCEPT ![h] = b]
      /\ a.at \in 1 .. response_now /\ a.status \in Statuses
  BY <1>1, <1>2, GotoMeans
<1>4. /\ b.step = step /\ b.at = a.at /\ b.status = a.status /\ b = [step |-> b.step, at |-> b.at, status |-> b.status]
      /\ step \in {"errors", "last"} /\ (step = "errors" <=> a.status # "success")
  BY <1>1 DEF Failed
<1>5. AnswerOK(b, response_now)
  BY <1>3, <1>4 DEF AnswerOK
<1>6. CountersOK'
  <2>1. handlers'[h] = b
    BY <1>3, Moves
  <2>2. /\ h \in Uncounted(handlers) /\ h \notin Uncounted(handlers')
        /\ h \notin Counted(handlers) /\ h \in Counted(handlers')
        /\ h \notin ErrorDue(handlers)
        /\ h \notin MissingDue(handlers) /\ h \notin MissingDue(handlers')
        /\ h \notin ErrorHeld(handlers) /\ h \notin ErrorHeld(handlers')
        /\ h \notin MissingHeld(handlers) /\ h \notin MissingHeld(handlers')
    BY <1>1, <1>2, <1>4, <2>1, Phases DEF Failures
  <2>3. /\ Cardinality(Uncounted(handlers)) = Cardinality(Uncounted(handlers')) + 1
        /\ Cardinality(Counted(handlers')) = Cardinality(Counted(handlers)) + 1
        /\ \/ Cardinality(ErrorDue(handlers')) = Cardinality(ErrorDue(handlers))
           \/ Cardinality(ErrorDue(handlers')) = Cardinality(ErrorDue(handlers)) + 1
        /\ Cardinality(MissingDue(handlers')) = Cardinality(MissingDue(handlers))
        /\ Cardinality(ErrorHeld(handlers')) = Cardinality(ErrorHeld(handlers))
        /\ Cardinality(MissingHeld(handlers')) = Cardinality(MissingHeld(handlers))
    BY <1>3, <2>2, Moves, Zenon DEF Tallied
  <2>4. /\ Cardinality(Uncounted(handlers')) \in Nat /\ Cardinality(Counted(handlers)) \in Nat
        /\ Cardinality(ErrorDue(handlers)) \in Nat
    BY <1>3, Moves, Zenon DEF Tallied
  <2>5. /\ responses_total' + Cardinality(Uncounted(handlers')) <= ResponseLimit
        /\ Len(kept) + Cardinality(Counted(handlers')) <= responses_total'
        /\ response_errors + Cardinality(ErrorDue(handlers')) <= responses_total'
        /\ responses_total' \in Nat
    <3>1. /\ responses_total + Cardinality(Uncounted(handlers)) <= ResponseLimit
          /\ Len(kept) + Cardinality(Counted(handlers)) <= responses_total
          /\ response_errors + Cardinality(ErrorDue(handlers)) <= responses_total
      BY DEF ResponsesInv, CountersOK
    <3>2. /\ responses_total \in Nat /\ response_errors \in Nat /\ Len(kept) \in Nat
          /\ ResponseLimit \in Nat
      BY CountsBefore
    <3>3. responses_total' + Cardinality(Uncounted(handlers')) <= ResponseLimit
      BY <1>2, <2>3, <2>4, <3>1, <3>2
    <3>4. Len(kept) + Cardinality(Counted(handlers')) <= responses_total'
      BY <1>2, <2>3, <2>4, <3>1, <3>2
    <3>5. response_errors + Cardinality(ErrorDue(handlers')) <= responses_total'
      BY <1>2, <2>3, <2>4, <3>1, <3>2
    <3>. QED
      BY <1>2, <3>2, <3>3, <3>4, <3>5
  <2>. QED
    BY <1>2, <2>3, <2>5 DEF ResponsesInv, CountersOK, CountIn
<1>7. responses_total <= responses_total'
  BY <1>2, CountsBefore
<1>8. response_errors <= response_errors' /\ response_not_found <= response_not_found'
  BY <1>2, CountsBefore
<1>9. last_response' \in 0 .. ResponseTimeLimit
  BY <1>2 DEF ResponsesInv
<1>10. b.step # "push"
  BY <1>4
<1>. QED
  BY <1>2, <1>3, <1>5, <1>6, <1>7, <1>8, <1>9, <1>10, HandlerStep

LEMMA CountErrorKeeps ==
    ASSUME ResponsesInv, NEW h \in Handlers, CountError(h)
    PROVE  ResponsesInv'
<1>1. PICK a, step, b :
         /\ a = handlers[h] /\ step = IF a.status = "not_found" THEN "missing" ELSE "last"
         /\ b = [step |-> step, at |-> a.at, status |-> a.status]
  OBVIOUS
<1>2. /\ a.step = "errors" /\ response_errors' = response_errors + 1 /\ Goto(h, step)
      /\ UNCHANGED <<response_now, responses_total, response_not_found, last_response,
                     last_recent_success, recent_responses, service, kept>>
  BY <1>1 DEF CountError
<1>3. /\ handlers' = [handlers EXCEPT ![h] = b]
      /\ a.at \in 1 .. response_now /\ a.status \in Statuses /\ a.status # "success"
  BY <1>1, <1>2, GotoMeans
<1>4. /\ b.step = step /\ b.at = a.at /\ b.status = a.status /\ b = [step |-> b.step, at |-> b.at, status |-> b.status]
      /\ step \in {"missing", "last"} /\ (step = "missing" <=> a.status = "not_found")
  BY <1>1
<1>5. AnswerOK(b, response_now)
  BY <1>3, <1>4 DEF AnswerOK
<1>6. CountersOK'
  <2>1. handlers'[h] = b
    BY <1>3, Moves
  <2>2. /\ h \notin Uncounted(handlers) /\ h \notin Uncounted(handlers')
        /\ h \in Counted(handlers) /\ h \in Counted(handlers')
        /\ h \in ErrorDue(handlers) /\ h \notin ErrorDue(handlers')
        /\ h \notin MissingDue(handlers)
        /\ h \notin ErrorHeld(handlers) /\ h \in ErrorHeld(handlers')
        /\ h \notin MissingHeld(handlers) /\ h \notin MissingHeld(handlers')
    <3>1. /\ handlers[h].step = "errors" /\ handlers'[h].step \in {"missing", "last"}
          /\ handlers'[h].status \in Failures
          /\ handlers'[h].step = "last" => handlers'[h].status # "not_found"
      BY <1>1, <1>2, <1>3, <1>4, <2>1 DEF Failures
    <3>. QED
      BY <3>1, Phases
  <2>3. /\ Cardinality(Uncounted(handlers')) = Cardinality(Uncounted(handlers))
        /\ Cardinality(Counted(handlers')) = Cardinality(Counted(handlers))
        /\ Cardinality(ErrorDue(handlers)) = Cardinality(ErrorDue(handlers')) + 1
        /\ \/ Cardinality(MissingDue(handlers')) = Cardinality(MissingDue(handlers))
           \/ Cardinality(MissingDue(handlers')) = Cardinality(MissingDue(handlers)) + 1
        /\ Cardinality(ErrorHeld(handlers')) = Cardinality(ErrorHeld(handlers)) + 1
        /\ Cardinality(MissingHeld(handlers')) = Cardinality(MissingHeld(handlers))
    BY <1>3, <2>2, Moves, Zenon DEF Tallied
  <2>4. /\ Cardinality(ErrorDue(handlers')) \in Nat /\ Cardinality(MissingDue(handlers)) \in Nat
        /\ Cardinality(ErrorHeld(handlers)) \in Nat
    BY <1>3, Moves, Zenon DEF Tallied
  <2>5. /\ response_errors' + Cardinality(ErrorDue(handlers')) <= responses_total
        /\ response_not_found + Cardinality(MissingDue(handlers')) <= response_errors'
        /\ CountIn(kept, Failures) + Cardinality(ErrorHeld(handlers')) <= response_errors'
        /\ response_errors' \in Nat
    <3>1. /\ response_errors + Cardinality(ErrorDue(handlers)) <= responses_total
          /\ response_not_found + Cardinality(MissingDue(handlers)) <= response_errors
          /\ CountIn(kept, Failures) + Cardinality(ErrorHeld(handlers)) <= response_errors
      BY DEF ResponsesInv, CountersOK
    <3>2. /\ responses_total \in Nat /\ response_errors \in Nat /\ response_not_found \in Nat
          /\ CountIn(kept, Failures) \in Nat
      BY CountsBefore
    <3>3. response_errors' + Cardinality(ErrorDue(handlers')) <= responses_total
      BY <1>2, <2>3, <2>4, <3>1, <3>2
    <3>4. response_not_found + Cardinality(MissingDue(handlers')) <= response_errors'
      BY <1>2, <2>3, <2>4, <3>1, <3>2
    <3>5. CountIn(kept, Failures) + Cardinality(ErrorHeld(handlers')) <= response_errors'
      BY <1>2, <2>3, <2>4, <3>1, <3>2
    <3>. QED
      BY <1>2, <3>2, <3>3, <3>4, <3>5
  <2>. QED
    BY <1>2, <2>3, <2>5 DEF ResponsesInv, CountersOK, CountIn
<1>7. response_errors <= response_errors'
  BY <1>2, CountsBefore
<1>8. responses_total <= responses_total' /\ response_not_found <= response_not_found'
  BY <1>2, CountsBefore
<1>9. last_response' \in 0 .. ResponseTimeLimit
  BY <1>2 DEF ResponsesInv
<1>10. b.step # "push"
  BY <1>4
<1>. QED
  BY <1>2, <1>3, <1>5, <1>6, <1>7, <1>8, <1>9, <1>10, HandlerStep

LEMMA CountNotFoundKeeps ==
    ASSUME ResponsesInv, NEW h \in Handlers, CountNotFound(h)
    PROVE  ResponsesInv'
<1>1. PICK a, b : a = handlers[h] /\ b = [step |-> "last", at |-> a.at, status |-> a.status]
  OBVIOUS
<1>2. /\ a.step = "missing" /\ response_not_found' = response_not_found + 1 /\ Goto(h, "last")
      /\ UNCHANGED <<response_now, responses_total, response_errors, last_response,
                     last_recent_success, recent_responses, service, kept>>
  BY <1>1 DEF CountNotFound
<1>3. /\ handlers' = [handlers EXCEPT ![h] = b]
      /\ a.at \in 1 .. response_now /\ a.status \in Statuses /\ a.status = "not_found"
  BY <1>1, <1>2, GotoMeans
<1>4. /\ b.step = "last" /\ b.at = a.at /\ b.status = a.status
      /\ b = [step |-> b.step, at |-> b.at, status |-> b.status]
  BY <1>1
<1>5. AnswerOK(b, response_now)
  BY <1>3, <1>4 DEF AnswerOK
<1>6. CountersOK'
  <2>1. handlers'[h] = b
    BY <1>3, Moves
  <2>2. /\ h \notin Uncounted(handlers) /\ h \notin Uncounted(handlers')
        /\ h \in Counted(handlers) /\ h \in Counted(handlers')
        /\ h \notin ErrorDue(handlers) /\ h \notin ErrorDue(handlers')
        /\ h \in MissingDue(handlers) /\ h \notin MissingDue(handlers')
        /\ h \in ErrorHeld(handlers) /\ h \in ErrorHeld(handlers')
        /\ h \notin MissingHeld(handlers) /\ h \in MissingHeld(handlers')
    <3>1. /\ handlers[h].step = "missing" /\ handlers'[h].step = "last"
          /\ handlers'[h].status = "not_found" /\ handlers[h].status = "not_found"
      BY <1>1, <1>2, <1>3, <1>4, <2>1
    <3>2. "not_found" \in Failures
      BY DEF Failures, Statuses
    <3>. QED
      BY <3>1, <3>2, Phases
  <2>3. /\ Cardinality(Uncounted(handlers')) = Cardinality(Uncounted(handlers))
        /\ Cardinality(Counted(handlers')) = Cardinality(Counted(handlers))
        /\ Cardinality(ErrorDue(handlers')) = Cardinality(ErrorDue(handlers))
        /\ Cardinality(MissingDue(handlers)) = Cardinality(MissingDue(handlers')) + 1
        /\ Cardinality(ErrorHeld(handlers')) = Cardinality(ErrorHeld(handlers))
        /\ Cardinality(MissingHeld(handlers')) = Cardinality(MissingHeld(handlers)) + 1
    BY <1>3, <2>2, Moves, Zenon DEF Tallied
  <2>4. /\ Cardinality(MissingDue(handlers')) \in Nat /\ Cardinality(MissingHeld(handlers)) \in Nat
    BY <1>3, Moves, Zenon DEF Tallied
  <2>5. /\ response_not_found' + Cardinality(MissingDue(handlers')) <= response_errors
        /\ CountIn(kept, {"not_found"}) + Cardinality(MissingHeld(handlers')) <= response_not_found'
        /\ response_not_found' \in Nat
    <3>1. /\ response_not_found + Cardinality(MissingDue(handlers)) <= response_errors
          /\ CountIn(kept, {"not_found"}) + Cardinality(MissingHeld(handlers)) <= response_not_found
      BY DEF ResponsesInv, CountersOK
    <3>2. /\ response_errors \in Nat /\ response_not_found \in Nat
          /\ CountIn(kept, {"not_found"}) \in Nat
      BY CountsBefore
    <3>3. response_not_found' + Cardinality(MissingDue(handlers')) <= response_errors
      BY <1>2, <2>3, <2>4, <3>1, <3>2
    <3>4. CountIn(kept, {"not_found"}) + Cardinality(MissingHeld(handlers')) <= response_not_found'
      BY <1>2, <2>3, <2>4, <3>1, <3>2
    <3>. QED
      BY <1>2, <3>2, <3>3, <3>4
  <2>. QED
    BY <1>2, <2>3, <2>5 DEF ResponsesInv, CountersOK, CountIn
<1>7. response_not_found <= response_not_found'
  BY <1>2, CountsBefore
<1>8. responses_total <= responses_total' /\ response_errors <= response_errors'
  BY <1>2, CountsBefore
<1>9. last_response' \in 0 .. ResponseTimeLimit
  BY <1>2 DEF ResponsesInv
<1>10. b.step # "push"
  BY <1>4
<1>. QED
  BY <1>2, <1>3, <1>5, <1>6, <1>7, <1>8, <1>9, <1>10, HandlerStep

LEMMA StoreLastKeeps ==
    ASSUME ResponsesInv, NEW h \in Handlers, StoreLast(h)
    PROVE  ResponsesInv'
<1>1. PICK a, step, b :
         /\ a = handlers[h] /\ step = IF Failed(a.status) THEN "push" ELSE "gate"
         /\ b = [step |-> step, at |-> a.at, status |-> a.status]
  OBVIOUS
<1>2. /\ a.step = "last" /\ last_response' = a.at /\ Goto(h, step)
      /\ UNCHANGED <<response_now, responses_total, response_errors, response_not_found,
                     last_recent_success, recent_responses, service, kept>>
  BY <1>1 DEF StoreLast
<1>3. /\ handlers' = [handlers EXCEPT ![h] = b]
      /\ a.at \in 1 .. response_now /\ a.status \in Statuses
  BY <1>1, <1>2, GotoMeans
<1>4. /\ b.step = step /\ b.at = a.at /\ b.status = a.status /\ b = [step |-> b.step, at |-> b.at, status |-> b.status]
      /\ step \in {"push", "gate"} /\ (step = "push" <=> a.status # "success")
  BY <1>1 DEF Failed
<1>5. AnswerOK(b, response_now)
  BY <1>3, <1>4 DEF AnswerOK
<1>6. CountersOK'
  <2>1. handlers'[h] = b
    BY <1>3, Moves
  <2>2. /\ h \in Uncounted(handlers) <=> h \in Uncounted(handlers')
        /\ h \in Counted(handlers) <=> h \in Counted(handlers')
        /\ h \in ErrorDue(handlers) <=> h \in ErrorDue(handlers')
        /\ h \in MissingDue(handlers) <=> h \in MissingDue(handlers')
        /\ h \in ErrorHeld(handlers) <=> h \in ErrorHeld(handlers')
        /\ h \in MissingHeld(handlers) <=> h \in MissingHeld(handlers')
    <3>1. /\ handlers[h].step = "last" /\ handlers'[h].step \in {"push", "gate"}
          /\ handlers'[h].status = handlers[h].status
          /\ handlers'[h].step = "gate" => handlers[h].status = "success"
      BY <1>1, <1>2, <1>4, <2>1
    <3>2. handlers[h].status \in Failures => handlers[h].status # "success"
      BY DEF Failures
    <3>. QED
      BY <3>1, <3>2, Phases
  <2>3. /\ Cardinality(Uncounted(handlers')) = Cardinality(Uncounted(handlers))
        /\ Cardinality(Counted(handlers')) = Cardinality(Counted(handlers))
        /\ Cardinality(ErrorDue(handlers')) = Cardinality(ErrorDue(handlers))
        /\ Cardinality(MissingDue(handlers')) = Cardinality(MissingDue(handlers))
        /\ Cardinality(ErrorHeld(handlers')) = Cardinality(ErrorHeld(handlers))
        /\ Cardinality(MissingHeld(handlers')) = Cardinality(MissingHeld(handlers))
    BY <1>3, <2>2, Moves, Zenon DEF Tallied
  <2>. QED
    BY <1>2, <2>3 DEF ResponsesInv, CountersOK, CountIn
<1>7. /\ responses_total <= responses_total' /\ response_errors <= response_errors'
      /\ response_not_found <= response_not_found'
  BY <1>2, CountsBefore
<1>8. last_response' \in 0 .. ResponseTimeLimit
  BY <1>2, <1>3, ResponseLimits DEF ResponsesInv
<1>9. b.step # "push" \/ b.status # "success"
  BY <1>4
<1>. QED
  BY <1>2, <1>3, <1>5, <1>6, <1>7, <1>8, <1>9, HandlerStep

\* A success passes the gate an interval after the last one that did.
LEMMA GateSpaces ==
    ASSUME NEW hs, NEW ks \in Seq(KeptEntry), NEW last \in Nat, SpacingOK(hs, ks, last),
           DOMAIN hs = Handlers, NEW h \in Handlers, NEW b, b.at \in Nat, b.at >= 1,
           last = 0 \/ b.at - last >= SuccessInterval,
           \A o \in Handlers : Passed(hs, o) => hs[o].at \in Nat /\ hs[o].at >= 1
    PROVE  SpacingOK([hs EXCEPT ![h] = b], ks, b.at)
<1>1. PICK next, t : next = [hs EXCEPT ![h] = b] /\ t = b.at
  OBVIOUS
<1>2. next[h] = b /\ \A o \in Handlers : o # h => next[o] = hs[o]
  BY <1>1
<1>3. t \in Nat /\ t >= 1 /\ SuccessInterval \in Nat /\ (last = 0 \/ t - last >= SuccessInterval)
  BY <1>1, ResponseLimits
<1>4. ASSUME NEW x \in Nat, x >= 1, x <= last
      PROVE  x <= t /\ Apart(x, t) /\ Apart(t, x)
  BY <1>3, <1>4 DEF Apart
<1>5. ASSUME NEW i \in DOMAIN ks, ks[i].status = "success"
      PROVE  ks[i].at <= t /\ Apart(ks[i].at, t)
  <2>1. ks[i] \in KeptEntry
    OBVIOUS
  <2>2. ks[i].at \in Nat /\ ks[i].at >= 1
    BY <2>1, ResponseLimits DEF KeptEntry
  <2>3. ks[i].at <= last
    BY <1>5 DEF SpacingOK
  <2>. QED
    BY <1>4, <2>2, <2>3
<1>6. ASSUME NEW o \in Handlers, o # h, Passed(next, o)
      PROVE  Passed(hs, o) /\ next[o] = hs[o] /\ next[o].at <= t /\ Apart(next[o].at, t) /\ Apart(t, next[o].at)
  <2>1. Passed(hs, o) /\ next[o] = hs[o]
    BY <1>2, <1>6 DEF Passed
  <2>2. hs[o].at <= last /\ hs[o].at \in Nat /\ hs[o].at >= 1
    BY <2>1 DEF SpacingOK
  <2>. QED
    BY <1>4, <2>1, <2>2
<1>7. next[h].at = t
  BY <1>1, <1>2
<1>8. \A o \in Handlers : Passed(next, o) => next[o].at <= t
  <2>1. t <= t
    BY <1>3
  <2>. QED
    BY <1>6, <1>7, <2>1
<1>9. \A i \in DOMAIN ks : \A o \in Handlers :
         ks[i].status = "success" /\ Passed(next, o) => Apart(ks[i].at, next[o].at)
  <2>. SUFFICES ASSUME NEW i \in DOMAIN ks, NEW o \in Handlers, ks[i].status = "success",
                       Passed(next, o)
                PROVE  Apart(ks[i].at, next[o].at)
    OBVIOUS
  <2>1. CASE o = h
    BY <1>5, <1>7, <2>1
  <2>2. CASE o # h
    BY <1>6, <2>2 DEF SpacingOK
  <2>. QED
    BY <2>1, <2>2
<1>10. \A o, q \in Handlers : o # q /\ Passed(next, o) /\ Passed(next, q) =>
          Apart(next[o].at, next[q].at)
  <2>. SUFFICES ASSUME NEW o \in Handlers, NEW q \in Handlers, o # q, Passed(next, o),
                       Passed(next, q)
                PROVE  Apart(next[o].at, next[q].at)
    OBVIOUS
  <2>1. CASE o = h
    BY <1>6, <1>7, <2>1
  <2>2. CASE q = h
    BY <1>6, <1>7, <2>2
  <2>3. CASE o # h /\ q # h
    <3>1. Passed(hs, o) /\ Passed(hs, q) /\ next[o] = hs[o] /\ next[q] = hs[q]
      BY <1>6, <2>3
    <3>. QED
      BY <3>1 DEF SpacingOK
  <2>. QED
    BY <2>1, <2>2, <2>3
<1>11. SpacingOK(next, ks, t)
  <2>1. \A i, j \in DOMAIN ks :
          i # j /\ ks[i].status = "success" /\ ks[j].status = "success" => Apart(ks[i].at, ks[j].at)
    BY DEF SpacingOK
  <2>2. \A i \in DOMAIN ks : ks[i].status = "success" => ks[i].at <= t
    BY <1>5
  <2>. QED
    BY <1>8, <1>9, <1>10, <2>1, <2>2, Zenon DEF SpacingOK
<1>. QED
  BY <1>1, <1>11

LEMMA PassGateKeeps ==
    ASSUME ResponsesInv, NEW h \in Handlers, PassGate(h)
    PROVE  ResponsesInv'
<1>1. PICK a : a = handlers[h]
  OBVIOUS
<1>2. /\ a.step = "gate"
      /\ UNCHANGED <<response_now, responses_total, response_errors, response_not_found,
                     last_response, recent_responses, service, kept>>
  BY <1>1 DEF PassGate
<1>3. /\ AnswerOK(a, response_now) /\ a # NoAnswerYet
      /\ a.at \in 1 .. response_now /\ a.status = "success"
  <2>1. AnswerOK(a, response_now) /\ a # NoAnswerYet
    BY <1>1, <1>2 DEF ResponsesInv, HandlersOK, NoAnswerYet
  <2>. QED
    BY <1>2, <2>1 DEF AnswerOK
<1>4. PICK b : /\ handlers' = [handlers EXCEPT ![h] = b]
               /\ \/ b = NoAnswerYet /\ UNCHANGED last_recent_success
                  \/ /\ b = [step |-> "push", at |-> a.at, status |-> a.status]
                     /\ SuccessDue(a.at) /\ last_recent_success' = a.at
  <2>1. CASE SuccessDue(a.at)
    <3>1. Goto(h, "push") /\ last_recent_success' = a.at
      BY <1>1, <2>1 DEF PassGate
    <3>2. handlers' = [handlers EXCEPT ![h] = [step |-> "push", at |-> a.at, status |-> a.status]]
      BY <1>1, <1>2, <3>1, GotoMeans
    <3>. QED
      BY <2>1, <3>1, <3>2
  <2>2. CASE ~SuccessDue(a.at)
    BY <1>1, <2>2 DEF PassGate
  <2>. QED
    BY <2>1, <2>2
<1>5. CountersOK'
  <2>1. handlers'[h] = b
    BY <1>4, Moves
  <2>2. /\ h \notin Uncounted(handlers) /\ h \notin Uncounted(handlers')
        /\ h \in Counted(handlers)
        /\ h \notin ErrorDue(handlers) /\ h \notin ErrorDue(handlers')
        /\ h \notin MissingDue(handlers) /\ h \notin MissingDue(handlers')
        /\ h \notin ErrorHeld(handlers) /\ h \notin ErrorHeld(handlers')
        /\ h \notin MissingHeld(handlers) /\ h \notin MissingHeld(handlers')
    <3>1. /\ handlers[h].step = "gate"
          /\ \/ handlers'[h].step = "idle"
             \/ handlers'[h].step = "push" /\ handlers'[h].status = "success"
      BY <1>1, <1>2, <1>3, <1>4, <2>1 DEF NoAnswerYet
    <3>2. "success" \notin Failures
      BY DEF Failures
    <3>. QED
      BY <3>1, <3>2, Phases
  <2>3. /\ Cardinality(Uncounted(handlers')) = Cardinality(Uncounted(handlers))
        /\ \/ Cardinality(Counted(handlers)) = Cardinality(Counted(handlers'))
           \/ Cardinality(Counted(handlers)) = Cardinality(Counted(handlers')) + 1
        /\ Cardinality(ErrorDue(handlers')) = Cardinality(ErrorDue(handlers))
        /\ Cardinality(MissingDue(handlers')) = Cardinality(MissingDue(handlers))
        /\ Cardinality(ErrorHeld(handlers')) = Cardinality(ErrorHeld(handlers))
        /\ Cardinality(MissingHeld(handlers')) = Cardinality(MissingHeld(handlers))
    BY <1>4, <2>2, Moves, Zenon DEF Tallied
  <2>4. Len(kept) + Cardinality(Counted(handlers')) <= responses_total
    <3>1. Len(kept) + Cardinality(Counted(handlers)) <= responses_total
      BY DEF ResponsesInv, CountersOK
    <3>2. Cardinality(Counted(handlers')) \in Nat
      BY <1>4, Moves, Zenon DEF Tallied
    <3>3. Len(kept) \in Nat /\ responses_total \in Nat
      BY CountsBefore
    <3>. QED
      BY <2>3, <3>1, <3>2, <3>3
  <2>. QED
    BY <1>2, <2>3, <2>4 DEF ResponsesInv, CountersOK, CountIn
<1>6. /\ responses_total <= responses_total' /\ response_errors <= response_errors'
      /\ response_not_found <= response_not_found'
  BY <1>2, CountsBefore
<1>7. CASE b = NoAnswerYet /\ UNCHANGED last_recent_success
  <2>1. AnswerOK(b, response_now) /\ b.step # "push"
    BY <1>7 DEF AnswerOK, NoAnswerYet
  <2>2. last_response' \in 0 .. ResponseTimeLimit
    BY <1>2 DEF ResponsesInv
  <2>. QED
    BY <1>2, <1>4, <1>5, <1>6, <1>7, <2>1, <2>2, HandlerStep
<1>8. CASE /\ b = [step |-> "push", at |-> a.at, status |-> a.status]
           /\ SuccessDue(a.at) /\ last_recent_success' = a.at
  <2>1. b.at = a.at /\ AnswerOK(b, response_now)
    BY <1>3, <1>8 DEF AnswerOK, Statuses
  <2>2. HandlersOK'
    BY <1>2, <1>4, <2>1, HandlersKeep
  <2>3. SnapshotOK'
    BY <1>2, <1>6, CountsBefore, SnapshotKeeps
  <2>4. SpacingOK([handlers EXCEPT ![h] = b], kept, b.at)
    <3>1. DOMAIN handlers = Handlers /\ kept \in Seq(KeptEntry) /\ last_recent_success \in Nat
      BY ResponseLimits DEF ResponsesInv, HandlersOK, ListOK
    <3>2. b.at \in Nat /\ b.at >= 1
      BY <1>3, <2>1 DEF ResponsesInv
    <3>3. last_recent_success = 0 \/ b.at - last_recent_success >= SuccessInterval
      BY <1>8, <2>1 DEF SuccessDue, NoTime
    <3>4. ASSUME NEW o \in Handlers, Passed(handlers, o)
          PROVE  handlers[o].at \in Nat /\ handlers[o].at >= 1
      <4>1. AnswerOK(handlers[o], response_now) /\ handlers[o] # NoAnswerYet
        BY <3>4 DEF ResponsesInv, HandlersOK, Passed, NoAnswerYet
      <4>2. handlers[o].at \in 1 .. response_now
        BY <4>1 DEF AnswerOK
      <4>. QED
        BY <4>2 DEF ResponsesInv
    <3>5. SpacingOK(handlers, kept, last_recent_success)
      BY DEF ResponsesInv
    <3>. QED
      BY <3>1, <3>2, <3>3, <3>4, <3>5, GateSpaces
  <2>5. SpacingOK(handlers, kept, last_recent_success)'
    BY <1>2, <1>4, <1>8, <2>1, <2>4
  <2>6. ListOK'
    BY <1>2 DEF ResponsesInv, ListOK
  <2>7. last_recent_success' \in 0 .. ResponseTimeLimit
    BY <1>3, <1>8, ResponseLimits DEF ResponsesInv
  <2>. QED
    BY <1>2, <1>5, <2>2, <2>3, <2>5, <2>6, <2>7 DEF ResponsesInv
<1>. QED
  BY <1>4, <1>7, <1>8

\* The newest end of a list with an entry in front.
LEMMA PushList ==
    ASSUME NEW ks \in Seq(KeptEntry), NEW e \in KeptEntry, NEW recent,
           recent = SubSeq(ks, 1, Min({Len(ks), RecentLimit}))
    PROVE  SubSeq(<<e>> \o recent, 1, Min({Len(recent) + 1, RecentLimit}))
             = SubSeq(<<e>> \o ks, 1, Min({Len(ks) + 1, RecentLimit}))
<1>1. PICK n, m : n = Len(ks) /\ m = Min({n, RecentLimit})
  OBVIOUS
<1>2. n \in Nat /\ RecentLimit \in Nat /\ RecentLimit >= 1
  BY <1>1, ResponseLimits
<1>3. m = IF n <= RecentLimit THEN n ELSE RecentLimit
  BY <1>1, <1>2, MinOfTwo
<1>4. m \in 0 .. n /\ m <= RecentLimit
  BY <1>2, <1>3
<1>5. /\ recent \in Seq(KeptEntry) /\ Len(recent) = m /\ DOMAIN recent = 1 .. m
      /\ \A i \in 1 .. m : recent[i] = ks[i]
  <2>1. recent = SubSeq(ks, 1, m)
    BY <1>1
  <2>2. m \in 0 .. Len(ks)
    BY <1>1, <1>4
  <2>3. SubSeq(ks, 1, m) \in Seq(KeptEntry) /\ Len(SubSeq(ks, 1, m)) = m
    BY <2>2
  <2>4. \A i \in 1 .. m : SubSeq(ks, 1, m)[i] = ks[i]
    BY <2>2
  <2>5. DOMAIN SubSeq(ks, 1, m) = 1 .. m
    BY <2>3
  <2>. QED
    BY <2>1, <2>3, <2>4, <2>5, Zenon
<1>6. PICK k : k = Min({m + 1, RecentLimit})
  OBVIOUS
<1>7. k = Min({n + 1, RecentLimit}) /\ k \in 1 .. (m + 1)
  <2>1. k = IF m + 1 <= RecentLimit THEN m + 1 ELSE RecentLimit
    BY <1>2, <1>4, <1>6, MinOfTwo
  <2>2. PICK l : l = Min({n + 1, RecentLimit})
    OBVIOUS
  <2>3. l = IF n + 1 <= RecentLimit THEN n + 1 ELSE RecentLimit
    BY <1>2, <2>2, MinOfTwo
  <2>4. k = l /\ k \in 1 .. (m + 1)
    BY <1>2, <1>3, <1>4, <2>1, <2>3
  <2>. QED
    BY <2>2, <2>4
<1>8. PICK r, s : r = <<e>> \o recent /\ s = <<e>> \o ks
  OBVIOUS
<1>9. /\ r \in Seq(KeptEntry) /\ Len(r) = m + 1 /\ r[1] = e
      /\ \A i \in 2 .. (m + 1) : r[i] = recent[i - 1]
  BY <1>5, <1>8, PushFront
<1>10. /\ s \in Seq(KeptEntry) /\ Len(s) = n + 1 /\ s[1] = e
       /\ \A i \in 2 .. (n + 1) : s[i] = ks[i - 1]
  BY <1>1, <1>8, PushFront
<1>11. \A i \in 1 .. k : r[i] = s[i]
  <2>. SUFFICES ASSUME NEW i \in 1 .. k
                PROVE  r[i] = s[i]
    OBVIOUS
  <2>1. CASE i = 1
    BY <1>9, <1>10, <2>1
  <2>2. CASE i # 1
    <3>1. i \in 2 .. (m + 1) /\ i \in 2 .. (n + 1) /\ i - 1 \in 1 .. m
      BY <1>2, <1>4, <1>7, <2>2
    <3>. QED
      BY <1>5, <1>9, <1>10, <3>1
  <2>. QED
    BY <2>1, <2>2
<1>12. SubSeq(r, 1, k) = [i \in 1 .. k |-> r[i]] /\ SubSeq(s, 1, k) = [i \in 1 .. k |-> s[i]]
  <2>1. k \in 0 .. Len(r) /\ k \in 0 .. Len(s)
    BY <1>2, <1>4, <1>7, <1>9, <1>10
  <2>. QED
    BY <1>9, <1>10, <2>1
<1>13. SubSeq(r, 1, k) = SubSeq(s, 1, k)
  BY <1>11, <1>12, Zenon
<1>. QED
  BY <1>1, <1>5, <1>6, <1>7, <1>8, <1>13

\* A success that passed the gate gets to the list.
LEMMA PushSpaces ==
    ASSUME NEW hs, NEW ks \in Seq(KeptEntry), NEW last, SpacingOK(hs, ks, last),
           DOMAIN hs = Handlers, NEW h \in Handlers, NEW e \in KeptEntry,
           e.status = "success" => Passed(hs, h) /\ hs[h].at = e.at
    PROVE  SpacingOK([hs EXCEPT ![h] = NoAnswerYet], <<e>> \o ks, last)
<1>1. PICK next, new : next = [hs EXCEPT ![h] = NoAnswerYet] /\ new = <<e>> \o ks
  OBVIOUS
<1>2. ~Passed(next, h) /\ \A o \in Handlers : o # h => next[o] = hs[o]
  BY <1>1 DEF Passed, NoAnswerYet
<1>3. \A o \in Handlers : Passed(next, o) => Passed(hs, o) /\ next[o] = hs[o] /\ o # h
  BY <1>2 DEF Passed
<1>4. /\ DOMAIN new = 1 .. (Len(ks) + 1) /\ new[1] = e /\ Len(ks) \in Nat
      /\ \A i \in 2 .. (Len(ks) + 1) : new[i] = ks[i - 1] /\ i - 1 \in DOMAIN ks
  BY <1>1, PushFront
<1>5. /\ \A i \in DOMAIN ks : ks[i].status = "success" => ks[i].at <= last
      /\ \A o \in Handlers : Passed(hs, o) => hs[o].at <= last
      /\ \A i \in DOMAIN ks : \A o \in Handlers :
            ks[i].status = "success" /\ Passed(hs, o) => Apart(ks[i].at, hs[o].at)
      /\ \A o, q \in Handlers : o # q /\ Passed(hs, o) /\ Passed(hs, q) => Apart(hs[o].at, hs[q].at)
      /\ \A i, j \in DOMAIN ks :
            i # j /\ ks[i].status = "success" /\ ks[j].status = "success" =>
                Apart(ks[i].at, ks[j].at)
  BY Zenon DEF SpacingOK
<1>6. \A x, y : Apart(x, y) => Apart(y, x)
  BY DEF Apart
<1>7. ASSUME NEW i \in DOMAIN new
      PROVE  \/ i = 1 /\ new[i] = e
             \/ i # 1 /\ new[i] = ks[i - 1] /\ i - 1 \in DOMAIN ks /\ i \in Nat
  BY <1>4
<1>8. \A i \in DOMAIN new : new[i].status = "success" => new[i].at <= last
  BY <1>5, <1>7
<1>9. \A i \in DOMAIN new : \A o \in Handlers :
         new[i].status = "success" /\ Passed(next, o) => Apart(new[i].at, next[o].at)
  BY <1>3, <1>5, <1>7
<1>10. ASSUME NEW i \in DOMAIN new, NEW j \in DOMAIN new, i # j, new[i].status = "success",
              new[j].status = "success"
       PROVE  Apart(new[i].at, new[j].at)
  <2>1. CASE i = 1
    <3>1. new[j] = ks[j - 1] /\ j - 1 \in DOMAIN ks /\ new[i] = e
      BY <1>7, <1>10, <2>1
    <3>. QED
      BY <1>5, <1>6, <1>10, <3>1
  <2>2. CASE j = 1
    <3>1. new[i] = ks[i - 1] /\ i - 1 \in DOMAIN ks /\ new[j] = e
      BY <1>7, <1>10, <2>2
    <3>. QED
      BY <1>5, <1>10, <3>1
  <2>3. CASE i # 1 /\ j # 1
    <3>1. /\ new[i] = ks[i - 1] /\ i - 1 \in DOMAIN ks /\ new[j] = ks[j - 1] /\ j - 1 \in DOMAIN ks
          /\ i \in Nat /\ j \in Nat
      BY <1>7, <2>3
    <3>2. i - 1 # j - 1
      BY <1>10, <3>1
    <3>. QED
      BY <1>5, <1>10, <3>1, <3>2
  <2>. QED
    BY <2>1, <2>2, <2>3
<1>11. \A o \in Handlers : Passed(next, o) => next[o].at <= last
  BY <1>3, <1>5
<1>12. \A o, q \in Handlers : o # q /\ Passed(next, o) /\ Passed(next, q) =>
          Apart(next[o].at, next[q].at)
  BY <1>3, <1>5
<1>13. SpacingOK(next, new, last)
  BY <1>8, <1>9, <1>10, <1>11, <1>12, Zenon DEF SpacingOK
<1>. QED
  BY <1>1, <1>13

LEMMA PushRecentKeeps ==
    ASSUME ResponsesInv, NEW h \in Handlers, PushRecent(h)
    PROVE  ResponsesInv'
<1>1. PICK a, e : a = handlers[h] /\ e = [at |-> a.at, status |-> a.status]
  OBVIOUS
<1>2. /\ a.step = "push"
      /\ recent_responses' = SubSeq(<<e>> \o recent_responses, 1,
                                    Min({Len(recent_responses) + 1, RecentLimit}))
      /\ kept' = <<e>> \o kept /\ handlers' = [handlers EXCEPT ![h] = NoAnswerYet]
      /\ UNCHANGED <<response_now, responses_total, response_errors, response_not_found,
                     last_response, last_recent_success, service>>
  BY <1>1 DEF PushRecent
<1>3. a.at \in 1 .. response_now /\ a.status \in Statuses
  <2>1. AnswerOK(a, response_now) /\ a # NoAnswerYet
    BY <1>1, <1>2 DEF ResponsesInv, HandlersOK, NoAnswerYet
  <2>. QED
    BY <1>2, <2>1 DEF AnswerOK
<1>4. e \in KeptEntry /\ e.status = a.status /\ e.at = a.at
  BY <1>1, <1>3, ResponseLimits DEF KeptEntry, ResponsesInv
<1>5. kept \in Seq(KeptEntry) /\ recent_responses = SubSeq(kept, 1, Min({Len(kept), RecentLimit}))
  BY DEF ResponsesInv, ListOK
<1>6. kept' \in Seq(KeptEntry) /\ Len(kept') = Len(kept) + 1
  BY <1>2, <1>4, <1>5, PushFront
<1>7. ListOK'
  <2>1. recent_responses' = SubSeq(kept', 1, Min({Len(kept) + 1, RecentLimit}))
    BY <1>2, <1>4, <1>5, PushList
  <2>. QED
    BY <1>6, <2>1 DEF ListOK
<1>8. HandlersOK'
  <2>1. AnswerOK(NoAnswerYet, response_now)
    BY DEF AnswerOK
  <2>. QED
    BY <1>2, <2>1, HandlersKeep
<1>9. SnapshotOK'
  <2>1. /\ responses_total <= responses_total' /\ response_errors <= response_errors'
        /\ response_not_found <= response_not_found'
    BY <1>2, CountsBefore
  <2>. QED
    BY <1>2, <2>1, CountsBefore, SnapshotKeeps
<1>10. SpacingOK(handlers, kept, last_recent_success)'
  <2>1. SpacingOK(handlers, kept, last_recent_success) /\ DOMAIN handlers = Handlers
    BY DEF ResponsesInv, HandlersOK
  <2>2. e.status = "success" => Passed(handlers, h) /\ handlers[h].at = e.at
    BY <1>1, <1>2, <1>4 DEF Passed
  <2>3. SpacingOK([handlers EXCEPT ![h] = NoAnswerYet], <<e>> \o kept, last_recent_success)
    BY <1>4, <1>5, <2>1, <2>2, PushSpaces
  <2>. QED
    BY <1>2, <2>3
<1>11. CountersOK'
  <2>1. handlers'[h] = NoAnswerYet
    BY <1>2, Moves
  <2>2. /\ h \notin Uncounted(handlers) /\ h \notin Uncounted(handlers')
        /\ h \in Counted(handlers) /\ h \notin Counted(handlers')
        /\ h \notin ErrorDue(handlers) /\ h \notin ErrorDue(handlers')
        /\ h \notin MissingDue(handlers) /\ h \notin MissingDue(handlers')
        /\ h \in ErrorHeld(handlers) <=> e.status \in Failures
        /\ h \notin ErrorHeld(handlers')
        /\ h \in MissingHeld(handlers) <=> e.status = "not_found"
        /\ h \notin MissingHeld(handlers')
    <3>1. /\ handlers[h].step = "push" /\ handlers'[h].step = "idle"
          /\ handlers[h].status = e.status
      BY <1>1, <1>2, <1>4, <2>1 DEF NoAnswerYet
    <3>. QED
      BY <3>1, Phases
  <2>3. /\ Cardinality(Uncounted(handlers')) = Cardinality(Uncounted(handlers))
        /\ Cardinality(Counted(handlers)) = Cardinality(Counted(handlers')) + 1
        /\ Cardinality(ErrorDue(handlers')) = Cardinality(ErrorDue(handlers))
        /\ Cardinality(MissingDue(handlers')) = Cardinality(MissingDue(handlers))
        /\ e.status \in Failures =>
              Cardinality(ErrorHeld(handlers)) = Cardinality(ErrorHeld(handlers')) + 1
        /\ e.status \notin Failures =>
              Cardinality(ErrorHeld(handlers)) = Cardinality(ErrorHeld(handlers'))
        /\ e.status = "not_found" =>
              Cardinality(MissingHeld(handlers)) = Cardinality(MissingHeld(handlers')) + 1
        /\ e.status # "not_found" =>
              Cardinality(MissingHeld(handlers)) = Cardinality(MissingHeld(handlers'))
    BY <1>2, <2>2, Moves, Zenon DEF Tallied
  <2>4. /\ Cardinality(Counted(handlers')) \in Nat /\ Cardinality(ErrorHeld(handlers')) \in Nat
        /\ Cardinality(MissingHeld(handlers')) \in Nat
    BY <1>2, Moves, Zenon DEF Tallied
  <2>5. /\ Len(kept) + Cardinality(Counted(handlers)) <= responses_total
        /\ CountIn(kept, Failures) + Cardinality(ErrorHeld(handlers)) <= response_errors
        /\ CountIn(kept, {"not_found"}) + Cardinality(MissingHeld(handlers)) <= response_not_found
    BY DEF ResponsesInv, CountersOK
  <2>6. /\ responses_total \in Nat /\ response_errors \in Nat /\ response_not_found \in Nat
        /\ CountIn(kept, Failures) \in Nat /\ CountIn(kept, {"not_found"}) \in Nat
        /\ Len(kept) \in Nat
    BY CountsBefore
  <2>7. Len(kept') + Cardinality(Counted(handlers')) <= responses_total
    BY <1>6, <2>3, <2>4, <2>5, <2>6
  <2>8. CountIn(kept', Failures) + Cardinality(ErrorHeld(handlers')) <= response_errors
    <3>1. /\ CountIn(kept', Failures) \in Nat
          /\ CountIn(kept', Failures) <= CountIn(kept, Failures) + 1
          /\ e.status \notin Failures => CountIn(kept', Failures) <= CountIn(kept, Failures)
      BY <1>2, <1>4, <1>5, <1>6, CountInNat, CountInPush
    <3>2. CASE e.status \in Failures
      BY <2>3, <2>4, <2>5, <2>6, <3>1, <3>2
    <3>3. CASE e.status \notin Failures
      BY <2>3, <2>4, <2>5, <2>6, <3>1, <3>3
    <3>. QED
      BY <3>2, <3>3
  <2>9. CountIn(kept', {"not_found"}) + Cardinality(MissingHeld(handlers')) <= response_not_found
    <3>1. PICK S : S = {"not_found"}
      OBVIOUS
    <3>2. /\ CountIn(kept', S) \in Nat /\ CountIn(kept', S) <= CountIn(kept, S) + 1
          /\ e.status \notin S => CountIn(kept', S) <= CountIn(kept, S)
      BY <1>2, <1>4, <1>5, <1>6, CountInNat, CountInPush
    <3>3. CountIn(kept, S) + Cardinality(MissingHeld(handlers)) <= response_not_found
      BY <2>5, <3>1
    <3>4. CountIn(kept, S) \in Nat /\ (e.status \notin S <=> e.status # "not_found")
      BY <2>6, <3>1
    <3>5. CountIn(kept', S) + Cardinality(MissingHeld(handlers')) <= response_not_found
      BY <2>3, <2>4, <2>6, <3>2, <3>3, <3>4
    <3>. QED
      BY <3>1, <3>5
  <2>. QED
    BY <1>2, <2>3, <2>7, <2>8, <2>9 DEF ResponsesInv, CountersOK
<1>. QED
  BY <1>2, <1>7, <1>8, <1>9, <1>10, <1>11 DEF ResponsesInv

-----------------------------------------------------------------------------
LEMMA SnapshotFields ==
    /\ Len(SnapshotOrder) = 4
    /\ SnapshotOrder[1] = "recent" /\ SnapshotOrder[2] = "responses_total"
    /\ SnapshotOrder[3] = "response_errors" /\ SnapshotOrder[4] = "response_not_found"
BY DEF SnapshotOrder

\* The list in memory is covered by the counters at any time.
LEMMA ListIsCovered ==
    ASSUME ResponsesInv
    PROVE  /\ recent_responses \in Seq(KeptEntry)
           /\ Len(recent_responses) <= responses_total
           /\ CountIn(recent_responses, Failures) <= response_errors
           /\ CountIn(recent_responses, {"not_found"}) <= response_not_found
<1>1. PICK n, m : n = Len(kept) /\ m = Min({n, RecentLimit})
  OBVIOUS
<1>2. kept \in Seq(KeptEntry) /\ n \in Nat /\ RecentLimit \in Nat
  BY <1>1, ResponseLimits, CountsBefore
<1>3. m = IF n <= RecentLimit THEN n ELSE RecentLimit
  BY <1>1, <1>2, MinOfTwo
<1>4. m \in 0 .. Len(kept)
  BY <1>1, <1>2, <1>3
<1>5. recent_responses = SubSeq(kept, 1, m)
  BY <1>1 DEF ResponsesInv, ListOK
<1>6. SubSeq(kept, 1, m) \in Seq(KeptEntry) /\ Len(SubSeq(kept, 1, m)) = m
  BY <1>2, <1>4
<1>7. /\ CountIn(recent_responses, Failures) <= CountIn(kept, Failures)
      /\ CountIn(recent_responses, {"not_found"}) <= CountIn(kept, {"not_found"})
      /\ CountIn(recent_responses, Failures) \in Nat
      /\ CountIn(recent_responses, {"not_found"}) \in Nat
  BY <1>2, <1>4, <1>5, <1>6, CountInPrefix, CountInNat
<1>8. /\ Len(kept) + Cardinality(Counted(handlers)) <= responses_total
      /\ CountIn(kept, Failures) + Cardinality(ErrorHeld(handlers)) <= response_errors
      /\ CountIn(kept, {"not_found"}) + Cardinality(MissingHeld(handlers)) <= response_not_found
  BY DEF ResponsesInv, CountersOK
<1>9. /\ Cardinality(Counted(handlers)) \in Nat /\ Cardinality(ErrorHeld(handlers)) \in Nat
      /\ Cardinality(MissingHeld(handlers)) \in Nat
  <2>1. /\ Counted(handlers) \in SUBSET Handlers /\ ErrorHeld(handlers) \in SUBSET Handlers
        /\ MissingHeld(handlers) \in SUBSET Handlers
    BY DEF Counted, ErrorHeld, MissingHeld
  <2>. QED
    BY <2>1, ResponseLimits, FS_Subset, FS_CardinalityType
<1>10. m <= responses_total
  BY <1>1, <1>2, <1>4, <1>8, <1>9, CountsBefore
<1>11. CountIn(recent_responses, Failures) <= response_errors
  BY <1>7, <1>8, <1>9, CountsBefore
<1>12. CountIn(recent_responses, {"not_found"}) <= response_not_found
  BY <1>7, <1>8, <1>9, CountsBefore
<1>. QED
  BY <1>5, <1>6, <1>10, <1>11, <1>12

\* What a step of the reader leaves alone.
LEMMA ReaderStep ==
    ASSUME ResponsesInv, SnapshotOK',
           UNCHANGED <<response_now, responses_total, response_errors, response_not_found,
                       last_response, last_recent_success, recent_responses, handlers, kept>>
    PROVE  ResponsesInv'
<1>1. HandlersOK' /\ ListOK'
  BY DEF ResponsesInv, HandlersOK, ListOK, AnswerOK
<1>2. CountersOK'
  BY DEF ResponsesInv, CountersOK, CountIn, Uncounted, Counted, ErrorDue, MissingDue, ErrorHeld,
     MissingHeld
<1>3. SpacingOK(handlers, kept, last_recent_success)'
  BY DEF ResponsesInv
<1>. QED
  BY <1>1, <1>2, <1>3 DEF ResponsesInv

LEMMA BeginSnapshotKeeps ==
    ASSUME ResponsesInv, BeginSnapshot
    PROVE  ResponsesInv'
<1>1. /\ service' = [read |-> 0, fields |-> EmptyService]
      /\ UNCHANGED <<response_now, responses_total, response_errors, response_not_found,
                     last_response, last_recent_success, recent_responses, handlers, kept>>
  BY DEF BeginSnapshot
<1>2. SnapshotOK'
  <2>1. /\ service'.read = 0 /\ service'.fields = EmptyService
        /\ service' = [read |-> service'.read, fields |-> service'.fields]
    BY <1>1
  <2>2. /\ service'.fields.recent = <<>> /\ service'.fields.recent \in Seq(KeptEntry)
        /\ DOMAIN service'.fields = {"recent", "responses_total", "response_errors",
                                     "response_not_found"}
    BY <2>1 DEF EmptyService
  <2>. QED
    BY <2>1, <2>2 DEF SnapshotOK
<1>. QED
  BY <1>1, <1>2, ReaderStep

LEMMA ReadFieldKeeps ==
    ASSUME ResponsesInv, ReadField
    PROVE  ResponsesInv'
<1>1. PICK n, f, s : n = service.read /\ f = service.fields /\ s = f.recent
  OBVIOUS
<1>2. PICK field : field = SnapshotOrder[n + 1]
  OBVIOUS
<1>3. /\ n < 4 /\ service' = [read |-> n + 1, fields |-> [f EXCEPT ![field] = FieldNow(field)]]
      /\ UNCHANGED <<response_now, responses_total, response_errors, response_not_found,
                     last_response, last_recent_success, recent_responses, handlers, kept>>
  BY <1>1, <1>2, SnapshotFields DEF ReadField
<1>4. /\ n \in 0 .. 4
      /\ DOMAIN f = {"recent", "responses_total", "response_errors", "response_not_found"}
      /\ s \in Seq(KeptEntry)
      /\ n >= 1 => /\ Len(s) <= responses_total /\ CountIn(s, Failures) <= response_errors
                   /\ CountIn(s, {"not_found"}) <= response_not_found
      /\ n >= 2 => Len(s) <= f.responses_total
      /\ n >= 3 => CountIn(s, Failures) <= f.response_errors
  BY <1>1 DEF ResponsesInv, SnapshotOK
<1>5. PICK g : g = [f EXCEPT ![field] = FieldNow(field)]
  OBVIOUS
<1>6. service'.read = n + 1 /\ service'.fields = g /\ service' = [read |-> n + 1, fields |-> g]
  BY <1>3, <1>5
<1>7. /\ DOMAIN g = DOMAIN f /\ g.recent \in Seq(KeptEntry)
      /\ /\ Len(g.recent) <= responses_total /\ CountIn(g.recent, Failures) <= response_errors
         /\ CountIn(g.recent, {"not_found"}) <= response_not_found
      /\ n + 1 >= 2 => Len(g.recent) <= g.responses_total
      /\ n + 1 >= 3 => CountIn(g.recent, Failures) <= g.response_errors
      /\ n + 1 >= 4 => CountIn(g.recent, {"not_found"}) <= g.response_not_found
  <2>1. CASE n = 0
    <3>1. field = "recent" /\ FieldNow(field) = recent_responses
      BY <1>2, <2>1, SnapshotFields DEF FieldNow
    <3>2. g.recent = recent_responses /\ DOMAIN g = DOMAIN f
      BY <1>4, <1>5, <3>1
    <3>. QED
      BY <2>1, <3>2, ListIsCovered
  <2>2. CASE n = 1
    <3>1. field = "responses_total" /\ FieldNow(field) = responses_total
      BY <1>2, <2>2, SnapshotFields DEF FieldNow
    <3>2. g.recent = s /\ g.responses_total = responses_total /\ DOMAIN g = DOMAIN f
      BY <1>1, <1>4, <1>5, <3>1
    <3>. QED
      BY <1>4, <2>2, <3>2
  <2>3. CASE n = 2
    <3>1. field = "response_errors" /\ FieldNow(field) = response_errors
      BY <1>2, <2>3, SnapshotFields DEF FieldNow
    <3>2. /\ g.recent = s /\ g.response_errors = response_errors /\ DOMAIN g = DOMAIN f
          /\ g.responses_total = f.responses_total
      BY <1>1, <1>4, <1>5, <3>1
    <3>. QED
      BY <1>4, <2>3, <3>2
  <2>4. CASE n = 3
    <3>1. field = "response_not_found" /\ FieldNow(field) = response_not_found
      BY <1>2, <2>4, SnapshotFields DEF FieldNow
    <3>2. /\ g.recent = s /\ g.response_not_found = response_not_found /\ DOMAIN g = DOMAIN f
          /\ g.responses_total = f.responses_total /\ g.response_errors = f.response_errors
      BY <1>1, <1>4, <1>5, <3>1
    <3>. QED
      BY <1>4, <2>4, <3>2
  <2>. QED
    BY <1>3, <1>4, <2>1, <2>2, <2>3, <2>4
<1>8. SnapshotOK'
  <2>1. n + 1 \in 0 .. 4
    BY <1>3, <1>4
  <2>. QED
    BY <1>3, <1>4, <1>6, <1>7, <2>1 DEF SnapshotOK, CountIn
<1>. QED
  BY <1>3, <1>8, ReaderStep

LEMMA ResponseElapseKeeps ==
    ASSUME ResponsesInv, ResponseElapse
    PROVE  ResponsesInv'
<1>1. /\ response_now < ResponseTimeLimit /\ response_now' = response_now + 1
      /\ UNCHANGED <<responses_total, response_errors, response_not_found, last_response,
                     last_recent_success, recent_responses, handlers, service, kept>>
  BY DEF ResponseElapse
<1>2. response_now \in Nat /\ response_now' \in 1 .. ResponseTimeLimit
  BY <1>1, ResponseLimits DEF ResponsesInv
<1>3. HandlersOK'
  <2>1. ASSUME NEW h \in Handlers
        PROVE  AnswerOK(handlers[h], response_now + 1)
    <3>1. PICK a : a = handlers[h]
      OBVIOUS
    <3>2. AnswerOK(a, response_now)
      BY <3>1 DEF ResponsesInv, HandlersOK
    <3>3. a # NoAnswerYet => a.at \in 1 .. (response_now + 1)
      BY <1>2, <3>2 DEF AnswerOK
    <3>. QED
      BY <3>1, <3>2, <3>3 DEF AnswerOK
  <2>2. DOMAIN handlers = Handlers /\ handlers = [h \in Handlers |-> handlers[h]]
    BY DEF ResponsesInv, HandlersOK
  <2>. QED
    BY <1>1, <2>1, <2>2 DEF HandlersOK, AnswerOK
<1>4. ListOK'
  BY <1>1 DEF ResponsesInv, ListOK
<1>5. CountersOK'
  BY <1>1 DEF ResponsesInv, CountersOK, CountIn, Uncounted, Counted, ErrorDue, MissingDue,
     ErrorHeld, MissingHeld
<1>6. SnapshotOK'
  BY <1>1 DEF ResponsesInv, SnapshotOK, CountIn
<1>7. SpacingOK(handlers, kept, last_recent_success)'
  BY <1>1 DEF ResponsesInv
<1>. QED
  BY <1>1, <1>2, <1>3, <1>4, <1>5, <1>6, <1>7 DEF ResponsesInv

LEMMA ResponsesInitOK == ResponsesInit => ResponsesInv
<1>. SUFFICES ASSUME ResponsesInit
              PROVE  ResponsesInv
  OBVIOUS
<1>1. /\ response_now = 1
      /\ responses_total = 0 /\ response_errors = 0 /\ response_not_found = 0
      /\ last_response = 0 /\ last_recent_success = 0
      /\ recent_responses = <<>> /\ kept = <<>>
      /\ handlers = [h \in Handlers |-> NoAnswerYet]
      /\ service = [read |-> 4, fields |-> EmptyService]
  BY SnapshotFields DEF ResponsesInit, NoTime
<1>2. kept \in Seq(KeptEntry) /\ Len(kept) = 0 /\ DOMAIN kept = {}
  BY <1>1
<1>3. HandlersOK
  BY <1>1 DEF HandlersOK, AnswerOK
<1>4. ListOK
  <2>1. Min({0, RecentLimit}) = 0
    BY ResponseLimits, MinOfTwo
  <2>2. SubSeq(kept, 1, 0) = <<>>
    BY <1>1
  <2>. QED
    BY <1>1, <1>2, <2>1, <2>2 DEF ListOK
<1>5. CountIn(<<>>, Failures) = 0 /\ CountIn(<<>>, {"not_found"}) = 0
  BY <1>1, <1>2, CountInNat
<1>6. CountersOK
  <2>1. \A h \in Handlers : handlers[h].step = "idle"
    BY <1>1 DEF NoAnswerYet
  <2>2. /\ Uncounted(handlers) = {} /\ Counted(handlers) = {} /\ ErrorDue(handlers) = {}
        /\ MissingDue(handlers) = {} /\ ErrorHeld(handlers) = {} /\ MissingHeld(handlers) = {}
    BY <2>1 DEF Uncounted, Counted, ErrorDue, MissingDue, ErrorHeld, MissingHeld
  <2>3. Cardinality({}) = 0
    BY FS_EmptySet
  <2>4. /\ CountIn(kept, Failures) = 0 /\ CountIn(kept, {"not_found"}) = 0
        /\ ResponseLimit \in Nat
    BY <1>1, <1>5, ResponseLimits
  <2>5. /\ Cardinality(Uncounted(handlers)) = 0 /\ Cardinality(Counted(handlers)) = 0
        /\ Cardinality(ErrorDue(handlers)) = 0 /\ Cardinality(MissingDue(handlers)) = 0
        /\ Cardinality(ErrorHeld(handlers)) = 0 /\ Cardinality(MissingHeld(handlers)) = 0
    BY <2>2, <2>3
  <2>. QED
    BY <1>1, <1>2, <2>4, <2>5 DEF CountersOK
<1>7. SnapshotOK
  <2>1. /\ service.read = 4 /\ service.fields = EmptyService
        /\ service = [read |-> service.read, fields |-> service.fields]
    BY <1>1
  <2>2. /\ DOMAIN EmptyService = {"recent", "responses_total", "response_errors",
                                  "response_not_found"}
        /\ EmptyService.recent = <<>> /\ EmptyService.responses_total = 0
        /\ EmptyService.response_errors = 0 /\ EmptyService.response_not_found = 0
    BY DEF EmptyService
  <2>3. /\ service.fields.recent = <<>> /\ service.fields.recent \in Seq(KeptEntry)
        /\ Len(service.fields.recent) = 0
    BY <2>1, <2>2
  <2>4. /\ CountIn(service.fields.recent, Failures) = 0
        /\ CountIn(service.fields.recent, {"not_found"}) = 0
    BY <1>5, <2>3
  <2>. QED
    BY <1>1, <2>1, <2>2, <2>3, <2>4 DEF SnapshotOK
<1>8. SpacingOK(handlers, kept, last_recent_success)
  BY <1>1, <1>2 DEF SpacingOK, Passed, NoAnswerYet
<1>. QED
  BY <1>1, <1>3, <1>4, <1>6, <1>7, <1>8, ResponseLimits DEF ResponsesInv

LEMMA ResponsesStep == ResponsesInv /\ [ResponsesNext]_responseVars => ResponsesInv'
<1>. SUFFICES ASSUME ResponsesInv, [ResponsesNext]_responseVars
              PROVE  ResponsesInv'
  OBVIOUS
<1>1. ASSUME NEW h \in Handlers, NEW status \in Statuses, BeginResponse(h, status)
      PROVE  ResponsesInv'
  BY <1>1, BeginResponseKeeps
<1>2. ASSUME NEW h \in Handlers, CountTotal(h)
      PROVE  ResponsesInv'
  BY <1>2, CountTotalKeeps
<1>3. ASSUME NEW h \in Handlers, CountError(h)
      PROVE  ResponsesInv'
  BY <1>3, CountErrorKeeps
<1>4. ASSUME NEW h \in Handlers, CountNotFound(h)
      PROVE  ResponsesInv'
  BY <1>4, CountNotFoundKeeps
<1>5. ASSUME NEW h \in Handlers, StoreLast(h)
      PROVE  ResponsesInv'
  BY <1>5, StoreLastKeeps
<1>6. ASSUME NEW h \in Handlers, PassGate(h)
      PROVE  ResponsesInv'
  BY <1>6, PassGateKeeps
<1>7. ASSUME NEW h \in Handlers, PushRecent(h)
      PROVE  ResponsesInv'
  BY <1>7, PushRecentKeeps
<1>8. CASE BeginSnapshot
  BY <1>8, BeginSnapshotKeeps
<1>9. CASE ReadField
  BY <1>9, ReadFieldKeeps
<1>10. CASE ResponseElapse
  BY <1>10, ResponseElapseKeeps
<1>11. CASE UNCHANGED responseVars
  <2>1. UNCHANGED <<response_now, responses_total, response_errors, response_not_found,
                    last_response, last_recent_success, recent_responses, handlers, service, kept>>
    BY <1>11 DEF responseVars
  <2>2. SnapshotOK'
    BY <2>1 DEF ResponsesInv, SnapshotOK, CountIn
  <2>. QED
    BY <2>1, <2>2, ReaderStep
<1>. QED
  BY <1>1, <1>2, <1>3, <1>4, <1>5, <1>6, <1>7, <1>8, <1>9, <1>10, <1>11, Zenon
     DEF ResponsesNext

\* What the counters, the list and the handlers on their way to it agree on
\* (main.rs:7497-7556, 7590-7620): a counter covers what was kept and what a handler
\* that has counted is still to push, and a success that passed the gate is an
\* interval from every other one.
THEOREM ResponsesInvariant == ResponsesSpec => []ResponsesInv
<1>. QED
  BY ResponsesInitOK, ResponsesStep, PTL DEF ResponsesSpec

\* ResponsesSound (main.rs:7497-7556, 7590-7620, 9637-9662) for any number of
\* handlers, answers and entries and any interval: a snapshot counts every error its
\* list shows although answers are recorded while it is read, and the successes
\* that are kept are an interval apart.
THEOREM ResponsesCorrect == ResponsesSpec => []ResponsesSound
<1>1. ResponsesInv => ResponsesSound
  <2>. SUFFICES ASSUME ResponsesInv
                PROVE  ResponsesSound
    OBVIOUS
  <2>1. recent_responses = SubSeq(kept, 1, Min({Len(kept), RecentLimit}))
    BY DEF ResponsesInv, ListOK
  <2>2. {responses_total, response_errors, response_not_found} \subseteq 0 .. ResponseLimit
    <3>1. /\ responses_total \in Nat /\ response_errors \in Nat /\ response_not_found \in Nat
          /\ responses_total + Cardinality(Uncounted(handlers)) <= ResponseLimit
          /\ response_errors + Cardinality(ErrorDue(handlers)) <= responses_total
          /\ response_not_found + Cardinality(MissingDue(handlers)) <= response_errors
      BY DEF ResponsesInv, CountersOK
    <3>2. /\ Cardinality(Uncounted(handlers)) \in Nat /\ Cardinality(ErrorDue(handlers)) \in Nat
          /\ Cardinality(MissingDue(handlers)) \in Nat
      <4>1. /\ Uncounted(handlers) \in SUBSET Handlers /\ ErrorDue(handlers) \in SUBSET Handlers
            /\ MissingDue(handlers) \in SUBSET Handlers
        BY DEF Uncounted, ErrorDue, MissingDue
      <4>. QED
        BY <4>1, ResponseLimits, FS_Subset, FS_CardinalityType
    <3>3. /\ responses_total <= ResponseLimit /\ response_errors <= ResponseLimit
          /\ response_not_found <= ResponseLimit
      BY <3>1, <3>2, ResponseLimits
    <3>. QED
      BY <3>1, <3>3, ResponseLimits
  <2>3. last_response \in 0 .. ResponseTimeLimit /\ last_recent_success \in 0 .. ResponseTimeLimit
    BY DEF ResponsesInv
  <2>4. SnapshotCountsWhatItShows
    <3>1. SnapshotOK
      BY DEF ResponsesInv
    <3>2. service.read = 4 =>
             /\ CountIn(service.fields.recent, Failures) <= service.fields.response_errors
             /\ CountIn(service.fields.recent, {"not_found"}) <= service.fields.response_not_found
             /\ Len(service.fields.recent) <= service.fields.responses_total
      BY <3>1 DEF SnapshotOK
    <3>. QED
      BY <3>2, SnapshotFields DEF SnapshotCountsWhatItShows, Failures
  <2>5. SuccessesSpaced
    <3>1. \A i, j \in DOMAIN kept :
             i # j /\ kept[i].status = "success" /\ kept[j].status = "success" =>
                 Apart(kept[i].at, kept[j].at)
      BY DEF ResponsesInv, SpacingOK
    <3>. QED
      BY <3>1 DEF SuccessesSpaced, Apart
  <2>. QED
    BY <2>1, <2>2, <2>3, <2>4, <2>5 DEF ResponsesSound
<1>. QED
  BY <1>1, ResponsesInvariant, PTL

(***************************************************************************)
(* The collecting side of telemetry.                                       *)
(***************************************************************************)
\* The blocks a peer may have in flight.
BlockMaps ==
    {m \in UNION {[S -> Nat] : S \in SUBSET TelemetryBlocks} :
        IsFiniteSet(DOMAIN m) /\ Cardinality(DOMAIN m) <= MaxInFlightBlocks}

PeerDecoder == [blocks : BlockMaps, node : TelemetryNodes \cup {""},
                last_accepted : Envelopes \cup {NoEnvelope}, last : Nat]

\* Envelopes of one node, each newer than the one before it if of the same boot.
LogOrdered(log, node) ==
    /\ log \in Seq(Envelopes)
    /\ \A i \in 1 .. Len(log) : log[i].node = node
    /\ \A i \in 1 .. Len(log) : \A j \in 1 .. Len(log) :
          j = i + 1 /\ log[i].boot = log[j].boot => log[i].sequence < log[j].sequence

\* A peer, what was accepted from it and whose snapshots it brought: the envelope
\* it remembers is the last one that was accepted.
PeerOK(state, log, nodes) ==
    /\ state \in PeerDecoder /\ LogOrdered(log, state.node)
    /\ Len(log) > 0 => state.last_accepted = log[Len(log)]
    /\ nodes \subseteq TelemetryNodes /\ nodes \subseteq {state.node}

PeersOK(peers, logs, nodes) ==
    /\ DOMAIN peers \subseteq TelemetryPeers /\ IsFiniteSet(DOMAIN peers)
    /\ Cardinality(DOMAIN peers) <= MaxTelemetryPeers
    /\ DOMAIN logs = DOMAIN peers /\ DOMAIN nodes = DOMAIN peers
    /\ \A p \in DOMAIN peers : PeerOK(peers[p], logs[p], nodes[p])

CollectorOK ==
    /\ collector \in [received : Nat, decoded : Nat, duplicates : Nat, decode_errors : Nat,
                      ingest_errors : Nat]
    /\ collector.decoded + collector.duplicates + collector.decode_errors
         + collector.ingest_errors <= collector.received

\* The inductive invariant of the decoder and its collector.
DecoderInv ==
    /\ decoder_now \in Nat /\ CollectorOK /\ PeersOK(decoder_peers, accepted, ingested)

-----------------------------------------------------------------------------
\* A map of fewer blocks is one a peer may have.
LEMMA FewerBlocks ==
    ASSUME NEW m \in BlockMaps, NEW S, S \subseteq DOMAIN m
    PROVE  [b \in S |-> m[b]] \in BlockMaps
<1>1. PICK T \in SUBSET TelemetryBlocks : m \in [T -> Nat]
  BY DEF BlockMaps
<1>2. DOMAIN m = T /\ IsFiniteSet(T) /\ Cardinality(T) <= MaxInFlightBlocks
  BY <1>1 DEF BlockMaps
<1>3. IsFiniteSet(S) /\ Cardinality(S) <= Cardinality(T)
  BY <1>2, FS_Subset
<1>4. Cardinality(S) \in Nat /\ Cardinality(T) \in Nat /\ MaxInFlightBlocks \in Nat
  BY <1>2, <1>3, FS_CardinalityType, TelemetryDecoderAssumption
<1>5. Cardinality(S) <= MaxInFlightBlocks
  BY <1>2, <1>3, <1>4
<1>6. PICK r : r = [b \in S |-> m[b]]
  OBVIOUS
<1>7. r \in [S -> Nat] /\ S \in SUBSET TelemetryBlocks /\ DOMAIN r = S
  BY <1>1, <1>2, <1>6
<1>8. r \in UNION {[U -> Nat] : U \in SUBSET TelemetryBlocks}
  BY <1>7
<1>. QED
  BY <1>3, <1>5, <1>6, <1>7, <1>8 DEF BlockMaps

\* A block more, where there is room.
LEMMA OneMoreBlock ==
    ASSUME NEW m \in BlockMaps, NEW b \in TelemetryBlocks, b \notin DOMAIN m, NEW t \in Nat,
           Cardinality(DOMAIN m) < MaxInFlightBlocks
    PROVE  With(m, b, t) \in BlockMaps
<1>1. PICK T \in SUBSET TelemetryBlocks : m \in [T -> Nat]
  BY DEF BlockMaps
<1>2. DOMAIN m = T /\ IsFiniteSet(T)
  BY <1>1 DEF BlockMaps
<1>3. IsFiniteSet(T \cup {b}) /\ Cardinality(T \cup {b}) = Cardinality(T) + 1
  BY <1>2, FS_AddElement
<1>4. Cardinality(T) \in Nat /\ MaxInFlightBlocks \in Nat
  BY <1>2, FS_CardinalityType, TelemetryDecoderAssumption
<1>5. PICK S, r : S = T \cup {b} /\ r = With(m, b, t)
  OBVIOUS
<1>6. r \in [S -> Nat] /\ S \in SUBSET TelemetryBlocks
  BY <1>1, <1>2, <1>5 DEF With
<1>7. IsFiniteSet(S) /\ Cardinality(S) <= MaxInFlightBlocks
  BY <1>2, <1>3, <1>4, <1>5
<1>8. DOMAIN r = S /\ r \in UNION {[U -> Nat] : U \in SUBSET TelemetryBlocks}
  BY <1>6
<1>. QED
  BY <1>5, <1>7, <1>8 DEF BlockMaps

\* What push_datagram_at leaves in flight is within the limit.
LEMMA InFlightKeeps ==
    ASSUME NEW m \in BlockMaps, NEW block \in TelemetryBlocks, decoder_now \in Nat,
           NEW r \in InFlight(m, block)
    PROVE  r \in BlockMaps /\ Without(r, {block}) \in BlockMaps
<1>1. PICK S : S = {x \in DOMAIN m : decoder_now - m[x] < InFlightTtl}
  OBVIOUS
<1>2. PICK fresh : fresh = [b \in S |-> m[b]]
  OBVIOUS
<1>3. fresh \in BlockMaps /\ DOMAIN fresh = S
  BY <1>1, <1>2, FewerBlocks
<1>4. /\ IsFiniteSet(S) /\ Cardinality(S) \in Nat /\ MaxInFlightBlocks \in Nat
      /\ Cardinality(S) <= MaxInFlightBlocks
  <2>1. IsFiniteSet(S) /\ Cardinality(S) <= MaxInFlightBlocks
    BY <1>3 DEF BlockMaps
  <2>2. MaxInFlightBlocks \in Nat
    BY TelemetryDecoderAssumption
  <2>. QED
    BY <2>1, <2>2, FS_CardinalityType
<1>5. PICK q : /\ r = IF block \in DOMAIN q THEN q ELSE With(q, block, decoder_now)
               /\ q \in IF block \notin S /\ Cardinality(S) >= MaxInFlightBlocks
                        THEN {Without(fresh, {b}) : b \in {x \in S : \A c \in S : fresh[x] <= fresh[c]}}
                        ELSE {fresh}
  <2>1. fresh = [b \in {x \in DOMAIN m : decoder_now - m[x] < InFlightTtl} |-> m[b]]
    BY <1>1, <1>2
  <2>. QED
    BY <1>3, <2>1, Zenon DEF InFlight
<1>6. q \in BlockMaps /\ (block \notin DOMAIN q => Cardinality(DOMAIN q) < MaxInFlightBlocks)
  <2>1. CASE ~(block \notin S /\ Cardinality(S) >= MaxInFlightBlocks)
    <3>1. q = fresh
      BY <1>5, <2>1
    <3>. QED
      BY <1>3, <1>4, <2>1, <3>1
  <2>2. CASE block \notin S /\ Cardinality(S) >= MaxInFlightBlocks
    <3>1. PICK b \in S : q = Without(fresh, {b})
      BY <1>5, <2>2
    <3>2. q = [x \in S \ {b} |-> fresh[x]]
      BY <1>3, <3>1 DEF Without
    <3>3. q \in BlockMaps
      BY <1>3, <3>2, FewerBlocks
    <3>4. DOMAIN q = S \ {b}
      BY <3>2
    <3>5. Cardinality(S \ {b}) = Cardinality(S) - 1
      BY <1>4, FS_RemoveElement
    <3>. QED
      BY <1>4, <3>3, <3>4, <3>5
  <2>. QED
    BY <2>1, <2>2
<1>7. r \in BlockMaps
  BY <1>5, <1>6, OneMoreBlock
<1>8. Without(r, {block}) \in BlockMaps
  <2>1. PICK U : U = DOMAIN r \ {block}
    OBVIOUS
  <2>2. Without(r, {block}) = [x \in U |-> r[x]]
    BY <2>1 DEF Without
  <2>. QED
    BY <1>7, <2>1, <2>2, FewerBlocks
<1>. QED
  BY <1>7, <1>8

\* The peers that are not idle, with their histories.
LEMMA KnownPeersOK ==
    ASSUME DecoderInv
    PROVE  PeersOK(KnownPeers, [p \in DOMAIN KnownPeers |-> accepted[p]],
                   [p \in DOMAIN KnownPeers |-> ingested[p]])
<1>1. PICK S : S = {x \in DOMAIN decoder_peers :
                      decoder_now - decoder_peers[x].last < 4 * InFlightTtl}
  OBVIOUS
<1>2. KnownPeers = [p \in S |-> decoder_peers[p]]
  BY <1>1 DEF KnownPeers
<1>3. S \subseteq DOMAIN decoder_peers /\ IsFiniteSet(DOMAIN decoder_peers)
  BY <1>1 DEF DecoderInv, PeersOK
<1>4. IsFiniteSet(S) /\ Cardinality(S) <= Cardinality(DOMAIN decoder_peers)
  BY <1>3, FS_Subset
<1>5. /\ Cardinality(S) \in Nat /\ Cardinality(DOMAIN decoder_peers) \in Nat
      /\ MaxTelemetryPeers \in Nat
  BY <1>3, <1>4, FS_CardinalityType, TelemetryDecoderAssumption
<1>6. Cardinality(S) <= MaxTelemetryPeers
  BY <1>4, <1>5 DEF DecoderInv, PeersOK
<1>7. \A p \in S : PeerOK(decoder_peers[p], accepted[p], ingested[p])
  BY <1>3 DEF DecoderInv, PeersOK
<1>8. S \subseteq TelemetryPeers
  BY <1>3 DEF DecoderInv, PeersOK
<1>. QED
  BY <1>2, <1>4, <1>6, <1>7, <1>8 DEF PeersOK

\* A peer that is replaced, or one more where there is room.
LEMMA PeerReplaced ==
    ASSUME NEW heard, NEW logs, NEW nodes, PeersOK(heard, logs, nodes), NEW p \in TelemetryPeers,
           p \in DOMAIN heard \/ Cardinality(DOMAIN heard) < MaxTelemetryPeers,
           NEW s, NEW l, NEW n, PeerOK(s, l, n)
    PROVE  PeersOK(With(heard, p, s), With(logs, p, l), With(nodes, p, n))
<1>1. PICK S : S = DOMAIN heard
  OBVIOUS
<1>2. /\ S \subseteq TelemetryPeers /\ IsFiniteSet(S) /\ Cardinality(S) <= MaxTelemetryPeers
      /\ DOMAIN logs = S /\ DOMAIN nodes = S
      /\ \A x \in S : PeerOK(heard[x], logs[x], nodes[x])
  BY <1>1 DEF PeersOK
<1>3. Cardinality(S) \in Nat /\ MaxTelemetryPeers \in Nat
  BY <1>2, FS_CardinalityType, TelemetryDecoderAssumption
<1>4. IsFiniteSet(S \cup {p}) /\ Cardinality(S \cup {p}) <= MaxTelemetryPeers
  <2>1. CASE p \in S
    <3>1. S \cup {p} = S
      BY <2>1
    <3>. QED
      BY <1>2, <3>1
  <2>2. CASE p \notin S
    <3>1. IsFiniteSet(S \cup {p}) /\ Cardinality(S \cup {p}) = Cardinality(S) + 1
      BY <1>2, <2>2, FS_AddElement
    <3>. QED
      BY <1>1, <1>3, <2>2, <3>1
  <2>. QED
    BY <2>1, <2>2
<1>5. PICK T, k, a, i : /\ T = S \cup {p} /\ k = With(heard, p, s) /\ a = With(logs, p, l)
                        /\ i = With(nodes, p, n)
  OBVIOUS
<1>6. DOMAIN k = T /\ DOMAIN a = T /\ DOMAIN i = T
  BY <1>1, <1>2, <1>5 DEF With
<1>7. ASSUME NEW x \in T
      PROVE  PeerOK(k[x], a[x], i[x])
  <2>1. CASE x = p
    <3>1. k[x] = s /\ a[x] = l /\ i[x] = n
      BY <1>1, <1>2, <1>5, <2>1 DEF With
    <3>. QED
      BY <3>1
  <2>2. CASE x # p
    <3>1. x \in S /\ k[x] = heard[x] /\ a[x] = logs[x] /\ i[x] = nodes[x]
      BY <1>1, <1>2, <1>5, <2>2 DEF With
    <3>. QED
      BY <1>2, <3>1
  <2>. QED
    BY <2>1, <2>2
<1>8. T \subseteq TelemetryPeers
  BY <1>2, <1>5
<1>9. PeersOK(k, a, i)
  BY <1>4, <1>5, <1>6, <1>7, <1>8 DEF PeersOK
<1>. QED
  BY <1>5, <1>9

-----------------------------------------------------------------------------
\* The datagram is counted, under one outcome at most.
LEMMA CountKeeps ==
    ASSUME NEW outcome, CollectorOK, Count(outcome)
    PROVE  CollectorOK'
<1>1. PICK r, d, u, x, i :
        /\ r \in Nat /\ d \in Nat /\ u \in Nat /\ x \in Nat /\ i \in Nat
        /\ collector = [received |-> r, decoded |-> d, duplicates |-> u, decode_errors |-> x,
                        ingest_errors |-> i]
        /\ d + u + x + i <= r
  BY DEF CollectorOK
<1>2. collector' = [received |-> r + 1,
                    decoded |-> IF outcome = "ingested" THEN d + 1 ELSE d,
                    duplicates |-> IF outcome = "duplicate" THEN u + 1 ELSE u,
                    decode_errors |-> IF outcome = "error" THEN x + 1 ELSE x,
                    ingest_errors |-> IF outcome = "not_ingested" THEN i + 1 ELSE i]
  BY <1>1 DEF Count
<1>3. PICK d2, u2, x2, i2 :
        /\ d2 = IF outcome = "ingested" THEN d + 1 ELSE d
        /\ u2 = IF outcome = "duplicate" THEN u + 1 ELSE u
        /\ x2 = IF outcome = "error" THEN x + 1 ELSE x
        /\ i2 = IF outcome = "not_ingested" THEN i + 1 ELSE i
  OBVIOUS
<1>4. /\ d2 \in Nat /\ u2 \in Nat /\ x2 \in Nat /\ i2 \in Nat
      /\ d2 + u2 + x2 + i2 <= d + u + x + i + 1
  BY <1>1, <1>3
<1>5. d2 + u2 + x2 + i2 <= r + 1 /\ r + 1 \in Nat
  BY <1>1, <1>4
<1>6. collector' = [received |-> r + 1, decoded |-> d2, duplicates |-> u2, decode_errors |-> x2,
                    ingest_errors |-> i2]
  BY <1>2, <1>3
<1>. QED
  BY <1>4, <1>5, <1>6 DEF CollectorOK

\* A peer that becomes known.
LEMMA NewPeerOK ==
    ASSUME decoder_now \in Nat
    PROVE  PeerOK(NewPeer, <<>>, {})
<1>1. EmptyMap \in BlockMaps
  <2>1. EmptyMap \in [{} -> Nat] /\ {} \in SUBSET TelemetryBlocks /\ DOMAIN EmptyMap = {}
    BY DEF EmptyMap
  <2>2. IsFiniteSet({}) /\ Cardinality({}) = 0
    BY FS_EmptySet
  <2>4. 0 <= MaxInFlightBlocks
    <3>1. MaxInFlightBlocks \in Nat
      BY TelemetryDecoderAssumption
    <3>. QED
      BY <3>1
  <2>3. EmptyMap \in UNION {[S -> Nat] : S \in SUBSET TelemetryBlocks}
    BY <2>1
  <2>. QED
    BY <2>1, <2>2, <2>3, <2>4 DEF BlockMaps
<1>2. NewPeer \in PeerDecoder
  BY <1>1 DEF NewPeer, PeerDecoder
<1>3. <<>> \in Seq(Envelopes) /\ Len(<<>>) = 0
  OBVIOUS
<1>. QED
  BY <1>2, <1>3 DEF PeerOK, LogOrdered

\* An envelope that is accepted is of the peer's node and newer than the last one.
LEMMA AcceptKeeps ==
    ASSUME NEW node \in TelemetryNodes, NEW log, LogOrdered(log, node), NEW e \in Envelopes,
           e.node = node, NEW last, Len(log) > 0 => last = log[Len(log)],
           ~(last.boot = e.boot /\ last.sequence >= e.sequence)
    PROVE  /\ LogOrdered(Append(log, e), node)
           /\ Len(Append(log, e)) > 0 /\ Append(log, e)[Len(Append(log, e))] = e
<1>1. PICK n, g : n = Len(log) /\ g = Append(log, e)
  OBVIOUS
<1>2. log \in Seq(Envelopes) /\ n \in Nat
  BY <1>1 DEF LogOrdered
<1>3. /\ g \in Seq(Envelopes) /\ Len(g) = n + 1 /\ g[n + 1] = e
      /\ \A k \in 1 .. n : g[k] = log[k]
  BY <1>1, <1>2
<1>4. ASSUME NEW k \in 1 .. n + 1
      PROVE  g[k].node = node
  BY <1>1, <1>2, <1>3 DEF LogOrdered
<1>5. ASSUME NEW i \in 1 .. n + 1, NEW j \in 1 .. n + 1, j = i + 1, g[i].boot = g[j].boot
      PROVE  g[i].sequence < g[j].sequence
  <2>1. CASE j = n + 1
    <3>1. i = n /\ n > 0
      BY <1>2, <1>5, <2>1
    <3>2. g[i] = last /\ g[j] = e
      BY <1>1, <1>2, <1>3, <2>1, <3>1
    <3>3. last \in Envelopes
      BY <1>1, <1>2, <3>1, EntryOf
    <3>4. last.sequence \in Nat /\ e.sequence \in Nat
      BY <3>3, TelemetryDecoderAssumption DEF Envelopes
    <3>. QED
      BY <1>5, <3>2, <3>4
  <2>2. CASE j # n + 1
    <3>1. i \in 1 .. n /\ j \in 1 .. n
      BY <1>2, <1>5, <2>2
    <3>. QED
      BY <1>1, <1>3, <1>5, <3>1 DEF LogOrdered
  <2>. QED
    BY <2>1, <2>2
<1>6. LogOrdered(g, node)
  BY <1>3, <1>4, <1>5 DEF LogOrdered
<1>. QED
  BY <1>1, <1>2, <1>3, <1>6

\* The peer of a datagram: known and fed, or new.
LEMMA PeerStateOK ==
    ASSUME DecoderInv, NEW p \in TelemetryPeers
    PROVE  /\ PeerOK(Entry(KnownPeers, p, NewPeer), HistoryOf(accepted, p, <<>>)[p],
                     HistoryOf(ingested, p, {})[p])
           /\ DOMAIN HistoryOf(accepted, p, <<>>) = DOMAIN KnownPeers \cup {p}
           /\ DOMAIN HistoryOf(ingested, p, {}) = DOMAIN KnownPeers \cup {p}
<1>1. /\ HistoryOf(accepted, p, <<>>)[p] = IF p \in DOMAIN KnownPeers THEN accepted[p] ELSE <<>>
      /\ HistoryOf(ingested, p, {})[p] = IF p \in DOMAIN KnownPeers THEN ingested[p] ELSE {}
      /\ DOMAIN HistoryOf(accepted, p, <<>>) = DOMAIN KnownPeers \cup {p}
      /\ DOMAIN HistoryOf(ingested, p, {}) = DOMAIN KnownPeers \cup {p}
  BY DEF HistoryOf
<1>2. CASE p \in DOMAIN KnownPeers
  <2>1. PeerOK(KnownPeers[p], accepted[p], ingested[p])
    <3>1. p \in DOMAIN decoder_peers /\ KnownPeers[p] = decoder_peers[p]
      BY <1>2 DEF KnownPeers
    <3>. QED
      BY <3>1 DEF DecoderInv, PeersOK
  <2>. QED
    BY <1>1, <1>2, <2>1 DEF Entry
<1>3. CASE p \notin DOMAIN KnownPeers
  <2>1. decoder_now \in Nat
    BY DEF DecoderInv
  <2>. QED
    BY <1>1, <1>3, <2>1, NewPeerOK DEF Entry
<1>. QED
  BY <1>2, <1>3

\* The peers after a datagram, once that is known of the one it came from.
LEMMA PeersUpdated ==
    ASSUME DecoderInv, NEW p \in TelemetryPeers,
           p \in DOMAIN KnownPeers \/ Cardinality(DOMAIN KnownPeers) < MaxTelemetryPeers,
           NEW s, NEW l, NEW n, PeerOK(s, l, n), NEW logs, NEW nodes,
           logs = [HistoryOf(accepted, p, <<>>) EXCEPT ![p] = l],
           nodes = [HistoryOf(ingested, p, {}) EXCEPT ![p] = n]
    PROVE  PeersOK(With(KnownPeers, p, s), logs, nodes)
<1>1. PICK heard, a, i : /\ heard = KnownPeers
                         /\ a = [x \in DOMAIN heard |-> accepted[x]]
                         /\ i = [x \in DOMAIN heard |-> ingested[x]]
  OBVIOUS
<1>2. PeersOK(heard, a, i)
  BY <1>1, KnownPeersOK
<1>3. PeersOK(With(heard, p, s), With(a, p, l), With(i, p, n))
  BY <1>1, <1>2, PeerReplaced
<1>4. With(a, p, l) = logs
  <2>1. PICK h : h = HistoryOf(accepted, p, <<>>)
    OBVIOUS
  <2>2. h = [x \in DOMAIN heard \cup {p} |-> IF x \in DOMAIN heard THEN accepted[x] ELSE <<>>]
    BY <1>1, <2>1 DEF HistoryOf
  <2>3. logs = [h EXCEPT ![p] = l]
    BY <2>1
  <2>4. logs = [x \in DOMAIN heard \cup {p} |-> IF x = p THEN l ELSE accepted[x]]
    BY <2>2, <2>3
  <2>5. With(a, p, l) = [x \in DOMAIN heard \cup {p} |-> IF x = p THEN l ELSE accepted[x]]
    BY <1>1 DEF With
  <2>. QED
    BY <2>4, <2>5
<1>5. With(i, p, n) = nodes
  <2>1. PICK h : h = HistoryOf(ingested, p, {})
    OBVIOUS
  <2>2. h = [x \in DOMAIN heard \cup {p} |-> IF x \in DOMAIN heard THEN ingested[x] ELSE {}]
    BY <1>1, <2>1 DEF HistoryOf
  <2>3. nodes = [h EXCEPT ![p] = n]
    BY <2>1
  <2>4. nodes = [x \in DOMAIN heard \cup {p} |-> IF x = p THEN n ELSE ingested[x]]
    BY <2>2, <2>3
  <2>5. With(i, p, n) = [x \in DOMAIN heard \cup {p} |-> IF x = p THEN n ELSE ingested[x]]
    BY <1>1 DEF With
  <2>. QED
    BY <2>4, <2>5
<1>. QED
  BY <1>1, <1>3, <1>4, <1>5

\* A history that is kept is one whose entry is replaced by itself.
LEMMA SameHistory ==
    ASSUME NEW f, NEW p, f = [x \in DOMAIN f |-> f[x]]
    PROVE  f = [f EXCEPT ![p] = f[p]]
  OBVIOUS

\* A peer that is fed keeps its node and what it remembers.
LEMMA FedOK ==
    ASSUME NEW s, NEW l, NEW n, PeerOK(s, l, n), decoder_now \in Nat, NEW b \in BlockMaps
    PROVE  PeerOK([s EXCEPT !.last = decoder_now, !.blocks = b], l, n)
<1>1. PICK t : t = [s EXCEPT !.last = decoder_now, !.blocks = b]
  OBVIOUS
<1>2. s \in PeerDecoder
  BY DEF PeerOK
<1>3. t \in PeerDecoder /\ t.node = s.node /\ t.last_accepted = s.last_accepted
  BY <1>1, <1>2 DEF PeerDecoder
<1>4. PeerOK(t, l, n)
  BY <1>3 DEF PeerOK
<1>. QED
  BY <1>1, <1>4

LEMMA DoneOK ==
    ASSUME NEW s, NEW l, NEW n, PeerOK(s, l, n), NEW b \in BlockMaps
    PROVE  PeerOK([s EXCEPT !.blocks = b], l, n)
<1>1. PICK t : t = [s EXCEPT !.blocks = b]
  OBVIOUS
<1>2. s \in PeerDecoder
  BY DEF PeerOK
<1>3. t \in PeerDecoder /\ t.node = s.node /\ t.last_accepted = s.last_accepted
  BY <1>1, <1>2 DEF PeerDecoder
<1>4. PeerOK(t, l, n)
  BY <1>3 DEF PeerOK
<1>. QED
  BY <1>1, <1>4

\* A peer without a node has delivered nothing, and is pinned to the first.
LEMMA PinnedOK ==
    ASSUME NEW s, NEW l, NEW n, PeerOK(s, l, n), NEW e \in Envelopes
    PROVE  PeerOK(Pinned(s, e), l, n) /\ Pinned(s, e).node \in TelemetryNodes
<1>1. s \in PeerDecoder /\ l \in Seq(Envelopes) /\ Len(l) \in Nat
  BY DEF PeerOK, LogOrdered
<1>2. e.node \in TelemetryNodes /\ "" \notin TelemetryNodes
  BY TelemetryDecoderAssumption DEF Envelopes
<1>3. CASE s.node = ""
  <2>1. PICK t : t = [s EXCEPT !.node = e.node]
    OBVIOUS
  <2>2. Pinned(s, e) = t
    BY <1>3, <2>1 DEF Pinned
  <2>3. t \in PeerDecoder /\ t.node = e.node /\ t.last_accepted = s.last_accepted
    BY <1>1, <1>2, <2>1 DEF PeerDecoder
  <2>4. ASSUME NEW i \in 1 .. Len(l)
        PROVE  FALSE
    <3>1. l[i] \in Envelopes
      BY <1>1, EntryOf
    <3>2. l[i].node \in TelemetryNodes /\ l[i].node = ""
      BY <1>3, <3>1 DEF Envelopes, PeerOK, LogOrdered
    <3>. QED
      BY <1>2, <3>2
  <2>5. n = {}
    BY <1>2, <1>3 DEF PeerOK
  <2>6. ~(Len(l) > 0)
    <3>1. CASE Len(l) > 0
      <4>1. 1 \in 1 .. Len(l)
        BY <1>1, <3>1
      <4>. QED
        BY <2>4, <4>1
    <3>. QED
      BY <3>1
  <2>7. LogOrdered(l, t.node)
    BY <1>1, <2>4 DEF LogOrdered
  <2>8. PeerOK(t, l, n)
    BY <2>3, <2>5, <2>6, <2>7 DEF PeerOK
  <2>. QED
    BY <1>2, <2>2, <2>3, <2>8
<1>4. CASE s.node # ""
  <2>1. Pinned(s, e) = s
    BY <1>4 DEF Pinned
  <2>2. s.node \in TelemetryNodes
    BY <1>1, <1>4 DEF PeerDecoder
  <2>. QED
    BY <2>1, <2>2
<1>. QED
  BY <1>3, <1>4

-----------------------------------------------------------------------------
\* A datagram of a known peer or of a new one, whatever its block makes of it.
LEMMA PushTelemetryKeeps ==
    ASSUME DecoderInv, NEW peer \in TelemetryPeers, NEW block \in TelemetryBlocks,
           NEW answer \in Answers, PushTelemetry(peer, block, answer)
    PROVE  DecoderInv'
<1>1. PICK heard, state, log, nodes, e :
        /\ heard = KnownPeers /\ state = Entry(KnownPeers, peer, NewPeer)
        /\ log = HistoryOf(accepted, peer, <<>>) /\ nodes = HistoryOf(ingested, peer, {})
        /\ e = answer.envelope
  OBVIOUS
<1>2. PICK blocks \in InFlight(state.blocks, block) :
        LET fed    == [state EXCEPT !.last = decoder_now, !.blocks = blocks]
            done   == [fed EXCEPT !.blocks = Without(@, {block})]
            pinned == Pinned(done, e)
        IN
          \/ /\ answer.kind \in {"pending", "error"}
             /\ decoder_peers' = With(heard, peer, fed)
             /\ Count(answer.kind)
             /\ accepted' = log /\ ingested' = nodes
          \/ /\ answer.kind = "malformed"
             /\ decoder_peers' = With(heard, peer, done)
             /\ Count("error")
             /\ accepted' = log /\ ingested' = nodes
          \/ /\ answer.kind = "complete"
             /\ OutcomeOf(pinned, e) \in {"error", "duplicate"}
             /\ decoder_peers' = With(heard, peer, pinned)
             /\ Count(OutcomeOf(pinned, e))
             /\ accepted' = log /\ ingested' = nodes
          \/ /\ answer.kind = "complete"
             /\ OutcomeOf(pinned, e) \in {"ingested", "not_ingested"}
             /\ decoder_peers' = With(heard, peer, [pinned EXCEPT !.last_accepted = e])
             /\ Count(OutcomeOf(pinned, e))
             /\ accepted' = [log EXCEPT ![peer] = Append(log[peer], e)]
             /\ ingested' = IF OutcomeOf(pinned, e) = "ingested"
                            THEN [nodes EXCEPT ![peer] = nodes[peer] \cup {e.snapshot}]
                            ELSE nodes
  BY <1>1, Zenon DEF PushTelemetry
<1>3. PICK fed, done, pinned :
        /\ fed = [state EXCEPT !.last = decoder_now, !.blocks = blocks]
        /\ done = [fed EXCEPT !.blocks = Without(fed.blocks, {block})]
        /\ pinned = Pinned(done, e)
  BY Zenon
<1>4.
          \/ /\ answer.kind \in {"pending", "error"}
             /\ decoder_peers' = With(heard, peer, fed)
             /\ Count(answer.kind)
             /\ accepted' = log /\ ingested' = nodes
          \/ /\ answer.kind = "malformed"
             /\ decoder_peers' = With(heard, peer, done)
             /\ Count("error")
             /\ accepted' = log /\ ingested' = nodes
          \/ /\ answer.kind = "complete"
             /\ OutcomeOf(pinned, e) \in {"error", "duplicate"}
             /\ decoder_peers' = With(heard, peer, pinned)
             /\ Count(OutcomeOf(pinned, e))
             /\ accepted' = log /\ ingested' = nodes
          \/ /\ answer.kind = "complete"
             /\ OutcomeOf(pinned, e) \in {"ingested", "not_ingested"}
             /\ decoder_peers' = With(heard, peer, [pinned EXCEPT !.last_accepted = e])
             /\ Count(OutcomeOf(pinned, e))
             /\ accepted' = [log EXCEPT ![peer] = Append(log[peer], e)]
             /\ ingested' = IF OutcomeOf(pinned, e) = "ingested"
                            THEN [nodes EXCEPT ![peer] = nodes[peer] \cup {e.snapshot}]
                            ELSE nodes
  BY <1>2, <1>3
<1>5. /\ peer \in DOMAIN KnownPeers \/ Cardinality(DOMAIN KnownPeers) < MaxTelemetryPeers
      /\ decoder_now' = decoder_now /\ decoder_now \in Nat /\ CollectorOK
  BY DEF PushTelemetry, DecoderInv
<1>6. PICK l, n : l = log[peer] /\ n = nodes[peer]
  OBVIOUS
<1>7. /\ PeerOK(state, l, n)
      /\ log = [log EXCEPT ![peer] = l] /\ nodes = [nodes EXCEPT ![peer] = n]
  <2>1. /\ log = [x \in DOMAIN log |-> log[x]] /\ nodes = [x \in DOMAIN nodes |-> nodes[x]]
    BY <1>1 DEF HistoryOf
  <2>. QED
    BY <1>1, <1>6, <2>1, PeerStateOK, SameHistory
<1>8. ASSUME NEW s, NEW a, NEW i, PeerOK(s, a, i), decoder_peers' = With(heard, peer, s),
             accepted' = [log EXCEPT ![peer] = a], ingested' = [nodes EXCEPT ![peer] = i],
             NEW outcome, Count(outcome)
      PROVE  DecoderInv'
  <2>1. PeersOK(decoder_peers', accepted', ingested')
    BY <1>1, <1>5, <1>8, PeersUpdated
  <2>2. CollectorOK'
    BY <1>5, <1>8, CountKeeps
  <2>. QED
    BY <1>5, <2>1, <2>2 DEF DecoderInv
<1>9. PeerOK(fed, l, n) /\ PeerOK(done, l, n)
  <2>1. state.blocks \in BlockMaps
    BY <1>7 DEF PeerOK, PeerDecoder
  <2>2. blocks \in BlockMaps /\ Without(blocks, {block}) \in BlockMaps
    BY <1>5, <2>1, InFlightKeeps
  <2>3. PeerOK(fed, l, n)
    BY <1>3, <1>5, <1>7, <2>2, FedOK
  <2>4. fed.blocks = blocks
    BY <1>3, <1>7 DEF PeerOK, PeerDecoder
  <2>. QED
    BY <1>3, <2>2, <2>3, <2>4, DoneOK
<1>10. CASE /\ answer.kind \in {"pending", "error"}
           /\ decoder_peers' = With(heard, peer, fed)
           /\ Count(answer.kind)
           /\ accepted' = log /\ ingested' = nodes
  BY <1>7, <1>8, <1>9, <1>10
<1>11. CASE /\ answer.kind = "malformed"
           /\ decoder_peers' = With(heard, peer, done)
           /\ Count("error")
           /\ accepted' = log /\ ingested' = nodes
  BY <1>7, <1>8, <1>9, <1>11
<1>12. CASE answer.kind = "complete"
  <2>1. e \in Envelopes
    BY <1>1, <1>12 DEF Answers
  <2>2. PeerOK(pinned, l, n) /\ pinned.node \in TelemetryNodes
    BY <1>3, <1>9, <2>1, PinnedOK
  <2>3. CASE /\ decoder_peers' = With(heard, peer, pinned)
             /\ Count(OutcomeOf(pinned, e))
             /\ accepted' = log /\ ingested' = nodes
    BY <1>7, <1>8, <2>2, <2>3
  <2>4. CASE /\ OutcomeOf(pinned, e) \in {"ingested", "not_ingested"}
             /\ decoder_peers' = With(heard, peer, [pinned EXCEPT !.last_accepted = e])
             /\ Count(OutcomeOf(pinned, e))
             /\ accepted' = [log EXCEPT ![peer] = Append(log[peer], e)]
             /\ ingested' = IF OutcomeOf(pinned, e) = "ingested"
                            THEN [nodes EXCEPT ![peer] = nodes[peer] \cup {e.snapshot}]
                            ELSE nodes
    <3>1. pinned.node = e.node /\ ~Repeats(pinned, e)
      BY <2>4 DEF OutcomeOf
    <3>2. PICK t : t = [pinned EXCEPT !.last_accepted = e]
      OBVIOUS
    <3>3. t \in PeerDecoder /\ t.node = pinned.node /\ t.last_accepted = e
      BY <2>1, <2>2, <3>2 DEF PeerOK, PeerDecoder
    <3>4. PICK g : g = Append(l, e)
      OBVIOUS
    <3>5. LogOrdered(l, pinned.node) /\ (Len(l) > 0 => pinned.last_accepted = l[Len(l)])
      BY <2>2 DEF PeerOK
    <3>6. LogOrdered(g, t.node) /\ Len(g) > 0 /\ g[Len(g)] = e
      BY <2>1, <2>2, <3>1, <3>3, <3>4, <3>5, AcceptKeeps DEF Repeats
    <3>7. PICK i : i = IF OutcomeOf(pinned, e) = "ingested" THEN n \cup {e.snapshot} ELSE n
      OBVIOUS
    <3>8. i \subseteq TelemetryNodes /\ i \subseteq {t.node}
      <4>1. n \subseteq TelemetryNodes /\ n \subseteq {t.node}
        BY <2>2, <3>3 DEF PeerOK
      <4>2. CASE OutcomeOf(pinned, e) = "ingested"
        <5>1. e.snapshot = e.node
          BY <3>1, <4>2 DEF OutcomeOf, Collects
        <5>2. i = n \cup {t.node}
          BY <3>1, <3>3, <3>7, <4>2, <5>1
        <5>. QED
          BY <2>2, <3>3, <4>1, <5>2
      <4>3. CASE OutcomeOf(pinned, e) # "ingested"
        BY <3>7, <4>1, <4>3
      <4>. QED
        BY <4>2, <4>3
    <3>9. PeerOK(t, g, i)
      BY <3>3, <3>6, <3>8 DEF PeerOK
    <3>10. ingested' = [nodes EXCEPT ![peer] = i]
      BY <1>6, <1>7, <2>4, <3>7
    <3>. QED
      BY <1>6, <1>8, <2>4, <3>2, <3>4, <3>9, <3>10
  <2>. QED
    BY <1>4, <1>12, <2>3, <2>4
<1>. QED
  BY <1>4, <1>10, <1>11, <1>12

LEMMA DecoderStep ==
    ASSUME DecoderInv, [TelemetryDecoderNext]_telemetryDecoderVars
    PROVE  DecoderInv'
<1>1. ASSUME NEW p \in TelemetryPeers, PeerRefused(p)
      PROVE  DecoderInv'
  <2>1. PeersOK(decoder_peers', accepted', ingested')
    BY <1>1, KnownPeersOK DEF PeerRefused
  <2>2. CollectorOK'
    BY <1>1, CountKeeps DEF PeerRefused, DecoderInv
  <2>. QED
    BY <1>1, <2>1, <2>2 DEF PeerRefused, DecoderInv
<1>2. CASE ProfileRefused
  <2>1. CollectorOK'
    BY <1>2, CountKeeps DEF ProfileRefused, DecoderInv
  <2>. QED
    BY <1>2, <2>1 DEF ProfileRefused, DecoderInv
<1>3. CASE DecoderElapse
  BY <1>3 DEF DecoderElapse, DecoderInv, CollectorOK
<1>4. CASE UNCHANGED telemetryDecoderVars
  BY <1>4 DEF telemetryDecoderVars, DecoderInv, CollectorOK
<1>. QED
  BY <1>1, <1>2, <1>3, <1>4, PushTelemetryKeeps DEF TelemetryDecoderNext

LEMMA DecoderInitOK ==
    ASSUME TelemetryDecoderInit
    PROVE  DecoderInv
<1>1. /\ decoder_peers = EmptyMap /\ decoder_now = 0 /\ collector = NoCollected
      /\ accepted = EmptyMap /\ ingested = EmptyMap
  BY DEF TelemetryDecoderInit
<1>2. DOMAIN EmptyMap = {}
  BY DEF EmptyMap
<1>3. IsFiniteSet({}) /\ Cardinality({}) = 0
  BY FS_EmptySet
<1>4. MaxTelemetryPeers \in Nat
  BY TelemetryDecoderAssumption
<1>5. 0 <= MaxTelemetryPeers
  BY <1>4
<1>6. CollectorOK
  BY <1>1 DEF CollectorOK, NoCollected
<1>7. PeersOK(EmptyMap, EmptyMap, EmptyMap)
  BY <1>2, <1>3, <1>5 DEF PeersOK
<1>. QED
  BY <1>1, <1>6, <1>7 DEF DecoderInv

\* What the decoder remembers of a peer is what it accepted last, of the node it is
\* pinned to.
THEOREM DecoderInvariant == TelemetryDecoderSpec => []DecoderInv
<1>. QED
  BY DecoderInitOK, DecoderStep, PTL DEF TelemetryDecoderSpec

\* TelemetryCollected (telemetry_fec.rs:411-438, main.rs:11019-11033) for any
\* peers, blocks, nodes, boots and limits: a peer delivers snapshots of one node, each
\* newer than the one before it within a boot, its blocks and the peers stay within
\* their limits, and no datagram counts twice.
THEOREM TelemetryIsCollected == TelemetryDecoderSpec => []TelemetryCollected
<1>1. DecoderInv => TelemetryCollected
  <2>. SUFFICES ASSUME DecoderInv
                PROVE  TelemetryCollected
    OBVIOUS
  <2>1. ASSUME NEW p \in DOMAIN decoder_peers
        PROVE  /\ DOMAIN decoder_peers[p].blocks \subseteq TelemetryBlocks
               /\ Cardinality(DOMAIN decoder_peers[p].blocks) <= MaxInFlightBlocks
               /\ decoder_peers[p].node \in TelemetryNodes \cup {""}
               /\ decoder_peers[p].last_accepted \in Envelopes \cup {NoEnvelope}
    <3>1. PICK m : m = decoder_peers[p].blocks
      OBVIOUS
    <3>2. /\ m \in BlockMaps /\ decoder_peers[p].node \in TelemetryNodes \cup {""}
          /\ decoder_peers[p].last_accepted \in Envelopes \cup {NoEnvelope}
      BY <2>1, <3>1 DEF DecoderInv, PeersOK, PeerOK, PeerDecoder
    <3>3. DOMAIN m \subseteq TelemetryBlocks /\ Cardinality(DOMAIN m) <= MaxInFlightBlocks
      BY <3>2 DEF BlockMaps
    <3>. QED
      BY <3>1, <3>2, <3>3
  <2>2. TelemetryDecoderTypeOK
    BY <2>1 DEF DecoderInv, PeersOK, TelemetryDecoderTypeOK
  <2>3. PeerDeliversInOrder
    <3>1. ASSUME NEW p \in DOMAIN accepted, NEW i \in DOMAIN accepted[p],
                 NEW j \in DOMAIN accepted[p]
          PROVE  /\ accepted[p][i].node = accepted[p][j].node
                 /\ j = i + 1 /\ accepted[p][i].boot = accepted[p][j].boot
                      => accepted[p][i].sequence < accepted[p][j].sequence
      <4>1. LogOrdered(accepted[p], decoder_peers[p].node)
        BY <3>1 DEF DecoderInv, PeersOK, PeerOK
      <4>2. accepted[p] \in Seq(Envelopes)
        BY <4>1 DEF LogOrdered
      <4>3. i \in 1 .. Len(accepted[p]) /\ j \in 1 .. Len(accepted[p])
        BY <3>1, <4>2
      <4>. QED
        BY <4>1, <4>3 DEF LogOrdered
    <3>. QED
      BY <3>1, Zenon DEF PeerDeliversInOrder
  <2>4. CollectedIsPinned
    BY DEF DecoderInv, PeersOK, PeerOK, CollectorOK, CollectedIsPinned
  <2>. QED
    BY <2>2, <2>3, <2>4 DEF TelemetryCollected
<1>. QED
  BY <1>1, DecoderInvariant, PTL

(***************************************************************************)
(* The measurement of links.                                               *)
(***************************************************************************)
Sample == Rtts \cup {NoRtt}

LinkStates == [received : Nat, samples : Seq(Sample), last_total : Nat,
               last_rate_at : 0 .. LinkTimeLimit, rate : Nat, observed : 0 .. LinkTimeLimit]

\* w holds the last entries of p, as many as fit.
LastProbes(w, p) ==
    /\ Len(w) = IF Len(p) < ProbeWindow THEN Len(p) ELSE ProbeWindow
    /\ \A i \in 1 .. Len(w) : w[i] = p[(Len(p) - Len(w)) + i]

\* What was credited is covered by the bytes up to the baseline of the last probe.
MeasuredOK(s, p, credit) ==
    /\ s \in LinkStates /\ p \in Seq(Sample) /\ credit \in Nat
    /\ s.last_total <= s.received /\ credit <= s.last_total * RateScale
    /\ LastProbes(s.samples, p)

\* The inductive invariant of the links.
LinkInv ==
    /\ wall \in 1 .. LinkTimeLimit
    /\ DOMAIN link = Links /\ link = [l \in Links |-> link[l]]
    /\ DOMAIN probed = Links /\ DOMAIN credited = Links
    /\ \A l \in Links : MeasuredOK(link[l], probed[l], credited[l])

-----------------------------------------------------------------------------
LEMMA LinkConstants ==
    /\ ProbeWindow \in Nat /\ ProbeWindow >= 1 /\ RateScale \in Nat /\ LinkTimeLimit \in Nat
    /\ LinkTimeLimit >= 1 /\ ByteCounts \subseteq Nat
<1>1. /\ ProbeWindow \in Nat \ {0} /\ RateScale \in Nat \ {0} /\ LinkTimeLimit \in Nat \ {0}
      /\ ByteCounts \subseteq Nat
  BY LinkAssumption
<1>. QED
  BY <1>1

\* The window slides by one.
LEMMA SlidKeeps ==
    ASSUME NEW w \in Seq(Sample), NEW p \in Seq(Sample), LastProbes(w, p), NEW rtt \in Sample
    PROVE  Slid(w, rtt) \in Seq(Sample) /\ LastProbes(Slid(w, rtt), Append(p, rtt))
<1>1. PICK n, k, q, v : n = Len(p) /\ k = Len(w) /\ q = Append(p, rtt) /\ v = Slid(w, rtt)
  OBVIOUS
<1>2. /\ n \in Nat /\ k \in Nat /\ ProbeWindow \in Nat /\ ProbeWindow >= 1
      /\ k = (IF n < ProbeWindow THEN n ELSE ProbeWindow)
      /\ \A i \in 1 .. k : w[i] = p[(n - k) + i]
  <2>1. n \in Nat /\ k \in Nat
    BY <1>1
  <2>2. /\ k = (IF n < ProbeWindow THEN n ELSE ProbeWindow)
        /\ \A i \in 1 .. k : w[i] = p[(n - k) + i]
    BY <1>1 DEF LastProbes
  <2>. QED
    BY <2>1, <2>2, LinkConstants
<1>3. /\ q \in Seq(Sample) /\ Len(q) = n + 1 /\ q[n + 1] = rtt
      /\ \A i \in 1 .. n : q[i] = p[i]
  BY <1>1
<1>4. CASE k = ProbeWindow
  <2>1. v = Append(Tail(w), rtt)
    BY <1>1, <1>4 DEF Slid
  <2>2. k >= 1 /\ k <= n
    BY <1>2, <1>4
  <2>3. PICK t : t = Tail(w)
    OBVIOUS
  <2>4. /\ t \in Seq(Sample) /\ Len(t) = k - 1
        /\ \A i \in 1 .. k - 1 : t[i] = w[i + 1]
    <3>1. Len(w) = k /\ Len(w) >= 1
      BY <1>1, <2>2
    <3>2. /\ Tail(w) \in Seq(Sample) /\ Len(Tail(w)) = Len(w) - 1
          /\ \A i \in 1 .. Len(w) - 1 : Tail(w)[i] = w[i + 1]
      BY <3>1, TailEntries
    <3>. QED
      BY <2>3, <3>1, <3>2
  <2>5. /\ v \in Seq(Sample) /\ Len(v) = k /\ v[k] = rtt
        /\ \A i \in 1 .. k - 1 : v[i] = t[i]
    BY <1>2, <2>1, <2>2, <2>3, <2>4, AppendEntries
  <2>6. ASSUME NEW i \in 1 .. k
        PROVE  v[i] = q[((n + 1) - k) + i]
    <3>1. CASE i = k
      <4>1. ((n + 1) - k) + i = n + 1
        BY <1>2, <3>1
      <4>. QED
        BY <1>3, <2>5, <3>1, <4>1
    <3>2. CASE i # k
      <4>1. i \in 1 .. k - 1 /\ i + 1 \in 1 .. k
        BY <1>2, <3>2
      <4>2. v[i] = w[i + 1]
        BY <2>4, <2>5, <4>1
      <4>3. w[i + 1] = p[(n - k) + (i + 1)]
        BY <1>2, <4>1
      <4>4. PICK m : m = (n - k) + (i + 1)
        OBVIOUS
      <4>5. m = ((n + 1) - k) + i /\ m \in 1 .. n
        BY <1>2, <2>2, <4>1, <4>4
      <4>. QED
        BY <1>3, <4>2, <4>3, <4>4, <4>5
    <3>. QED
      BY <3>1, <3>2
  <2>7. Len(v) = IF Len(q) < ProbeWindow THEN Len(q) ELSE ProbeWindow
    BY <1>2, <1>3, <1>4, <2>2, <2>5
  <2>8. LastProbes(v, q)
    BY <1>3, <2>5, <2>6, <2>7 DEF LastProbes
  <2>. QED
    BY <1>1, <2>5, <2>8
<1>5. CASE k # ProbeWindow
  <2>1. v = Append(w, rtt)
    BY <1>1, <1>5 DEF Slid
  <2>2. k = n /\ n < ProbeWindow
    BY <1>2, <1>5
  <2>3. /\ v \in Seq(Sample) /\ Len(v) = n + 1 /\ v[n + 1] = rtt
        /\ \A i \in 1 .. n : v[i] = w[i]
    <3>1. /\ Append(w, rtt) \in Seq(Sample) /\ Len(Append(w, rtt)) = Len(w) + 1
          /\ Append(w, rtt)[Len(w) + 1] = rtt
          /\ \A i \in 1 .. Len(w) : Append(w, rtt)[i] = w[i]
      BY AppendEntries
    <3>2. Len(w) = n
      BY <1>1, <2>2
    <3>. QED
      BY <2>1, <3>1, <3>2
  <2>4. ASSUME NEW i \in 1 .. n + 1
        PROVE  v[i] = q[((n + 1) - (n + 1)) + i]
    <3>1. ((n + 1) - (n + 1)) + i = i
      BY <1>2
    <3>2. CASE i = n + 1
      BY <1>3, <2>3, <3>1, <3>2
    <3>3. CASE i # n + 1
      <4>1. i \in 1 .. n /\ (n - k) + i = i
        BY <1>2, <2>2, <3>3
      <4>2. v[i] = w[i] /\ q[i] = p[i]
        BY <1>3, <2>3, <4>1
      <4>3. w[i] = p[i]
        BY <1>2, <2>2, <4>1
      <4>. QED
        BY <3>1, <4>2, <4>3
    <3>. QED
      BY <3>2, <3>3
  <2>5. Len(v) = IF Len(q) < ProbeWindow THEN Len(q) ELSE ProbeWindow
    BY <1>2, <1>3, <2>2, <2>3
  <2>6. LastProbes(v, q)
    BY <1>3, <2>3, <2>4, <2>5 DEF LastProbes
  <2>. QED
    BY <1>1, <2>3, <2>6
<1>. QED
  BY <1>4, <1>5

\* A rate times the time it was derived over is no more than the bits received.
LEMMA CreditedIsCovered ==
    ASSUME NEW s \in LinkStates, s.last_total <= s.received, NEW now \in 1 .. LinkTimeLimit,
           NEW c \in Nat, c <= s.last_total * RateScale
    PROVE  /\ ThroughputOf(s, now) \in Nat /\ ElapsedOf(s, now) \in Nat
           /\ c + ThroughputOf(s, now) * ElapsedOf(s, now) \in Nat
           /\ c + ThroughputOf(s, now) * ElapsedOf(s, now) <= s.received * RateScale
<1>1. PICK r, b, t, e, q : /\ r = s.received /\ b = s.last_total /\ t = s.last_rate_at
                           /\ e = ElapsedOf(s, now) /\ q = ThroughputOf(s, now)
  OBVIOUS
<1>2. r \in Nat /\ b \in Nat /\ t \in Nat /\ s.rate \in Nat /\ now \in Nat /\ b <= r
  BY <1>1, LinkConstants DEF LinkStates
<1>3. e = IF t > 0 /\ now > t THEN now - t ELSE 0
  BY <1>1 DEF ElapsedOf
<1>4. e \in Nat
  BY <1>2, <1>3
<1>5. b * RateScale <= r * RateScale /\ b * RateScale \in Nat /\ r * RateScale \in Nat
  BY <1>2, LinkConstants, TimesMonotone
<1>6. CASE e > 0
  <2>1. PICK d : d = r - b
    OBVIOUS
  <2>2. d \in Nat /\ r = b + d
    BY <1>2, <2>1
  <2>3. PICK x : x = d * RateScale
    OBVIOUS
  <2>4. x \in Nat /\ r * RateScale = b * RateScale + x
    BY <1>2, <2>2, <2>3, LinkConstants
  <2>5. q = x \div e
    BY <1>1, <1>6, <2>1, <2>3 DEF ThroughputOf
  <2>6. q \in Nat /\ q * e <= x
    BY <1>4, <1>6, <2>4, <2>5, QuotientTimes
  <2>7. PICK y : y = q * e
    OBVIOUS
  <2>8. y \in Nat
    BY <1>4, <2>6, <2>7
  <2>9. c + y <= r * RateScale /\ c + y \in Nat
    <3>1. PICK br, rr : br = b * RateScale /\ rr = r * RateScale
      OBVIOUS
    <3>2. br \in Nat /\ rr \in Nat /\ rr = br + x /\ c <= br /\ y <= x
      BY <1>1, <1>5, <2>4, <2>6, <2>7, <3>1
    <3>. QED
      BY <2>4, <2>8, <3>1, <3>2
  <2>. QED
    BY <1>1, <1>4, <2>6, <2>7, <2>9
<1>7. CASE ~(e > 0)
  <2>1. q = s.rate /\ e = 0
    BY <1>1, <1>4, <1>7 DEF ThroughputOf
  <2>2. q \in Nat /\ q * e = 0
    BY <1>2, <2>1
  <2>3. c <= r * RateScale
    <3>1. PICK br, rr : br = b * RateScale /\ rr = r * RateScale
      OBVIOUS
    <3>2. br \in Nat /\ rr \in Nat /\ br <= rr /\ c <= br
      BY <1>1, <1>5, <3>1
    <3>. QED
      BY <3>1, <3>2
  <2>4. c + q * e = c
    BY <2>2
  <2>. QED
    BY <1>1, <1>4, <2>2, <2>3, <2>4
<1>. QED
  BY <1>6, <1>7

\* One probe of a link.
LEMMA ProbedKeeps ==
    ASSUME NEW s, NEW p, NEW c, MeasuredOK(s, p, c), NEW rtt \in Sample,
           NEW now \in 1 .. LinkTimeLimit
    PROVE  MeasuredOK(Probed(s, rtt, now), Append(p, rtt),
                      c + Probed(s, rtt, now).rate * ElapsedOf(s, now))
<1>1. /\ s \in LinkStates /\ p \in Seq(Sample) /\ c \in Nat /\ s.samples \in Seq(Sample)
      /\ s.last_total <= s.received /\ c <= s.last_total * RateScale
      /\ LastProbes(s.samples, p) /\ s.received \in Nat
  BY DEF MeasuredOK, LinkStates
<1>2. PICK w, q, t : /\ w = Slid(s.samples, rtt) /\ q = ThroughputOf(s, now)
                     /\ t = Probed(s, rtt, now)
  OBVIOUS
<1>3. w \in Seq(Sample) /\ LastProbes(w, Append(p, rtt)) /\ Append(p, rtt) \in Seq(Sample)
  BY <1>1, <1>2, SlidKeeps, AppendEntries
<1>4. /\ q \in Nat /\ ElapsedOf(s, now) \in Nat /\ c + q * ElapsedOf(s, now) \in Nat
      /\ c + q * ElapsedOf(s, now) <= s.received * RateScale
  BY <1>1, <1>2, CreditedIsCovered
<1>5. now \in 0 .. LinkTimeLimit
  BY LinkConstants
<1>6. t = [s EXCEPT !.samples = w, !.rate = q, !.last_total = s.received,
                    !.last_rate_at = now, !.observed = now]
  BY <1>2 DEF Probed
<1>7. /\ t \in LinkStates /\ t.samples = w /\ t.rate = q /\ t.last_total = s.received
      /\ t.received = s.received
  BY <1>1, <1>3, <1>4, <1>5, <1>6 DEF LinkStates
<1>8. PICK g : g = c + q * ElapsedOf(s, now)
  OBVIOUS
<1>9. g \in Nat /\ g <= t.last_total * RateScale /\ t.last_total <= t.received
  BY <1>1, <1>4, <1>7, <1>8
<1>10. MeasuredOK(t, Append(p, rtt), g)
  BY <1>3, <1>7, <1>9 DEF MeasuredOK
<1>11. g = c + t.rate * ElapsedOf(s, now)
  BY <1>7, <1>8
<1>. QED
  BY <1>2, <1>10, <1>11

LEMMA LinkStep ==
    ASSUME LinkInv, [LinkNext]_linkVars
    PROVE  LinkInv'
<1>1. ASSUME NEW l \in Links, NEW peer \in LinkPeers, NEW bytes \in ByteCounts,
             RecordLinkBytes(l, peer, bytes)
      PROVE  LinkInv'
  <2>1. PICK s, b : /\ s = link[l]
                    /\ b = IF peer = PeerOf[l] THEN s.received + bytes ELSE s.received
    OBVIOUS
  <2>2. MeasuredOK(s, probed[l], credited[l]) /\ s \in LinkStates /\ s.received \in Nat
    BY <2>1 DEF LinkInv, MeasuredOK, LinkStates
  <2>3. bytes \in Nat
    BY LinkConstants
  <2>4. b \in Nat /\ s.received <= b
    BY <2>1, <2>2, <2>3
  <2>5. PICK t : t = [s EXCEPT !.received = b]
    OBVIOUS
  <2>6. /\ t \in LinkStates /\ t.received = b /\ t.last_total = s.last_total
        /\ t.samples = s.samples
    BY <2>2, <2>4, <2>5 DEF LinkStates
  <2>7. MeasuredOK(t, probed[l], credited[l])
    <3>1. s.last_total \in Nat /\ s.last_total <= s.received
      BY <2>2 DEF MeasuredOK, LinkStates
    <3>2. s.last_total <= b
      BY <2>2, <2>4, <3>1
    <3>. QED
      BY <2>2, <2>6, <3>2 DEF MeasuredOK
  <2>8. /\ link' = [link EXCEPT ![l] = t]
        /\ wall' = wall /\ probed' = probed /\ credited' = credited
    BY <1>1, <2>1, <2>5 DEF RecordLinkBytes
  <2>. QED
    BY <2>7, <2>8 DEF LinkInv
<1>2. ASSUME NEW l \in Links, NEW rtt \in Sample, RecordProbe(l, rtt)
      PROVE  LinkInv'
  <2>1. PICK t, q, g : /\ t = Probed(link[l], rtt, wall) /\ q = Append(probed[l], rtt)
                       /\ g = credited[l] + t.rate * ElapsedOf(link[l], wall)
    OBVIOUS
  <2>2. MeasuredOK(t, q, g)
    BY <2>1, ProbedKeeps DEF LinkInv
  <2>3. link' = [link EXCEPT ![l] = t] /\ probed' = [probed EXCEPT ![l] = q] /\ wall' = wall
    BY <1>2, <2>1 DEF RecordProbe
  <2>4. link'[l] = t
    BY <2>3 DEF LinkInv
  <2>5. credited' = [credited EXCEPT ![l] = g]
    BY <1>2, <2>1, <2>4 DEF RecordProbe
  <2>6. ASSUME NEW k \in Links
        PROVE  MeasuredOK(link'[k], probed'[k], credited'[k])
    BY <2>2, <2>3, <2>5 DEF LinkInv
  <2>. QED
    BY <2>3, <2>5, <2>6 DEF LinkInv
<1>3. ASSUME NEW now \in 1 .. LinkTimeLimit, SetWall(now)
      PROVE  LinkInv'
  BY <1>3 DEF SetWall, LinkInv
<1>4. CASE UNCHANGED linkVars
  BY <1>4 DEF linkVars, LinkInv
<1>. QED
  BY <1>1, <1>2, <1>3, <1>4 DEF LinkNext, Sample

LEMMA LinkInitOK ==
    ASSUME LinkInit
    PROVE  LinkInv
<1>1. /\ NewLink \in LinkStates /\ NewLink.last_total = 0 /\ NewLink.received = 0
      /\ NewLink.samples = <<>>
  <2>1. 0 \in 0 .. LinkTimeLimit /\ <<>> \in Seq(Sample)
    BY LinkConstants
  <2>. QED
    BY <2>1 DEF NewLink, LinkStates
<1>2. LastProbes(<<>>, <<>>)
  <2>1. Len(<<>>) = 0 /\ 0 < ProbeWindow
    BY LinkConstants
  <2>. QED
    BY <2>1 DEF LastProbes
<1>3. 0 * RateScale = 0
  BY LinkConstants
<1>4. MeasuredOK(NewLink, <<>>, 0)
  BY <1>1, <1>2, <1>3 DEF MeasuredOK
<1>5. 1 \in 1 .. LinkTimeLimit
  BY LinkConstants
<1>. QED
  BY <1>4, <1>5 DEF LinkInit, LinkInv

\* Links keep their window, and what was credited is covered.
THEOREM LinkInvariant == LinkSpec => []LinkInv
<1>. QED
  BY LinkInitOK, LinkStep, PTL DEF LinkSpec

\* What a snapshot says of a window: how many of its probes were lost, and whether
\* all of them were.
LEMMA ObservationOf ==
    ASSUME NEW s \in LinkStates, NEW o \in LinkSnapshot(s)
    PROVE  /\ o.lost = Cardinality({i \in 1 .. Len(s.samples) : s.samples[i] = NoRtt})
           /\ o.state = "unreachable" <=> \A i \in 1 .. Len(s.samples) : s.samples[i] = NoRtt
<1>1. PICK w, n, ok : w = s.samples /\ n = Len(w) /\ ok = Successful(w)
  OBVIOUS
<1>2. w \in Seq(Sample) /\ n \in Nat /\ DOMAIN w = 1 .. n
  BY <1>1 DEF LinkStates
<1>3. /\ o.state = IF ok = <<>> THEN "unreachable" ELSE "measured"
      /\ o.lost = n - Len(ok)
  <2>1. o = LinkObservation(s)
    BY DEF LinkSnapshot
  <2>2. o = [state |-> IF ok = <<>> THEN "unreachable" ELSE "measured",
             rtt |-> MeanOf(ok), jitter |-> MeanOf(Variations(ok)),
             lost |-> n - Len(ok), samples |-> n,
             rate |-> s.rate, received |-> s.received, observed |-> s.observed]
    BY <1>1, <2>1 DEF LinkObservation
  <2>. QED
    BY <2>2
<1>4. PICK A, B, S : /\ A = {i \in 1 .. n : w[i] # NoRtt} /\ B = {i \in 1 .. n : w[i] = NoRtt}
                     /\ S = 1 .. n
  OBVIOUS
<1>5. ok = Subsequence(w, A)
  BY <1>1, <1>2, <1>4 DEF Successful
<1>6. Len(ok) = Cardinality(A) /\ IsFiniteSet(A) /\ ok \in Seq(Sample)
  <2>1. A \subseteq 1 .. Len(w)
    BY <1>1, <1>4
  <2>. QED
    BY <1>2, <1>5, <2>1, SubsequenceLength
<1>7. IsFiniteSet(S) /\ Cardinality(S) = n
  BY <1>2, <1>4, FS_Interval
<1>8. Cardinality(S \ A) = Cardinality(S) - Cardinality(S \cap A)
  BY <1>7, FS_Difference
<1>9. S \ A = B /\ S \cap A = A
  BY <1>4
<1>10. o.lost = Cardinality(B)
  BY <1>3, <1>6, <1>7, <1>8, <1>9
<1>11. ok = <<>> <=> A = {}
  <2>1. Cardinality(A) = 0 <=> A = {}
    BY <1>6, FS_EmptySet
  <2>2. Len(ok) = 0 <=> ok = <<>>
    BY <1>6
  <2>. QED
    BY <1>6, <2>1, <2>2
<1>12. A = {} <=> \A i \in 1 .. n : w[i] = NoRtt
  BY <1>4
<1>13. o.state = "unreachable" <=> \A i \in 1 .. n : w[i] = NoRtt
  BY <1>3, <1>11, <1>12
<1>. QED
  BY <1>1, <1>4, <1>10, <1>13

\* The window of the code is the one of the property.
LEMMA WindowIsLast ==
    ASSUME NEW w \in Seq(Sample), NEW p \in Seq(Sample), LastProbes(w, p)
    PROVE  SubSeq(p, Max({1, Len(p) - ProbeWindow + 1}), Len(p)) = w
<1>1. PICK n, k : n = Len(p) /\ k = Len(w)
  OBVIOUS
<1>2. /\ n \in Nat /\ k \in Nat
      /\ k = (IF n < ProbeWindow THEN n ELSE ProbeWindow)
      /\ \A i \in 1 .. k : w[i] = p[(n - k) + i]
  <2>1. n \in Nat /\ k \in Nat
    BY <1>1
  <2>. QED
    BY <1>1, <2>1 DEF LastProbes
<1>3. PICK m : m = Max({1, (n - ProbeWindow) + 1})
  OBVIOUS
<1>4. ProbeWindow \in Nat /\ ProbeWindow >= 1
  BY LinkConstants
<1>5. m = IF 1 >= (n - ProbeWindow) + 1 THEN 1 ELSE (n - ProbeWindow) + 1
  BY <1>2, <1>3, <1>4, MaxOfTwo
<1>6. m = (n - k) + 1 /\ m \in Nat /\ m >= 1 /\ k <= n
  BY <1>2, <1>4, <1>5
<1>7. PICK v : v = SubSeq(p, m, n)
  OBVIOUS
<1>8. v \in Seq(Sample) /\ Len(v) = k /\ \A i \in 1 .. k : v[i] = p[(n - k) + i]
  <2>1. Len(v) = k
    BY <1>1, <1>2, <1>6, <1>7
  <2>2. \A i \in 1 .. Len(v) : v[i] = p[(m + i) - 1]
    <3>1. \A i \in 1 .. ((Len(p) - m) + 1) : SubSeq(p, m, Len(p))[i] = p[(m + i) - 1]
      BY <1>1, <1>6, SliceEntries
    <3>2. (n - m) + 1 = k
      BY <1>2, <1>6
    <3>. QED
      BY <1>1, <1>7, <2>1, <3>1, <3>2
  <2>3. \A i \in 1 .. k : (m + i) - 1 = (n - k) + i
    BY <1>2, <1>6
  <2>4. v \in Seq(Sample)
    BY <1>1, <1>2, <1>6, <1>7
  <2>. QED
    BY <2>1, <2>2, <2>3, <2>4
<1>9. v = w
  BY <1>1, <1>2, <1>8, SameEntries
<1>10. Len(p) - ProbeWindow + 1 = (n - ProbeWindow) + 1
  BY <1>1, <1>2, <1>4
<1>. QED
  BY <1>1, <1>3, <1>7, <1>9, <1>10

\* LinksMeasured (link_telemetry.rs:91-167) for any links, peers, round trips,
\* window and scale, and any wall clock: the throughput never credits a link with
\* more than it received, and a snapshot speaks of the last probes, as many as the
\* window holds.
THEOREM LinksAreMeasured == LinkSpec => []LinksMeasured
<1>1. LinkInv => LinksMeasured
  <2>. SUFFICES ASSUME LinkInv
                PROVE  LinksMeasured
    OBVIOUS
  <2>1. LinkTypeOK
    <3>1. ASSUME NEW l \in Links
          PROVE  /\ link[l].samples \in Seq(Rtts \cup {NoRtt})
                 /\ {link[l].received, link[l].last_total, link[l].rate} \subseteq Nat
                 /\ {link[l].last_rate_at, link[l].observed} \subseteq 0 .. LinkTimeLimit
      BY DEF LinkInv, MeasuredOK, LinkStates, Sample
    <3>. QED
      BY <3>1 DEF LinkInv, LinkTypeOK
  <2>2. RateIsConserved
    <3>1. ASSUME NEW l \in Links
          PROVE  credited[l] <= RateScale * link[l].received
      <4>1. PICK c, b, r : c = credited[l] /\ b = link[l].last_total /\ r = link[l].received
        OBVIOUS
      <4>2. c \in Nat /\ b \in Nat /\ r \in Nat /\ b <= r /\ c <= b * RateScale
        BY <4>1 DEF LinkInv, MeasuredOK, LinkStates
      <4>3. b * RateScale <= r * RateScale /\ b * RateScale \in Nat /\ r * RateScale \in Nat
        BY <4>2, LinkConstants, TimesMonotone
      <4>4. PICK br, rr : br = b * RateScale /\ rr = r * RateScale
        OBVIOUS
      <4>5. c <= rr
        BY <4>2, <4>3, <4>4
      <4>6. rr = RateScale * r
        BY <4>2, <4>4, LinkConstants
      <4>. QED
        BY <4>1, <4>5, <4>6
    <3>. QED
      BY <3>1 DEF RateIsConserved
  <2>3. SnapshotIsWindow
    <3>1. SUFFICES ASSUME NEW l \in Links, NEW o \in LinkSnapshot(link[l])
                   PROVE  LET n == Len(probed[l])
                              window == SubSeq(probed[l], Max({1, n - ProbeWindow + 1}), n)
                          IN  /\ o.lost = Cardinality({i \in 1 .. Len(window) : window[i] = NoRtt})
                              /\ (o.state = "unreachable")
                                   = (\A i \in 1 .. Len(window) : window[i] = NoRtt)
      BY Zenon DEF SnapshotIsWindow
    <3>. DEFINE window == SubSeq(probed[l], Max({1, Len(probed[l]) - ProbeWindow + 1}), Len(probed[l]))
    <3>2. /\ link[l] \in LinkStates /\ link[l].samples \in Seq(Sample)
          /\ probed[l] \in Seq(Sample) /\ LastProbes(link[l].samples, probed[l])
      BY <3>1 DEF LinkInv, MeasuredOK, LinkStates
    <3>3. window = link[l].samples
      BY <3>2, WindowIsLast
    <3>. HIDE DEF window
    <3>4. /\ o.lost = Cardinality({i \in 1 .. Len(window) : window[i] = NoRtt})
          /\ o.state = "unreachable" <=> \A i \in 1 .. Len(window) : window[i] = NoRtt
      BY <3>1, <3>2, <3>3, ObservationOf
    <3>5. /\ o.lost = Cardinality({i \in 1 .. Len(window) : window[i] = NoRtt})
          /\ (o.state = "unreachable") = (\A i \in 1 .. Len(window) : window[i] = NoRtt)
      BY <3>4
    <3>. QED
      BY <3>5, Zenon DEF window
  <2>. QED
    BY <2>1, <2>2, <2>3 DEF LinksMeasured
<1>. QED
  BY <1>1, LinkInvariant, PTL

(***************************************************************************)
(* The replica planner.                                                    *)
(***************************************************************************)

\* Of a finite set of nodes one has the best score, and is the last of those.
LEMMA BestExists ==
    ASSUME NEW S \in SUBSET Nat, IsFiniteSet(S), S # {}, NEW f \in [S -> Int]
    PROVE  \E x \in S : \A y \in S : f[x] > f[y] \/ (f[x] = f[y] /\ x >= y)
<1>. DEFINE F == {T \in SUBSET S : T # {} =>
                     \E x \in T : \A y \in T : f[x] > f[y] \/ (f[x] = f[y] /\ x >= y)}
<1>1. ASSUME NEW T \in SUBSET S, \A U \in SUBSET T : U # T => U \in F
      PROVE  T \in F
  <2>1. CASE T = {}
    BY <2>1
  <2>2. CASE T # {}
    <3>1. PICK x \in T : TRUE
      BY <2>2
    <3>2. PICK U : U = T \ {x}
      OBVIOUS
    <3>3. U \in SUBSET T /\ U # T
      BY <3>1, <3>2
    <3>4. U \in F
      BY <1>1, <3>3
    <3>5. \A k \in T : k \in Nat /\ f[k] \in Int /\ (k = x \/ k \in U)
      BY <3>1, <3>2
    <3>6. CASE U = {}
      BY <3>1, <3>5, <3>6
    <3>7. CASE U # {}
      <4>1. PICK m \in U : \A k \in U : f[m] > f[k] \/ (f[m] = f[k] /\ m >= k)
        BY <3>4, <3>7
      <4>2. m \in T
        BY <3>3, <4>1
      <4>3. CASE f[m] > f[x] \/ (f[m] = f[x] /\ m >= x)
        <5>1. \A k \in T : f[m] > f[k] \/ (f[m] = f[k] /\ m >= k)
          BY <3>5, <4>1, <4>3
        <5>. QED
          BY <4>2, <5>1
      <4>4. CASE ~(f[m] > f[x] \/ (f[m] = f[x] /\ m >= x))
        <5>1. f[x] > f[m] \/ (f[x] = f[m] /\ x > m)
          BY <3>1, <3>5, <4>2, <4>4
        <5>2. ASSUME NEW k \in T
              PROVE  f[x] > f[k] \/ (f[x] = f[k] /\ x >= k)
          <6>1. CASE k = x
            BY <3>1, <3>5, <6>1
          <6>2. CASE k \in U
            <7>1. f[m] > f[k] \/ (f[m] = f[k] /\ m >= k)
              BY <4>1, <6>2
            <7>. QED
              BY <3>1, <3>5, <4>2, <5>1, <7>1
          <6>. QED
            BY <3>5, <6>1, <6>2
        <5>. QED
          BY <3>1, <5>2
      <4>. QED
        BY <4>3, <4>4
    <3>. QED
      BY <3>6, <3>7
  <2>. QED
    BY <2>1, <2>2
<1>2. S \in F
  <2>. HIDE DEF F
  <2>. QED
    BY <1>1, SubsetInduction
<1>. QED
  BY <1>2

Settled(scope, target) == CountReplicas(scope) >= target \/ Candidates(scope) = {}

DemandMet(d) ==
    \/ CountReplicas(Region(d[1])) > 0
    \/ Candidates(Region(d[1])) = {}
       /\ (CountReplicas(Continent(d[2])) > 0 \/ Candidates(Continent(d[2])) = {})

Full == Len(selected) >= policy.cap

Scopes == {Baseline[i].scope : i \in DOMAIN Baseline}
          \cup {Region(d[1]) : d \in DemandRegions} \cup {Continent(d[2]) : d \in DemandRegions}

Fallbacks == {<<>>} \cup {FallsBack(d) : d \in DemandRegions}

Tasks == [scope : Scopes, target : Nat, otherwise : Fallbacks]

PlacementTypes ==
    /\ policy \in Policies /\ storable \subseteq Nodes /\ replicas \subseteq Nodes
    /\ hot \subseteq DemandRegions /\ selected \in Seq(Nodes) /\ Len(selected) <= policy.cap
    /\ round \in 1 .. 2 /\ todo \in Seq(Tasks)
    /\ Len(selected) <= Cardinality(Placed)

\* The baseline is filled up to its k-th scope.
FillsBaseline(k) ==
    /\ Len(todo) = Len(Baseline) - k /\ hot \subseteq demanded
    /\ \A i \in 1 .. Len(todo) : /\ todo[i].scope = Baseline[k + i].scope
                                 /\ todo[i].target = Baseline[k + i].target
                                 /\ todo[i].otherwise = <<>>
    /\ ~Full => \A i \in 1 .. k : Settled(Baseline[i].scope, Baseline[i].target)

BaselineFilled == ~Full => \A i \in 1 .. Len(Baseline) : Settled(Baseline[i].scope, Baseline[i].target)

\* The demands but those of D are met.
DemandsMet(D) == ~Full => \A d \in hot \ D : DemandMet(d)

FillsRegion(d) ==
    /\ Len(todo) = 1 /\ todo[1].scope = Region(d[1]) /\ todo[1].target = 1
    /\ \/ todo[1].otherwise = FallsBack(d)
       \/ todo[1].otherwise = <<>> /\ CountReplicas(Region(d[1])) > 0

FillsContinent(d) ==
    /\ Len(todo) = 1 /\ todo[1].scope = Continent(d[2]) /\ todo[1].target = 1
    /\ todo[1].otherwise = <<>>
    /\ ~Full => CountReplicas(Region(d[1])) > 0 \/ Candidates(Region(d[1])) = {}

FillsDemand ==
    /\ BaselineFilled
    /\ \/ todo = <<>> /\ DemandsMet(demanded)
       \/ \E d \in hot \ demanded : (FillsRegion(d) \/ FillsContinent(d)) /\ DemandsMet(demanded \cup {d})

\* The second plan finds nothing to do.
NothingLeft ==
    round = 2 /\ Cardinality(replicas) < policy.cap =>
        /\ selected = <<>>
        /\ \A i \in 1 .. Len(Baseline) : Settled(Baseline[i].scope, Baseline[i].target)
        /\ \A d \in hot : DemandMet(d)

PlacementInv ==
    /\ PlacementTypes
    /\ (\E k \in 0 .. Len(Baseline) : FillsBaseline(k)) \/ FillsDemand
    /\ NothingLeft

\* The replicas of a scope are counted, and there are no fewer when more nodes
\* have one.
LEMMA CountsGrow ==
    ASSUME NEW P, NEW Q, P \subseteq Q, Q \subseteq Nodes, NEW scope
    PROVE  /\ Cardinality({n \in P : Matches(n, scope)}) \in Nat
           /\ Cardinality({n \in Q : Matches(n, scope)}) \in Nat
           /\ Cardinality({n \in P : Matches(n, scope)}) <= Cardinality({n \in Q : Matches(n, scope)})
<1>1. PICK A, B : A = {n \in P : Matches(n, scope)} /\ B = {n \in Q : Matches(n, scope)}
  OBVIOUS
<1>2. A \in SUBSET B /\ B \in SUBSET Nodes
  BY <1>1
<1>3. IsFiniteSet(B)
  BY <1>2, FS_Subset, PlacementAssumption DEF Nodes
<1>4. IsFiniteSet(A) /\ Cardinality(A) <= Cardinality(B)
  BY <1>2, <1>3, FS_Subset
<1>5. Cardinality(A) \in Nat /\ Cardinality(B) \in Nat
  BY <1>3, <1>4, FS_CardinalityType
<1>. QED
  BY <1>1, <1>4, <1>5

\* One replica makes the count positive.
LEMMA CountPositive ==
    ASSUME NEW Q, Q \subseteq Nodes, NEW scope, NEW n \in Q, Matches(n, scope)
    PROVE  Cardinality({m \in Q : Matches(m, scope)}) > 0
<1>1. PICK B : B = {m \in Q : Matches(m, scope)}
  OBVIOUS
<1>2. B \in SUBSET Nodes /\ n \in B
  BY <1>1
<1>3. IsFiniteSet(B)
  BY <1>2, FS_Subset, PlacementAssumption DEF Nodes
<1>4. Cardinality(B) \in Nat /\ Cardinality(B) # 0
  BY <1>2, <1>3, FS_CardinalityType, FS_EmptySet
<1>5. Cardinality(B) > 0
  BY <1>4
<1>. QED
  BY <1>1, <1>5

\* And a positive count is due to a replica.
LEMMA ReplicaCounted ==
    ASSUME NEW Q, Q \subseteq Nodes, NEW scope, Cardinality({m \in Q : Matches(m, scope)}) > 0
    PROVE  \E n \in Q : Matches(n, scope)
<1>1. SUFFICES ASSUME \A n \in Q : ~Matches(n, scope)
               PROVE  FALSE
  OBVIOUS
<1>2. {m \in Q : Matches(m, scope)} = {}
  BY <1>1
<1>3. Cardinality({}) = 0
  BY FS_EmptySet
<1>4. ~(0 > 0)
  OBVIOUS
<1>5. Cardinality({m \in Q : Matches(m, scope)}) = 0
  BY <1>2, <1>3
<1>. QED
  BY <1>4, <1>5

\* The replicas are nodes.
LEMMA PlacedAreNodes ==
    ASSUME replicas \subseteq Nodes, selected \in Seq(Nodes)
    PROVE  Placed \subseteq Nodes /\ IsFiniteSet(Placed) /\ Cardinality(Placed) \in Nat
<1>1. Range(selected) \subseteq Nodes
  BY DEF Range
<1>2. Placed \subseteq Nodes
  BY <1>1 DEF Placed
<1>3. IsFiniteSet(Placed)
  BY <1>2, FS_Subset, PlacementAssumption DEF Nodes
<1>. QED
  BY <1>2, <1>3, FS_CardinalityType

\* Distances are numbers, so that scores can be compared.
LEMMA ScoresCompare ==
    ASSUME Placed \subseteq Nodes, NEW n \in Nodes
    PROVE  Score(n) \in Int
<1>1. MeshNodes[n].place \in Int /\ MeshNodes[n].merit \in Int
  BY PlacementAssumption DEF Nodes
<1>2. Distance(n) \in Int
  <2>1. CASE Placed = {}
    BY <2>1, PlacementAssumption DEF Distance
  <2>2. CASE Placed # {}
    <3>1. PICK D : D = {Abs(MeshNodes[n].place - MeshNodes[o].place) : o \in Placed}
      OBVIOUS
    <3>2. \A o \in Placed : Abs(MeshNodes[n].place - MeshNodes[o].place) \in Nat
      <4>1. \A o \in Placed : MeshNodes[o].place \in Int
        BY PlacementAssumption DEF Nodes
      <4>. QED
        BY <1>1, <4>1 DEF Abs
    <3>3. D \in SUBSET Nat /\ D # {}
      BY <2>2, <3>1, <3>2
    <3>4. Min(D) \in Nat
      BY <3>3, MinOfNat
    <3>. QED
      BY <2>2, <3>1, <3>4 DEF Distance
  <2>. QED
    BY <2>1, <2>2
<1>3. Min({Distance(n), DistanceCap}) \in Int
  BY <1>2, MinOfTwo, PlacementAssumption
<1>. QED
  BY <1>1, <1>3 DEF Score

\* choose_candidate finds a node of the scope that can store the stream and has
\* no replica.
LEMMA ChosenIsCandidate ==
    ASSUME Placed \subseteq Nodes, NEW scope, Candidates(scope) # {}
    PROVE  Chosen(scope) \in Candidates(scope)
<1>1. PICK S : S = Pool(scope)
  OBVIOUS
<1>2. S # {} /\ S \subseteq Candidates(scope)
  BY <1>1 DEF Pool, FarEnough
<1>3. S \subseteq Nodes
  BY <1>2 DEF Candidates
<1>4. IsFiniteSet(S) /\ S \in SUBSET Nat
  BY <1>3, FS_Subset, PlacementAssumption DEF Nodes
<1>5. PICK f : f = [n \in S |-> Score(n)]
  OBVIOUS
<1>6. \A n \in S : Score(n) \in Int
  BY <1>3, ScoresCompare
<1>7. f \in [S -> Int]
  BY <1>5, <1>6
<1>8. PICK x \in S : \A y \in S : f[x] > f[y] \/ (f[x] = f[y] /\ x >= y)
  BY <1>2, <1>4, <1>7, BestExists
<1>9. \A y \in S : f[y] = Score(y)
  BY <1>5
<1>10. \E n \in S : \A o \in S : Score(n) > Score(o) \/ (Score(n) = Score(o) /\ n >= o)
  BY <1>8, <1>9
<1>11. Chosen(scope) \in S
  BY <1>1, <1>10 DEF Chosen
<1>. QED
  BY <1>2, <1>11

\* A baseline scope has a target and nothing to try instead.
LEMMA BaselineShape ==
    ASSUME policy \in Policies
    PROVE  /\ Baseline \in Seq(Tasks)
           /\ \A i \in 1 .. Len(Baseline) : /\ Baseline[i].otherwise = <<>>
                                            /\ Baseline[i].target \in Nat
<1>1. PICK C, R : C = {MeshNodes[n].continent : n \in Nodes} /\ R = {MeshNodes[n].region : n \in Nodes}
  OBVIOUS
<1>2. IsFiniteSet(Nodes)
  BY PlacementAssumption DEF Nodes
<1>3. Cardinality(C) \in Nat
  <2>1. PICK f : f = [n \in Nodes |-> MeshNodes[n].continent]
    OBVIOUS
  <2>2. f \in Surjection(Nodes, C)
    BY <1>1, <2>1 DEF Surjection
  <2>3. IsFiniteSet(C)
    BY <1>2, <2>2, FS_Surjection
  <2>. QED
    BY <2>3, FS_CardinalityType
<1>4. Cardinality(R) \in Nat
  <2>1. PICK f : f = [n \in Nodes |-> MeshNodes[n].region]
    OBVIOUS
  <2>2. f \in Surjection(Nodes, R)
    BY <1>1, <2>1 DEF Surjection
  <2>3. IsFiniteSet(R)
    BY <1>2, <2>2, FS_Surjection
  <2>. QED
    BY <2>3, FS_CardinalityType
<1>5. policy.continent \in Nat /\ policy.region \in Nat
  BY PlacementAssumption
<1>6. PICK a, b, c, r :
         /\ c = Cardinality(C) /\ r = Cardinality(R)
         /\ a = (IF policy.continent = 0 THEN <<>> ELSE
                   [i \in 1 .. c |-> [scope |-> Continent(Ordered(C)[i]), target |-> policy.continent,
                                      otherwise |-> <<>>]])
         /\ b = (IF policy.region = 0 THEN <<>> ELSE
                   [i \in 1 .. r |-> [scope |-> Region(Ordered(R)[i]), target |-> policy.region,
                                      otherwise |-> <<>>]])
  OBVIOUS
<1>7. Baseline = a \o b
  BY <1>1, <1>6 DEF Baseline
<1>. DEFINE U == {Continent(Ordered(C)[i]) : i \in 1 .. c} \cup {Region(Ordered(R)[i]) : i \in 1 .. r}
            T == [scope : U, target : Nat, otherwise : {<<>>}]
<1>8. a \in Seq(T) /\ b \in Seq(T)
  <2>1. c \in Nat /\ r \in Nat
    BY <1>3, <1>4, <1>6
  <2>2. \A i \in 1 .. c : [scope |-> Continent(Ordered(C)[i]), target |-> policy.continent,
                           otherwise |-> <<>>] \in T
    BY <1>5
  <2>3. \A i \in 1 .. r : [scope |-> Region(Ordered(R)[i]), target |-> policy.region,
                           otherwise |-> <<>>] \in T
    BY <1>5
  <2>. HIDE DEF T
  <2>4. a \in Seq(T)
    BY <1>6, <2>1, <2>2
  <2>5. b \in Seq(T)
    BY <1>6, <2>1, <2>3
  <2>. QED
    BY <2>4, <2>5
<1>9. Baseline \in Seq(T)
  <2>. HIDE DEF T
  <2>. QED
    BY <1>7, <1>8
<1>10. \A i \in 1 .. Len(Baseline) : Baseline[i] \in T
  <2>. HIDE DEF T
  <2>. QED
    BY <1>9
<1>11. \A t \in T : t \in [scope : {t.scope}, target : Nat, otherwise : {<<>>}]
  OBVIOUS
<1>12. \A i \in 1 .. Len(Baseline) : Baseline[i] \in Tasks
  <2>1. SUFFICES ASSUME NEW i \in 1 .. Len(Baseline)
                 PROVE  Baseline[i] \in Tasks
    OBVIOUS
  <2>2. DOMAIN Baseline = 1 .. Len(Baseline)
    <3>. HIDE DEF T
    <3>. QED
      BY <1>9
  <2>3. Baseline[i].scope \in Scopes
    BY <2>1, <2>2, Zenon DEF Scopes
  <2>4. <<>> \in Fallbacks
    BY DEF Fallbacks
  <2>5. Baseline[i] \in [scope : {Baseline[i].scope}, target : Nat, otherwise : {<<>>}]
    BY <1>10, <1>11, <2>1, Zenon
  <2>. QED
    BY <2>3, <2>4, <2>5 DEF Tasks
<1>13. Baseline \in Seq(Tasks)
  <2>1. PICK s : s = Baseline
    OBVIOUS
  <2>2. s \in Seq(T) /\ \A i \in 1 .. Len(s) : s[i] \in Tasks
    BY <1>9, <1>12, <2>1
  <2>. HIDE DEF T
  <2>3. s \in Seq(Tasks)
    BY <2>2
  <2>. QED
    BY <2>1, <2>3
<1>. QED
  BY <1>10, <1>13

\* More replicas on the same nodes meet no fewer targets.
LEMMA MoreReplicas ==
    ASSUME Placed \subseteq Placed', Placed' \subseteq Nodes, UNCHANGED storable
    PROVE  /\ \A scope : /\ CountReplicas(scope) \in Nat /\ CountReplicas(scope)' \in Nat
                         /\ CountReplicas(scope) <= CountReplicas(scope)'
           /\ \A scope : Candidates(scope)' \subseteq Candidates(scope)
<1>1. ASSUME NEW scope
      PROVE  /\ CountReplicas(scope) \in Nat /\ CountReplicas(scope)' \in Nat
             /\ CountReplicas(scope) <= CountReplicas(scope)'
  BY CountsGrow DEF CountReplicas
<1>2. ASSUME NEW scope
      PROVE  Candidates(scope)' \subseteq Candidates(scope)
  BY DEF Candidates
<1>. QED
  BY <1>1, <1>2

\* What is settled stays settled.
LEMMA StaysSettled ==
    ASSUME \A scope : /\ CountReplicas(scope) \in Nat /\ CountReplicas(scope)' \in Nat
                      /\ CountReplicas(scope) <= CountReplicas(scope)',
           \A scope : Candidates(scope)' \subseteq Candidates(scope)
    PROVE  /\ \A scope : \A target \in Nat : Settled(scope, target) => Settled(scope, target)'
           /\ \A scope : CountReplicas(scope) > 0 => CountReplicas(scope)' > 0
           /\ \A scope : Candidates(scope) = {} => Candidates(scope)' = {}
           /\ \A d : DemandMet(d) => DemandMet(d)'
<1>1. \A scope : CountReplicas(scope) > 0 => CountReplicas(scope)' > 0
  <2>1. SUFFICES ASSUME NEW scope, CountReplicas(scope) > 0
                 PROVE  CountReplicas(scope)' > 0
    OBVIOUS
  <2>2. PICK a, b : a = CountReplicas(scope) /\ b = CountReplicas(scope)'
    OBVIOUS
  <2>3. a \in Nat /\ b \in Nat /\ a <= b /\ a > 0
    BY <2>1, <2>2
  <2>. QED
    BY <2>2, <2>3
<1>2. \A scope : Candidates(scope) = {} => Candidates(scope)' = {}
  <2>1. SUFFICES ASSUME NEW scope, Candidates(scope) = {}
                 PROVE  Candidates(scope)' = {}
    OBVIOUS
  <2>2. Candidates(scope)' \subseteq {}
    BY <2>1
  <2>. QED
    BY <2>2
<1>3. ASSUME NEW scope, NEW target \in Nat, Settled(scope, target)
      PROVE  Settled(scope, target)'
  <2>2. PICK a, b : a = CountReplicas(scope) /\ b = CountReplicas(scope)'
    OBVIOUS
  <2>3. a \in Nat /\ b \in Nat /\ a <= b
    BY <2>2
  <2>4. a >= target \/ Candidates(scope) = {}
    BY <1>3, <2>2 DEF Settled
  <2>5. b >= target \/ Candidates(scope)' = {}
    BY <1>2, <2>3, <2>4
  <2>. QED
    BY <2>2, <2>5 DEF Settled
<1>4. ASSUME NEW d, DemandMet(d)
      PROVE  DemandMet(d)'
  <2>1. \/ CountReplicas(Region(d[1]))' > 0
        \/ Candidates(Region(d[1]))' = {}
           /\ (CountReplicas(Continent(d[2]))' > 0 \/ Candidates(Continent(d[2]))' = {})
    BY <1>1, <1>2, <1>4 DEF DemandMet
  <2>. QED
    BY <2>1 DEF DemandMet
<1>. QED
  BY <1>1, <1>2, <1>3, <1>4

\* When nothing is left to do, the baseline is filled and the demands are met.
LEMMA EmptyTodo ==
    ASSUME policy \in Policies, todo = <<>>,
           (\E k \in 0 .. Len(Baseline) : FillsBaseline(k)) \/ FillsDemand
    PROVE  BaselineFilled /\ DemandsMet(demanded)
<1>1. CASE FillsDemand
  <2>1. \A d : ~FillsRegion(d) /\ ~FillsContinent(d)
    BY DEF FillsRegion, FillsContinent
  <2>. QED
    BY <1>1, <2>1 DEF FillsDemand
<1>2. CASE \E k \in 0 .. Len(Baseline) : FillsBaseline(k)
  <2>1. PICK k \in 0 .. Len(Baseline) : FillsBaseline(k)
    BY <1>2
  <2>2. Len(Baseline) \in Nat
    BY BaselineShape
  <2>3. 0 = Len(Baseline) - k
    BY <2>1 DEF FillsBaseline
  <2>4. k = Len(Baseline)
    BY <2>1, <2>2, <2>3
  <2>5. BaselineFilled
    BY <2>1, <2>4 DEF FillsBaseline, BaselineFilled
  <2>6. hot \subseteq demanded
    BY <2>1 DEF FillsBaseline
  <2>. QED
    BY <2>5, <2>6 DEF DemandsMet
<1>. QED
  BY <1>1, <1>2

\* The fallback of a demand is a task of its own.
LEMMA FallbackIsTask ==
    ASSUME NEW x \in Fallbacks
    PROVE  x \in Seq(Tasks)
<1>1. CASE x = <<>>
  BY <1>1
<1>2. CASE \E d \in DemandRegions : x = FallsBack(d)
  <2>1. PICK d \in DemandRegions : x = FallsBack(d)
    BY <1>2
  <2>2. Continent(d[2]) \in Scopes /\ <<>> \in Fallbacks
    BY Zenon DEF Scopes, Fallbacks
  <2>3. [scope |-> Continent(d[2]), target |-> 1, otherwise |-> <<>>] \in Tasks
    BY <2>2 DEF Tasks
  <2>. HIDE DEF Tasks
  <2>. QED
    BY <2>1, <2>3 DEF FallsBack
<1>. QED
  BY <1>1, <1>2 DEF Fallbacks

\* A plan starts with the baseline.
LEMMA PlacementStarts ==
    ASSUME PlacementInit
    PROVE  PlacementInv
<1>1. policy \in Policies /\ selected = <<>> /\ todo = Baseline /\ round = 1
  BY DEF PlacementInit
<1>2. policy.cap \in Nat
  BY <1>1, PlacementAssumption
<1>3. storable \subseteq Nodes /\ replicas \subseteq Nodes /\ hot \subseteq DemandRegions /\ hot \subseteq demanded
  BY Zenon DEF PlacementInit
<1>4. selected \in Seq(Nodes) /\ Len(selected) = 0
  BY <1>1
<1>5. Cardinality(Placed) \in Nat
  BY <1>3, <1>4, PlacedAreNodes
<1>6. todo \in Seq(Tasks)
  BY <1>1, BaselineShape
<1>7. PlacementTypes
  BY <1>1, <1>2, <1>3, <1>4, <1>5, <1>6 DEF PlacementTypes
<1>8. FillsBaseline(0)
  <2>1. Len(Baseline) \in Nat
    BY <1>1, BaselineShape
  <2>2. \A i \in 1 .. Len(todo) : /\ todo[i].scope = Baseline[0 + i].scope
                                  /\ todo[i].target = Baseline[0 + i].target
                                  /\ todo[i].otherwise = <<>>
    BY <1>1, BaselineShape
  <2>3. Len(todo) = Len(Baseline) - 0
    BY <1>1, <2>1
  <2>. QED
    BY <1>3, <2>2, <2>3 DEF FillsBaseline
<1>9. 0 \in 0 .. Len(Baseline)
  BY <1>1, BaselineShape
<1>10. NothingLeft
  BY <1>1 DEF NothingLeft
<1>. QED
  BY <1>7, <1>8, <1>9, <1>10 DEF PlacementInv

\* What a scope that is left says of it.
LEMMA ScopeLeft ==
    ASSUME PlacementTypes, LeaveScope
    PROVE  ~Full => Settled(todo[1].scope, todo[1].target)
<1>1. todo \in Seq(Tasks) /\ todo # <<>>
  BY DEF LeaveScope, PlacementTypes
<1>2. Head(todo) = todo[1]
  BY <1>1
<1>. QED
  BY <1>2 DEF LeaveScope, Full, Settled

\* The first task of a plan, and what it leaves.
LEMMA FirstTask ==
    ASSUME PlacementTypes, todo # <<>>
    PROVE  /\ Head(todo) = todo[1] /\ todo[1] \in Tasks /\ Len(todo) \in Nat \ {0}
           /\ Tail(todo) \in Seq(Tasks) /\ Len(Tail(todo)) = Len(todo) - 1
           /\ \A i \in 1 .. Len(todo) - 1 : Tail(todo)[i] = todo[i + 1]
<1>1. todo \in Seq(Tasks)
  BY DEF PlacementTypes
<1>. QED
  BY <1>1

\* A scope is left for what its demand tries instead, or for the next one.
LEMMA LeavesScope ==
    ASSUME PlacementInv, LeaveScope
    PROVE  PlacementInv'
<1>1. PlacementTypes /\ todo # <<>>
  BY DEF PlacementInv, LeaveScope
<1>2. UNCHANGED <<policy, storable, replicas, hot, demanded, selected, round>>
  BY DEF LeaveScope
<1>3. todo' = todo[1].otherwise \o Tail(todo)
  BY <1>1, FirstTask DEF LeaveScope
<1>4. /\ Placed' = Placed /\ Baseline' = Baseline /\ Scopes' = Scopes /\ Tasks' = Tasks
      /\ Full' = Full /\ BaselineFilled' = BaselineFilled
  <2>1. Placed' = Placed
    BY <1>2 DEF Placed
  <2>2. Baseline' = Baseline
    BY <1>2 DEF Baseline
  <2>3. Scopes' = Scopes
    BY <2>2 DEF Scopes
  <2>4. Fallbacks' = Fallbacks
    BY DEF Fallbacks, FallsBack
  <2>5. Tasks' = Tasks
    BY <2>3, <2>4 DEF Tasks
  <2>6. Full' = Full
    BY <1>2 DEF Full
  <2>7. BaselineFilled' = BaselineFilled
    BY <1>2, <2>1, <2>2, <2>6 DEF BaselineFilled, Settled, CountReplicas, Candidates
  <2>. QED
    BY <2>1, <2>2, <2>3, <2>5, <2>6, <2>7
<1>5. /\ \A scope : CountReplicas(scope)' = CountReplicas(scope) /\ Candidates(scope)' = Candidates(scope)
      /\ \A scope, target : Settled(scope, target)' = Settled(scope, target)
      /\ \A d : DemandMet(d)' = DemandMet(d)
  <2>1. \A scope : CountReplicas(scope)' = CountReplicas(scope) /\ Candidates(scope)' = Candidates(scope)
    BY <1>2, <1>4 DEF CountReplicas, Candidates
  <2>2. \A scope, target : Settled(scope, target)' = Settled(scope, target)
    BY <2>1 DEF Settled
  <2>3. \A d : DemandMet(d)' = DemandMet(d)
    BY <2>1 DEF DemandMet
  <2>. QED
    BY <2>1, <2>2, <2>3
<1>6. todo[1] \in Tasks /\ todo[1].otherwise \in Fallbacks
  BY <1>1, FirstTask DEF Tasks
<1>7. PlacementTypes'
  <2>1. todo[1].otherwise \in Seq(Tasks) /\ Tail(todo) \in Seq(Tasks)
    BY <1>1, <1>6, FirstTask, FallbackIsTask
  <2>2. todo' \in Seq(Tasks)
    BY <1>3, <2>1
  <2>3. todo' \in Seq(Tasks')
    BY <1>4, <2>2
  <2>. QED
    BY <1>1, <1>2, <1>4, <2>3 DEF PlacementTypes
<1>8. NothingLeft'
  BY <1>2, <1>4, <1>5 DEF PlacementInv, NothingLeft
<1>9. ~Full => Settled(todo[1].scope, todo[1].target)
  BY <1>1, ScopeLeft
<1>11. CASE \E k \in 0 .. Len(Baseline) : FillsBaseline(k)
  <2>1. PICK k \in 0 .. Len(Baseline) : FillsBaseline(k)
    BY <1>11
  <2>2. Len(Baseline) \in Nat /\ Len(todo) \in Nat \ {0} /\ Len(todo) = Len(Baseline) - k
    BY <1>1, <2>1, FirstTask, BaselineShape DEF PlacementTypes, FillsBaseline
  <2>3. k + 1 \in 0 .. Len(Baseline) /\ k \in Nat
    BY <2>1, <2>2
  <2>4. todo[1].otherwise = <<>>
    BY <2>1, <2>2 DEF FillsBaseline
  <2>5. todo' = Tail(todo)
    <3>1. PICK t : t = Tail(todo)
      OBVIOUS
    <3>2. t \in Seq(Tasks)
      BY <1>1, <3>1, FirstTask
    <3>. QED
      BY <1>3, <2>4, <3>1, <3>2
  <2>6. FillsBaseline(k + 1)'
    <3>1. Len(todo') = Len(Baseline) - (k + 1)
      BY <1>1, <2>2, <2>3, <2>5, FirstTask
    <3>2. ASSUME NEW i \in 1 .. Len(todo')
          PROVE  /\ todo'[i].scope = Baseline[(k + 1) + i].scope
                 /\ todo'[i].target = Baseline[(k + 1) + i].target
                 /\ todo'[i].otherwise = <<>>
      <4>1. i \in 1 .. Len(todo) - 1 /\ i + 1 \in 1 .. Len(todo) /\ k + (i + 1) = (k + 1) + i
        BY <2>2, <2>3, <3>1
      <4>2. todo'[i] = todo[i + 1]
        BY <1>1, <2>5, <4>1, FirstTask
      <4>3. /\ todo[i + 1].scope = Baseline[k + (i + 1)].scope
            /\ todo[i + 1].target = Baseline[k + (i + 1)].target
            /\ todo[i + 1].otherwise = <<>>
        BY <2>1, <4>1 DEF FillsBaseline
      <4>. QED
        BY <4>1, <4>2, <4>3
    <3>3. ASSUME ~Full, NEW i \in 1 .. k + 1
          PROVE  Settled(Baseline[i].scope, Baseline[i].target)
      <4>1. CASE i \in 1 .. k
        BY <2>1, <3>3, <4>1 DEF FillsBaseline
      <4>2. CASE i = k + 1
        <5>1. todo[1].scope = Baseline[k + 1].scope /\ todo[1].target = Baseline[k + 1].target
          BY <2>1, <2>2 DEF FillsBaseline
        <5>. QED
          BY <1>9, <3>3, <4>2, <5>1
      <4>. QED
        BY <2>3, <3>3, <4>1, <4>2
    <3>. QED
      BY <1>2, <1>4, <1>5, <2>1, <3>1, <3>2, <3>3 DEF FillsBaseline
  <2>7. \E j \in 0 .. Len(Baseline') : FillsBaseline(j)'
    BY <1>4, <2>3, <2>6
  <2>. QED
    BY <1>7, <1>8, <2>7 DEF PlacementInv
<1>12. CASE FillsDemand
  <2>1. PICK d \in hot \ demanded : /\ FillsRegion(d) \/ FillsContinent(d)
                                    /\ DemandsMet(demanded \cup {d})
    BY <1>1, <1>12 DEF FillsDemand
  <2>2. Len(todo) = 1
    BY <2>1 DEF FillsRegion, FillsContinent
  <2>3. Tail(todo) = <<>>
    <3>1. Tail(todo) \in Seq(Tasks) /\ Len(Tail(todo)) = 0
      BY <1>1, <2>2, FirstTask
    <3>. QED
      BY <3>1
  <2>4. BaselineFilled'
    BY <1>4, <1>12 DEF FillsDemand
  <2>5. CASE FillsRegion(d) /\ todo[1].otherwise = FallsBack(d)
    <3>1. todo' = FallsBack(d)
      <4>1. FallsBack(d) \in Seq(Tasks)
        BY <1>6, <2>5, FallbackIsTask
      <4>2. PICK t : t = FallsBack(d)
        OBVIOUS
      <4>3. t \in Seq(Tasks)
        BY <4>1, <4>2
      <4>4. t \o <<>> = t
        BY <4>3
      <4>5. todo' = t \o <<>>
        BY <1>3, <2>3, <2>5, <4>2
      <4>. QED
        BY <4>2, <4>4, <4>5
    <3>2. /\ Len(todo') = 1 /\ todo'[1].scope = Continent(d[2]) /\ todo'[1].target = 1
          /\ todo'[1].otherwise = <<>>
      BY <3>1 DEF FallsBack
    <3>3. ~Full => CountReplicas(Region(d[1])) > 0 \/ Candidates(Region(d[1])) = {}
      <4>1. ~Full => CountReplicas(Region(d[1])) >= 1 \/ Candidates(Region(d[1])) = {}
        BY <1>9, <2>5 DEF FillsRegion, Settled
      <4>2. CountReplicas(Region(d[1])) \in Nat
        BY <1>1, CountsGrow, PlacedAreNodes DEF CountReplicas, PlacementTypes
      <4>. QED
        BY <4>1, <4>2
    <3>4. FillsContinent(d)'
      BY <1>4, <1>5, <3>2, <3>3 DEF FillsContinent
    <3>5. DemandsMet(demanded \cup {d})'
      BY <1>2, <1>4, <1>5, <2>1 DEF DemandsMet
    <3>6. FillsDemand'
      BY <1>2, <2>1, <2>4, <3>4, <3>5 DEF FillsDemand
    <3>. QED
      BY <1>7, <1>8, <3>6 DEF PlacementInv
  <2>6. CASE ~(FillsRegion(d) /\ todo[1].otherwise = FallsBack(d))
    <3>1. todo[1].otherwise = <<>>
      BY <2>1, <2>6 DEF FillsRegion, FillsContinent
    <3>2. todo' = <<>>
      BY <1>3, <2>3, <3>1
    <3>3. ASSUME ~Full
          PROVE  DemandMet(d)
      <4>1. CASE FillsRegion(d)
        BY <2>6, <4>1 DEF FillsRegion, DemandMet
      <4>2. CASE FillsContinent(d)
        <5>1. CountReplicas(Region(d[1])) > 0 \/ Candidates(Region(d[1])) = {}
          BY <3>3, <4>2 DEF FillsContinent
        <5>2. CountReplicas(Continent(d[2])) >= 1 \/ Candidates(Continent(d[2])) = {}
          BY <1>9, <3>3, <4>2 DEF FillsContinent, Settled
        <5>3. CountReplicas(Continent(d[2])) \in Nat
          BY <1>1, CountsGrow, PlacedAreNodes DEF CountReplicas, PlacementTypes
        <5>4. CountReplicas(Continent(d[2])) > 0 \/ Candidates(Continent(d[2])) = {}
          BY <5>2, <5>3
        <5>. QED
          BY <5>1, <5>4 DEF DemandMet
      <4>. QED
        BY <2>1, <4>1, <4>2
    <3>4. DemandsMet(demanded)
      BY <2>1, <3>3 DEF DemandsMet
    <3>5. DemandsMet(demanded)'
      BY <1>2, <1>4, <1>5, <3>4 DEF DemandsMet
    <3>6. FillsDemand'
      BY <2>4, <3>2, <3>5 DEF FillsDemand
    <3>. QED
      BY <1>7, <1>8, <3>6 DEF PlacementInv
  <2>. QED
    BY <2>5, <2>6
<1>. QED
  BY <1>11, <1>12 DEF PlacementInv

\* The next demand is taken when nothing is left to do.
LEMMA TakesDemand ==
    ASSUME PlacementInv, NEW d \in DemandRegions, TakeDemand(d)
    PROVE  PlacementInv'
<1>1. PlacementTypes /\ todo = <<>> /\ d \in demanded /\ demanded' = demanded \ {d}
  BY DEF PlacementInv, TakeDemand
<1>2. UNCHANGED <<policy, storable, replicas, hot, selected, round>>
  BY DEF TakeDemand
<1>3. BaselineFilled /\ DemandsMet(demanded)
  BY <1>1, EmptyTodo DEF PlacementInv, PlacementTypes
<1>4. Placed' = Placed /\ Baseline' = Baseline /\ Tasks' = Tasks /\ Full' = Full
  <2>1. Placed' = Placed
    BY <1>2 DEF Placed
  <2>2. Baseline' = Baseline
    BY <1>2 DEF Baseline
  <2>3. Scopes' = Scopes
    BY <2>2 DEF Scopes
  <2>4. Fallbacks' = Fallbacks
    BY DEF Fallbacks, FallsBack
  <2>5. Tasks' = Tasks
    BY <2>3, <2>4 DEF Tasks
  <2>6. Full' = Full
    BY <1>2 DEF Full
  <2>. QED
    BY <2>1, <2>2, <2>5, <2>6
<1>5. /\ \A scope, target : Settled(scope, target)' = Settled(scope, target)
      /\ \A e : DemandMet(e)' = DemandMet(e)
  <2>1. \A scope : CountReplicas(scope)' = CountReplicas(scope) /\ Candidates(scope)' = Candidates(scope)
    BY <1>2, <1>4 DEF CountReplicas, Candidates
  <2>2. \A scope, target : Settled(scope, target)' = Settled(scope, target)
    BY <2>1 DEF Settled
  <2>3. \A e : DemandMet(e)' = DemandMet(e)
    BY <2>1 DEF DemandMet
  <2>. QED
    BY <2>2, <2>3
<1>6. BaselineFilled'
  BY <1>3, <1>4, <1>5 DEF BaselineFilled
<1>7. NothingLeft'
  BY <1>2, <1>4, <1>5 DEF PlacementInv, NothingLeft
<1>8. \A e \in hot \ demanded : ~Full' => DemandMet(e)'
  BY <1>3, <1>4, <1>5 DEF DemandsMet
<1>9. CASE d \in hot
  <2>1. PICK t : t = [scope |-> Region(d[1]), target |-> 1, otherwise |-> FallsBack(d)]
    OBVIOUS
  <2>2. todo' = <<t>>
    BY <1>9, <2>1 DEF TakeDemand
  <2>3. Region(d[1]) \in Scopes /\ FallsBack(d) \in Fallbacks
    BY Zenon DEF Scopes, Fallbacks
  <2>4. t \in Tasks
    BY <2>1, <2>3 DEF Tasks
  <2>5. todo' \in Seq(Tasks) /\ Len(todo') = 1 /\ todo'[1] = t
    BY <2>2, <2>4
  <2>6. PlacementTypes'
    BY <1>1, <1>2, <1>4, <2>5 DEF PlacementTypes
  <2>7. t.scope = Region(d[1]) /\ t.target = 1 /\ t.otherwise = FallsBack(d)
    BY <2>1
  <2>8. FillsRegion(d)'
    BY <2>5, <2>7 DEF FillsRegion, Region, FallsBack, Continent
  <2>9. DemandsMet(demanded \cup {d})'
    <3>1. hot' \ (demanded' \cup {d}) \subseteq hot \ demanded
      BY <1>1, <1>2
    <3>. QED
      BY <1>8, <3>1 DEF DemandsMet
  <2>10. d \in hot' \ demanded'
    BY <1>1, <1>2, <1>9
  <2>11. FillsDemand'
    BY <1>6, <2>8, <2>9, <2>10 DEF FillsDemand
  <2>. QED
    BY <1>7, <2>6, <2>11 DEF PlacementInv
<1>10. CASE d \notin hot
  <2>1. todo' = <<>>
    BY <1>10 DEF TakeDemand
  <2>2. PlacementTypes'
    BY <1>1, <1>2, <1>4, <2>1 DEF PlacementTypes
  <2>3. hot' \ demanded' \subseteq hot \ demanded
    BY <1>1, <1>2, <1>10
  <2>4. DemandsMet(demanded)'
    BY <1>8, <2>3 DEF DemandsMet
  <2>5. FillsDemand'
    BY <1>6, <2>1, <2>4 DEF FillsDemand
  <2>. QED
    BY <1>7, <2>2, <2>5 DEF PlacementInv
<1>. QED
  BY <1>9, <1>10

\* A plan that was not cut short leaves nothing to the next one.
LEMMA CarriesOut ==
    ASSUME PlacementInv, CarryOut
    PROVE  PlacementInv'
<1>1. PlacementTypes /\ todo = <<>> /\ demanded = {}
  BY DEF PlacementInv, CarryOut, PlanDone
<1>2. /\ UNCHANGED <<policy, storable, hot>> /\ replicas' = Placed /\ selected' = <<>>
      /\ todo' = Baseline /\ demanded' = hot /\ round' = 2
  BY DEF CarryOut
<1>3. BaselineFilled /\ DemandsMet(demanded)
  BY <1>1, EmptyTodo DEF PlacementInv, PlacementTypes
<1>4. Placed \subseteq Nodes /\ Cardinality(Placed) \in Nat
  BY <1>1, PlacedAreNodes DEF PlacementTypes
<1>5. Placed' = Placed
  <2>1. Range(selected') = {}
    BY <1>2 DEF Range
  <2>. QED
    BY <1>2, <2>1 DEF Placed
<1>6. Baseline' = Baseline /\ Tasks' = Tasks
  <2>2. Baseline' = Baseline
    BY <1>2 DEF Baseline
  <2>3. Scopes' = Scopes
    BY <2>2 DEF Scopes
  <2>4. Fallbacks' = Fallbacks
    BY DEF Fallbacks, FallsBack
  <2>. QED
    BY <2>2, <2>3, <2>4 DEF Tasks
<1>7. /\ \A scope, target : Settled(scope, target)' = Settled(scope, target)
      /\ \A e : DemandMet(e)' = DemandMet(e)
  <2>1. \A scope : CountReplicas(scope)' = CountReplicas(scope) /\ Candidates(scope)' = Candidates(scope)
    BY <1>2, <1>5 DEF CountReplicas, Candidates
  <2>2. \A scope, target : Settled(scope, target)' = Settled(scope, target)
    BY <2>1 DEF Settled
  <2>3. \A e : DemandMet(e)' = DemandMet(e)
    BY <2>1 DEF DemandMet
  <2>. QED
    BY <2>2, <2>3
<1>8. policy \in Policies /\ policy.cap \in Nat
  BY <1>1, PlacementAssumption DEF PlacementTypes
<1>9. Baseline \in Seq(Tasks) /\ Len(Baseline) \in Nat
  BY <1>8, BaselineShape
<1>10. PlacementTypes'
  <2>1. selected' \in Seq(Nodes) /\ Len(selected') = 0
    BY <1>2
  <2>. QED
    BY <1>1, <1>2, <1>4, <1>5, <1>6, <1>8, <1>9, <2>1 DEF PlacementTypes
<1>11. FillsBaseline(0)'
  <2>1. \A i \in 1 .. Len(todo') : /\ todo'[i].scope = Baseline'[0 + i].scope
                                   /\ todo'[i].target = Baseline'[0 + i].target
                                   /\ todo'[i].otherwise = <<>>
    BY <1>2, <1>6, <1>8, <1>9, BaselineShape
  <2>2. Len(todo') = Len(Baseline') - 0
    BY <1>2, <1>6, <1>9
  <2>. QED
    BY <1>2, <2>1, <2>2 DEF FillsBaseline
<1>12. 0 \in 0 .. Len(Baseline')
  BY <1>6, <1>9
<1>13. NothingLeft'
  <2>1. SUFFICES ASSUME Cardinality(replicas') < policy'.cap
                 PROVE  /\ \A i \in 1 .. Len(Baseline') : Settled(Baseline[i].scope, Baseline[i].target)'
                        /\ \A e \in hot' : DemandMet(e)'
    BY <1>2 DEF NothingLeft
  <2>2. ~Full
    <3>1. Len(selected) <= Cardinality(Placed) /\ Cardinality(Placed) < policy.cap /\ Len(selected) \in Nat
      BY <1>1, <1>2, <2>1 DEF PlacementTypes
    <3>. QED
      BY <1>4, <1>8, <3>1 DEF Full
  <2>3. \A i \in 1 .. Len(Baseline) : Settled(Baseline[i].scope, Baseline[i].target)
    BY <1>3, <2>2 DEF BaselineFilled
  <2>4. \A e \in hot : DemandMet(e)
    BY <1>1, <1>3, <2>2 DEF DemandsMet
  <2>. QED
    BY <1>2, <1>6, <1>7, <2>3, <2>4
<1>. QED
  BY <1>10, <1>11, <1>12, <1>13 DEF PlacementInv

\* The second plan of nodes that stay the same places nothing.
LEMMA NothingToPlace ==
    ASSUME PlacementInv, PlaceReplica, round = 2, Cardinality(replicas) < policy.cap
    PROVE  FALSE
<1>1. PlacementTypes /\ todo # <<>>
  BY DEF PlacementInv, PlaceReplica
<1>2. Head(todo) = todo[1] /\ Len(todo) \in Nat \ {0}
  BY <1>1, FirstTask
<1>3. CountReplicas(todo[1].scope) < todo[1].target /\ Candidates(todo[1].scope) # {}
  BY <1>2 DEF PlaceReplica
<1>4. /\ \A i \in 1 .. Len(Baseline) : Settled(Baseline[i].scope, Baseline[i].target)
      /\ \A d \in hot : DemandMet(d)
  BY DEF PlacementInv, NothingLeft
<1>5. Placed \subseteq Nodes
  BY <1>1, PlacedAreNodes DEF PlacementTypes
<1>6. \A scope : CountReplicas(scope) \in Nat
  BY <1>5, CountsGrow DEF CountReplicas
<1>7. CASE \E k \in 0 .. Len(Baseline) : FillsBaseline(k)
  <2>1. PICK k \in 0 .. Len(Baseline) : FillsBaseline(k)
    BY <1>7
  <2>2. /\ Len(Baseline) \in Nat /\ Len(todo) = Len(Baseline) - k
        /\ \A i \in 1 .. Len(Baseline) : Baseline[i].target \in Nat
    BY <1>1, <2>1, BaselineShape DEF PlacementTypes, FillsBaseline
  <2>3. 1 \in 1 .. Len(todo) /\ k + 1 \in 1 .. Len(Baseline)
    BY <1>2, <2>1, <2>2
  <2>4. todo[1].scope = Baseline[k + 1].scope /\ todo[1].target = Baseline[k + 1].target
    BY <2>1, <2>3 DEF FillsBaseline
  <2>5. CountReplicas(todo[1].scope) >= todo[1].target \/ Candidates(todo[1].scope) = {}
    BY <1>4, <2>3, <2>4 DEF Settled
  <2>. QED
    BY <1>3, <1>6, <2>2, <2>3, <2>4, <2>5
<1>8. CASE FillsDemand
  <2>1. PICK d \in hot \ demanded : FillsRegion(d) \/ FillsContinent(d)
    BY <1>1, <1>8 DEF FillsDemand
  <2>2. DemandMet(d) /\ d \in DemandRegions
    BY <1>1, <1>4, <2>1 DEF PlacementTypes
  <2>3. CASE FillsRegion(d)
    <3>1. CountReplicas(Region(d[1])) < 1 /\ Candidates(Region(d[1])) # {}
      BY <1>3, <2>3 DEF FillsRegion
    <3>2. CountReplicas(Region(d[1])) > 0
      BY <2>2, <3>1 DEF DemandMet
    <3>. QED
      BY <1>6, <3>1, <3>2
  <2>4. CASE FillsContinent(d)
    <3>1. CountReplicas(Continent(d[2])) < 1 /\ Candidates(Continent(d[2])) # {}
      BY <1>3, <2>4 DEF FillsContinent
    <3>2. CountReplicas(Region(d[1])) > 0 \/ CountReplicas(Continent(d[2])) > 0
      BY <2>2, <3>1 DEF DemandMet
    <3>3. ASSUME CountReplicas(Region(d[1])) > 0
          PROVE  CountReplicas(Continent(d[2])) > 0
      <4>1. PICK n \in Placed : Matches(n, Region(d[1]))
        BY <1>5, <3>3, ReplicaCounted DEF CountReplicas
      <4>2. MeshNodes[n].region = d[1]
        BY <4>1 DEF Matches, Region
      <4>3. MeshNodes[n].continent = d[2]
        BY <1>5, <2>2, <4>1, <4>2, PlacementAssumption DEF Nodes
      <4>4. Matches(n, Continent(d[2]))
        BY <4>3 DEF Matches, Continent
      <4>. QED
        BY <1>5, <4>1, <4>4, CountPositive DEF CountReplicas
    <3>. QED
      BY <1>6, <3>1, <3>2, <3>3
  <2>. QED
    BY <2>1, <2>3, <2>4
<1>. QED
  BY <1>7, <1>8 DEF PlacementInv

\* A replica is placed in the scope that is being filled.
LEMMA PlacesReplica ==
    ASSUME PlacementInv, PlaceReplica
    PROVE  PlacementInv'
<1>1. PlacementTypes /\ todo # <<>>
  BY DEF PlacementInv, PlaceReplica
<1>2. Head(todo) = todo[1] /\ todo[1] \in Tasks /\ Len(todo) \in Nat \ {0} /\ todo \in Seq(Tasks)
  BY <1>1, FirstTask DEF PlacementTypes
<1>3. UNCHANGED <<policy, storable, replicas, hot, demanded, round>>
  BY DEF PlaceReplica
<1>4. PICK c : c = Chosen(todo[1].scope)
  OBVIOUS
<1>5. selected' = Append(selected, c) /\ Candidates(todo[1].scope) # {} /\ Len(selected) < policy.cap
  BY <1>2, <1>4 DEF PlaceReplica
<1>6. Placed \subseteq Nodes /\ IsFiniteSet(Placed) /\ Cardinality(Placed) \in Nat
  BY <1>1, PlacedAreNodes DEF PlacementTypes
<1>7. c \in Candidates(todo[1].scope)
  BY <1>4, <1>5, <1>6, ChosenIsCandidate
<1>8. c \in Nodes /\ c \notin Placed /\ Matches(c, todo[1].scope)
  BY <1>7 DEF Candidates
<1>9. policy \in Policies /\ policy.cap \in Nat /\ selected \in Seq(Nodes) /\ Len(selected) \in Nat
  BY <1>1, PlacementAssumption DEF PlacementTypes
<1>10. selected' \in Seq(Nodes) /\ Len(selected') = Len(selected) + 1
  BY <1>5, <1>8, <1>9
<1>11. Placed' = Placed \cup {c}
  <2>1. Range(selected') = Range(selected) \cup {c}
    <3>1. DOMAIN selected = 1 .. Len(selected) /\ DOMAIN selected' = 1 .. Len(selected) + 1
      BY <1>9, <1>10
    <3>2. \A i \in 1 .. Len(selected) : selected'[i] = selected[i]
      BY <1>5, <1>9
    <3>3. selected'[Len(selected) + 1] = c
      BY <1>5, <1>9
    <3>4. \A i \in 1 .. Len(selected) + 1 : i \in 1 .. Len(selected) \/ i = Len(selected) + 1
      BY <1>9
    <3>5. 1 .. Len(selected) \subseteq 1 .. Len(selected) + 1 /\ Len(selected) + 1 \in 1 .. Len(selected) + 1
      BY <1>9
    <3>. QED
      BY <3>1, <3>2, <3>3, <3>4, <3>5 DEF Range
  <2>. QED
    BY <1>3, <2>1 DEF Placed
<1>12. Cardinality(Placed') = Cardinality(Placed) + 1
  BY <1>6, <1>8, <1>11, FS_AddElement
<1>13. /\ \A scope : /\ CountReplicas(scope) \in Nat /\ CountReplicas(scope)' \in Nat
                     /\ CountReplicas(scope) <= CountReplicas(scope)'
       /\ \A scope : Candidates(scope)' \subseteq Candidates(scope)
  <2>1. Placed \subseteq Placed' /\ Placed' \subseteq Nodes
    BY <1>6, <1>8, <1>11
  <2>. QED
    BY <1>3, <2>1, MoreReplicas
<1>14. /\ \A scope : \A target \in Nat : Settled(scope, target) => Settled(scope, target)'
       /\ \A scope : CountReplicas(scope) > 0 => CountReplicas(scope)' > 0
       /\ \A scope : Candidates(scope) = {} => Candidates(scope)' = {}
       /\ \A d : DemandMet(d) => DemandMet(d)'
  BY <1>13, StaysSettled
<1>15. Baseline' = Baseline /\ Tasks' = Tasks
  <2>2. Baseline' = Baseline
    BY <1>3 DEF Baseline
  <2>3. Scopes' = Scopes
    BY <2>2 DEF Scopes
  <2>4. Fallbacks' = Fallbacks
    BY DEF Fallbacks, FallsBack
  <2>. QED
    BY <2>2, <2>3, <2>4 DEF Tasks
<1>16. ~Full' => ~Full
  BY <1>3, <1>9, <1>10 DEF Full
<1>17. /\ todo' \in Seq(Tasks) /\ Len(todo') = Len(todo)
       /\ todo'[1].scope = todo[1].scope /\ todo'[1].target = todo[1].target
       /\ todo'[1].otherwise = <<>>
       /\ \A i \in 1 .. Len(todo) : i # 1 => todo'[i] = todo[i]
  <2>1. PICK t : t = [todo[1] EXCEPT !.otherwise = <<>>]
    OBVIOUS
  <2>2. <<>> \in Fallbacks
    BY DEF Fallbacks
  <2>3. t \in Tasks /\ t.scope = todo[1].scope /\ t.target = todo[1].target /\ t.otherwise = <<>>
    BY <1>2, <2>1, <2>2 DEF Tasks
  <2>4. todo' = [todo EXCEPT ![1] = t]
    BY <2>1 DEF PlaceReplica
  <2>5. 1 \in 1 .. Len(todo)
    BY <1>2
  <2>6. /\ todo' \in Seq(Tasks) /\ Len(todo') = Len(todo) /\ todo'[1] = t
        /\ \A i \in 1 .. Len(todo) : i # 1 => todo'[i] = todo[i]
    BY <1>2, <2>3, <2>4, <2>5, OneReplaced
  <2>. QED
    BY <2>3, <2>6
<1>18. PlacementTypes'
  <2>1. Len(selected') <= policy'.cap
    BY <1>3, <1>5, <1>9, <1>10
  <2>2. Len(selected') <= Cardinality(Placed')
    BY <1>1, <1>6, <1>9, <1>10, <1>12 DEF PlacementTypes
  <2>. QED
    BY <1>1, <1>3, <1>10, <1>15, <1>17, <2>1, <2>2 DEF PlacementTypes
<1>19. NothingLeft'
  BY <1>3, NothingToPlace DEF NothingLeft
<1>20. CASE \E k \in 0 .. Len(Baseline) : FillsBaseline(k)
  <2>1. PICK k \in 0 .. Len(Baseline) : FillsBaseline(k)
    BY <1>20
  <2>2. Len(Baseline) \in Nat /\ \A i \in 1 .. Len(Baseline) : Baseline[i].target \in Nat
    BY <1>9, BaselineShape
  <2>3. Len(todo') = Len(Baseline) - k /\ hot' \subseteq demanded'
    BY <1>3, <1>17, <2>1 DEF FillsBaseline
  <2>4. ASSUME NEW i \in 1 .. Len(todo')
        PROVE  /\ todo'[i].scope = Baseline[k + i].scope
               /\ todo'[i].target = Baseline[k + i].target
               /\ todo'[i].otherwise = <<>>
    <3>1. /\ todo[i].scope = Baseline[k + i].scope
          /\ todo[i].target = Baseline[k + i].target
          /\ todo[i].otherwise = <<>>
      BY <1>17, <2>1, <2>4 DEF FillsBaseline
    <3>. QED
      BY <1>17, <2>4, <3>1
  <2>5. ASSUME ~Full', NEW i \in 1 .. k
        PROVE  Settled(Baseline[i].scope, Baseline[i].target)'
    <3>1. Settled(Baseline[i].scope, Baseline[i].target) /\ Baseline[i].target \in Nat
      BY <1>16, <2>1, <2>2, <2>5 DEF FillsBaseline
    <3>. QED
      BY <1>14, <1>15, <3>1
  <2>6. FillsBaseline(k)'
    BY <1>15, <2>3, <2>4, <2>5 DEF FillsBaseline
  <2>7. \E j \in 0 .. Len(Baseline') : FillsBaseline(j)'
    BY <1>15, <2>1, <2>6
  <2>. QED
    BY <1>18, <1>19, <2>7 DEF PlacementInv
<1>21. CASE FillsDemand
  <2>1. PICK d \in hot \ demanded : /\ FillsRegion(d) \/ FillsContinent(d)
                                    /\ DemandsMet(demanded \cup {d})
    BY <1>1, <1>21 DEF FillsDemand
  <2>2. DemandsMet(demanded \cup {d})'
    BY <1>3, <1>14, <1>16, <2>1 DEF DemandsMet
  <2>3. BaselineFilled'
    <3>1. \A i \in 1 .. Len(Baseline) : Baseline[i].target \in Nat
      BY <1>9, BaselineShape
    <3>2. ASSUME ~Full', NEW i \in 1 .. Len(Baseline)
          PROVE  Settled(Baseline[i].scope, Baseline[i].target)'
      <4>1. Settled(Baseline[i].scope, Baseline[i].target)
        BY <1>16, <1>21, <3>2 DEF FillsDemand, BaselineFilled
      <4>. QED
        BY <1>14, <1>15, <3>1, <4>1
    <3>. QED
      BY <1>15, <3>2 DEF BaselineFilled
  <2>4. CASE FillsRegion(d)
    <3>1. Matches(c, Region(d[1])) /\ c \in Placed' /\ Placed' \subseteq Nodes
      BY <1>6, <1>8, <1>11, <2>4 DEF FillsRegion
    <3>2. CountReplicas(Region(d[1]))' > 0
      BY <3>1, CountPositive DEF CountReplicas
    <3>3. FillsRegion(d)'
      BY <1>17, <2>4, <3>2 DEF FillsRegion
    <3>. QED
      BY <1>3, <1>18, <1>19, <2>1, <2>2, <2>3, <3>3 DEF PlacementInv, FillsDemand
  <2>5. CASE FillsContinent(d)
    <3>1. FillsContinent(d)'
      BY <1>14, <1>16, <1>17, <2>5 DEF FillsContinent
    <3>. QED
      BY <1>3, <1>18, <1>19, <2>1, <2>2, <2>3, <3>1 DEF PlacementInv, FillsDemand
  <2>. QED
    BY <2>1, <2>4, <2>5
<1>. QED
  BY <1>20, <1>21 DEF PlacementInv

\* A step that changes nothing.
LEMMA PlacementStutters ==
    ASSUME PlacementInv, UNCHANGED placementVars
    PROVE  PlacementInv'
<1>1. UNCHANGED <<policy, storable, replicas, hot, todo, demanded, selected, round>>
  BY DEF placementVars
<1>2. Placed' = Placed /\ Baseline' = Baseline
  BY <1>1 DEF Placed, Baseline
<1>3. Tasks' = Tasks /\ Full' = Full
  BY <1>1, <1>2 DEF Tasks, Scopes, Fallbacks, FallsBack, Full
<1>4. /\ \A scope : CountReplicas(scope)' = CountReplicas(scope) /\ Candidates(scope)' = Candidates(scope)
      /\ \A scope, target : Settled(scope, target)' = Settled(scope, target)
      /\ \A d : DemandMet(d)' = DemandMet(d)
  <2>1. \A scope : CountReplicas(scope)' = CountReplicas(scope) /\ Candidates(scope)' = Candidates(scope)
    BY <1>1, <1>2 DEF CountReplicas, Candidates
  <2>2. \A scope, target : Settled(scope, target)' = Settled(scope, target)
    BY <2>1 DEF Settled
  <2>3. \A d : DemandMet(d)' = DemandMet(d)
    BY <2>1 DEF DemandMet
  <2>. QED
    BY <2>1, <2>2, <2>3
<1>5. PlacementTypes' /\ NothingLeft'
  BY <1>1, <1>2, <1>3, <1>4 DEF PlacementInv, PlacementTypes, NothingLeft
<1>6. \A k : FillsBaseline(k) => FillsBaseline(k)'
  BY <1>1, <1>2, <1>3, <1>4 DEF FillsBaseline
<1>7. FillsDemand => FillsDemand'
  <2>1. BaselineFilled => BaselineFilled'
    BY <1>1, <1>2, <1>3, <1>4 DEF BaselineFilled
  <2>2. \A d : (FillsRegion(d) => FillsRegion(d)') /\ (FillsContinent(d) => FillsContinent(d)')
    BY <1>1, <1>3, <1>4 DEF FillsRegion, FillsContinent, FallsBack
  <2>3. DemandsMet(demanded) => DemandsMet(demanded)'
    BY <1>1, <1>3, <1>4 DEF DemandsMet
  <2>4. \A d : DemandsMet(demanded \cup {d}) => DemandsMet(demanded \cup {d})'
    BY <1>1, <1>3, <1>4 DEF DemandsMet
  <2>. QED
    BY <1>1, <2>1, <2>2, <2>3, <2>4 DEF FillsDemand
<1>. QED
  BY <1>2, <1>5, <1>6, <1>7 DEF PlacementInv

\* The planner fills the baseline scope by scope and then one demand after the
\* other, and unless its cap stops it leaves each scope only when it is filled
\* or has no node to offer (plan_replicas and fill_scope, replication.rs:102-240).
THEOREM PlacementInvariant == PlacementSpec => []PlacementInv
<1>1. PlacementInit => PlacementInv
  BY PlacementStarts
<1>2. PlacementInv /\ [PlacementNext]_placementVars => PlacementInv'
  BY PlacesReplica, LeavesScope, TakesDemand, CarriesOut, PlacementStutters DEF PlacementNext
<1>. QED
  BY <1>1, <1>2, PTL DEF PlacementSpec

\* What the invariant says of a finished plan.
LEMMA PlanIsSound ==
    ASSUME PlacementInv
    PROVE  PlacementSound
<1>1. PlacementTypes
  BY DEF PlacementInv
<1>2. PlacementTypeOK
  BY <1>1 DEF PlacementTypes, PlacementTypeOK
<1>3. PlanSettles
  BY DEF PlacementInv, NothingLeft, PlanSettles
<1>4. PlanCoversDemand
  <2>1. SUFFICES ASSUME PlanDone, Len(selected) < policy.cap
                 PROVE  /\ \A i \in DOMAIN Baseline :
                              \/ CountReplicas(Baseline[i].scope) >= Baseline[i].target
                              \/ Candidates(Baseline[i].scope) = {}
                        /\ \A d \in hot : DemandMet(d)
    BY DEF PlanCoversDemand, DemandMet
  <2>2. policy \in Policies /\ policy.cap \in Nat /\ Len(selected) \in Nat
    BY <1>1, PlacementAssumption DEF PlacementTypes
  <2>3. todo = <<>> /\ demanded = {} /\ ~Full
    BY <2>1, <2>2 DEF PlanDone, Full
  <2>4. BaselineFilled /\ DemandsMet(demanded)
    BY <2>2, <2>3, EmptyTodo DEF PlacementInv
  <2>5. DOMAIN Baseline = 1 .. Len(Baseline)
    BY <2>2, BaselineShape
  <2>. QED
    BY <2>3, <2>4, <2>5 DEF BaselineFilled, DemandsMet, Settled
<1>. QED
  BY <1>2, <1>3, <1>4 DEF PlacementSound

\* A finished plan that did not hit its cap has done what could be done, and a
\* plan that was carried out is not extended by the next one, for any nodes,
\* demands and policies and whatever order the hash map gives the demands
\* (replication.rs:113-240).
THEOREM PlansSettle == PlacementSpec => []PlacementSound
<1>1. PlacementInv => PlacementSound
  BY PlanIsSound
<1>. QED
  BY <1>1, PlacementInvariant, PTL

(***************************************************************************)
(* The status of the mesh.                                                 *)
(***************************************************************************)
\* A node remembered as stale.
StaleEntries == [node : StatusNodes, updated : Nat, age : Int]

StatusTypes ==
    /\ DOMAIN latest \subseteq StatusNodes /\ IsFiniteSet(DOMAIN latest)
    /\ \A n \in DOMAIN latest : latest[n].updated \in Nat /\ latest[n].view \in StatusViews
    /\ stale_nodes \subseteq StaleEntries /\ IsFiniteSet(stale_nodes)
    /\ ingesting \in [Feeds -> StatusNodes \cup {None}]
    /\ status_now \in Nat
    /\ known \subseteq StatusNodes

\* One entry for a node.
OnePerNode(S) == \A s, t \in S : s.node = t.node => s = t

\* A node whose ingest is under way is fresh, or a query has aged it out since.
IngestsAccounted == \A n \in StatusNodes : Busy(n) => n \in DOMAIN latest \/ n \in excused

StatusInv ==
    /\ StatusTypes
    /\ OnePerNode(stale_nodes)
    /\ IngestsAccounted
    /\ NodesAccounted
    /\ ReportIsConsistent


\* What a function says of finitely many is finitely many things.
LEMMA ImageIsFinite ==
    ASSUME NEW S, IsFiniteSet(S), NEW p
    PROVE  IsFiniteSet(Image(p, S))
<1>. DEFINE f == [x \in S |-> p[x]]
<1>1. f \in Surjection(S, Image(p, S))
  BY DEF Surjection, Image
<1>. QED
  BY <1>1, FS_Surjection

\* The greatest of zero and finitely many numbers.
LEMMA GreatestWithZero ==
    ASSUME NEW S, IsFiniteSet(S), NEW p, \A x \in S : p[x] \in Nat
    PROVE  Max({0} \cup {p[x] : x \in S}) \in Nat
<1>. DEFINE T == {0} \cup Image(p, S)
<1>1. IsFiniteSet({0}) /\ IsFiniteSet(Image(p, S))
  BY FS_Singleton, ImageIsFinite
<1>2. IsFiniteSet(T)
  BY <1>1, FS_Union
<1>3. T \in SUBSET Nat /\ T # {}
  BY DEF Image
<1>4. Max(T) \in T
  BY <1>2, <1>3, MaxOfFinite
<1>5. T = {0} \cup {p[x] : x \in S}
  BY DEF Image
<1>. QED
  BY <1>3, <1>4, <1>5

-----------------------------------------------------------------------------
\* Alerts that may be listed with others: finitely many, at times that can be
\* compared, and none of them about stale snapshots.
Listable(S) ==
    /\ IsFiniteSet(S)
    /\ \A a \in S : a.seen \in Int /\ a.code # "telemetry_snapshot_stale"

LEMMA OneAlert ==
    ASSUME NEW condition, NEW level, NEW code, NEW count, NEW seen,
           condition => seen \in Int, code # "telemetry_snapshot_stale"
    PROVE  Listable(AlertIf(condition, level, code, count, seen))
<1>1. IsFiniteSet({})
  BY FS_EmptySet
<1>2. CASE condition
  <2>1. PICK r : r = [level |-> level, code |-> code, count |-> count, seen |-> seen]
    OBVIOUS
  <2>2. r.seen \in Int /\ r.code # "telemetry_snapshot_stale"
    BY <1>2, <2>1
  <2>3. AlertIf(condition, level, code, count, seen) = {r}
    BY <1>2, <2>1, Zenon DEF AlertIf
  <2>4. IsFiniteSet({r})
    BY FS_Singleton
  <2>. QED
    BY <2>2, <2>3, <2>4, Zenon DEF Listable
<1>3. CASE ~condition
  BY <1>1, <1>3, Zenon DEF AlertIf, Listable
<1>. QED
  BY <1>2, <1>3

LEMMA NoAlert == Listable({})
BY FS_EmptySet, Zenon DEF Listable

LEMMA BothAlerts ==
    ASSUME NEW S, NEW T, Listable(S), Listable(T)
    PROVE  Listable(S \cup T)
<1>1. IsFiniteSet(S \cup T)
  BY FS_Union, Zenon DEF Listable
<1>. QED
  BY <1>1, Zenon DEF Listable

LEMMA CountedAlert ==
    ASSUME status_now \in Nat, NEW S, NEW level, NEW code, code # "telemetry_snapshot_stale"
    PROVE  Listable(CountAlert(S, level, code))
<1>1. status_now \in Int
  OBVIOUS
<1>. QED
  BY <1>1, OneAlert, Zenon DEF CountAlert

\* Nodes with their shown.
Viewing(shown) == IsFiniteSet(DOMAIN shown) /\ \A n \in DOMAIN shown : shown[n] \in StatusViews

LEMMA LinkAlertsListable ==
    ASSUME status_now \in Nat, NEW shown, NEW relayed
    PROVE  Listable(LinkAlerts(shown, relayed))
<1>. DEFINE links == Connections(shown)
            few   == Cardinality(DOMAIN shown) <= 1
            A     == AlertIf(few, "warn", "mesh_single_node", Cardinality(DOMAIN shown), status_now)
            B     == AlertIf(~few /\ links = {} /\ ~relayed, "error", "mesh_no_links",
                             Cardinality(DOMAIN shown), status_now)
            C     == CountAlert({l \in links : l.target \notin DOMAIN shown}, "warn", "mesh_unknown_peers")
<1>1. status_now \in Int
  OBVIOUS
<1>2. Listable(A)
  BY <1>1, OneAlert, Zenon
<1>3. Listable(B)
  BY <1>1, OneAlert, Zenon
<1>4. Listable(C)
  BY CountedAlert, Zenon
<1>5. Listable(A \cup B \cup C)
  <2>. HIDE DEF A, B, C
  <2>. QED
    BY <1>2, <1>3, <1>4, BothAlerts
<1>6. LinkAlerts(shown, relayed) = A \cup B \cup C
  BY Zenon DEF LinkAlerts
<1>. QED
  BY <1>5, <1>6, Zenon

LEMMA NodeAlertsListable ==
    ASSUME status_now \in Nat, NEW shown
    PROVE  Listable(NodeAlerts(shown))
<1>. DEFINE full  == {n \in DOMAIN shown : shown[n].storage >= StorageError}
            tight == {n \in DOMAIN shown : shown[n].storage >= StorageWarn}
            A == CountAlert({n \in DOMAIN shown : shown[n].draining}, "warn", "nodes_draining")
            B == CountAlert({n \in DOMAIN shown : ~shown[n].playback}, "warn", "edge_playback_missing")
            C == CountAlert(full, "error", "storage_exhausted")
            D == IF full = {} THEN CountAlert(tight, "warn", "storage_pressure") ELSE {}
<1>1. Listable(A)
  BY CountedAlert, Zenon
<1>2. Listable(B)
  BY CountedAlert, Zenon
<1>3. Listable(C)
  BY CountedAlert, Zenon
<1>4. Listable(D)
  <2>1. Listable(CountAlert(tight, "warn", "storage_pressure"))
    BY CountedAlert, Zenon
  <2>. QED
    BY <2>1, NoAlert, Zenon
<1>5. Listable(A \cup B \cup C \cup D)
  <2>. HIDE DEF A, B, C, D
  <2>. QED
    BY <1>1, <1>2, <1>3, <1>4, BothAlerts
<1>6. NodeAlerts(shown) = A \cup B \cup C \cup D
  BY Zenon DEF NodeAlerts
<1>. QED
  BY <1>5, <1>6, Zenon

\* Among the failed responses of finitely many nodes one was the last.
LEMMA LastResponse ==
    ASSUME NEW shown, Viewing(shown), NEW errors, NEW e0 \in errors,
           \A e : e \in errors <=> \E n \in DOMAIN shown : e \in shown[n].errors
    PROVE  (CHOOSE e \in errors : \A f \in errors : f.at <= e.at).at \in Nat
<1>. DEFINE times(n) == {e.at : e \in shown[n].errors}
            top == [n \in DOMAIN shown |-> Max({0} \cup times(n))]
<1>1. ASSUME NEW n \in DOMAIN shown
      PROVE  /\ IsFiniteSet(times(n)) /\ times(n) \in SUBSET Nat
             /\ \A e \in shown[n].errors : e.at \in Nat
  <2>1. IsFiniteSet(shown[n].errors) /\ \A e \in shown[n].errors : e.at \in Nat
    BY StatusAssumption DEF Viewing
  <2>2. PICK p : p = [e \in shown[n].errors |-> e.at]
    OBVIOUS
  <2>3. Image(p, shown[n].errors) = times(n)
    BY <2>2 DEF Image
  <2>. QED
    BY <2>1, <2>3, ImageIsFinite
<1>. DEFINE all == {e.at : e \in errors}
<1>2. \A n \in DOMAIN shown : top[n] \in Nat /\ \A e \in shown[n].errors : e.at <= top[n]
  <2>1. SUFFICES ASSUME NEW n \in DOMAIN shown
                 PROVE  top[n] \in Nat /\ \A e \in shown[n].errors : e.at <= top[n]
    OBVIOUS
  <2>2. PICK T : T = {0} \cup times(n)
    OBVIOUS
  <2>3. IsFiniteSet(times(n)) /\ times(n) \in SUBSET Nat
    BY <1>1
  <2>4. IsFiniteSet(T) /\ T \in SUBSET Nat /\ T # {}
    <3>1. IsFiniteSet({0})
      BY FS_Singleton
    <3>2. PICK U : U = times(n)
      OBVIOUS
    <3>3. IsFiniteSet({0} \cup U)
      BY <2>3, <3>1, <3>2, FS_Union
    <3>. QED
      BY <2>2, <2>3, <3>2, <3>3
  <2>5. Max(T) \in T /\ \A k \in T : k <= Max(T)
    BY <2>4, MaxOfFinite
  <2>6. top[n] = Max(T)
    BY <2>2
  <2>7. \A e \in shown[n].errors : e.at \in T
    BY <2>2
  <2>. HIDE DEF top
  <2>. QED
    BY <2>4, <2>5, <2>6, <2>7
<1>3. PICK m \in Nat : \A n \in DOMAIN shown : top[n] <= m
  <2>. HIDE DEF top
  <2>1. IsFiniteSet(Image(top, DOMAIN shown)) /\ IsFiniteSet({0})
    BY ImageIsFinite, FS_Singleton DEF Viewing
  <2>2. PICK T : T = {0} \cup Image(top, DOMAIN shown)
    OBVIOUS
  <2>3. IsFiniteSet(T) /\ T \in SUBSET Nat /\ T # {}
    <3>1. IsFiniteSet(T)
      BY <2>1, <2>2, FS_Union
    <3>. QED
      BY <1>2, <2>2, <3>1 DEF Image
  <2>4. Max(T) \in T /\ \A k \in T : k <= Max(T)
    BY <2>3, MaxOfFinite
  <2>. QED
    BY <2>2, <2>3, <2>4 DEF Image
<1>4. all \in SUBSET Nat /\ all # {} /\ \A k \in all : k <= m
  <2>. HIDE DEF top, times
  <2>1. ASSUME NEW e \in errors
        PROVE  e.at \in Nat /\ e.at <= m
    <3>1. PICK n \in DOMAIN shown : e \in shown[n].errors
      OBVIOUS
    <3>2. e.at \in Nat /\ e.at <= top[n] /\ top[n] \in Nat /\ top[n] <= m
      BY <1>1, <1>2, <1>3, <3>1
    <3>. QED
      BY <3>2
  <2>. QED
    BY <2>1
<1>5. IsFiniteSet(all)
  <2>. HIDE DEF all
  <2>. QED
    BY <1>4, FS_BoundedSetOfNaturals
<1>6. PICK k \in all : \A j \in all : j <= k
  <2>. HIDE DEF all
  <2>. QED
    BY <1>4, <1>5, GreatestElement
<1>7. PICK x \in errors : x.at = k
  BY <1>6
<1>8. \A f \in errors : f.at <= x.at
  BY <1>6, <1>7
<1>9. PICK c : c = CHOOSE e \in errors : \A f \in errors : f.at <= e.at
  OBVIOUS
<1>10. c \in errors
  BY <1>8, <1>9
<1>. QED
  BY <1>4, <1>9, <1>10

LEMMA ResponseAlertListable ==
    ASSUME NEW shown, Viewing(shown)
    PROVE  Listable(ResponseAlert(shown))
<1>. DEFINE errors == UNION {shown[n].errors : n \in DOMAIN shown}
            last   == CHOOSE e \in errors : \A f \in errors : f.at <= e.at
            count  == MapThenSumSet(LAMBDA n : shown[n].response_errors, DOMAIN shown)
            A      == AlertIf(TRUE, IF last.status >= 500 THEN "error" ELSE "warn",
                              "edge_response_errors", count, last.at)
<1>1. ASSUME errors # {}
      PROVE  last.at \in Int
  <2>1. PICK e0 : e0 \in errors
    BY <1>1
  <2>2. \A e : e \in errors <=> \E n \in DOMAIN shown : e \in shown[n].errors
    OBVIOUS
  <2>3. PICK E : E = errors
    OBVIOUS
  <2>4. (CHOOSE e \in E : \A f \in E : f.at <= e.at).at \in Nat
    <3>. HIDE DEF errors
    <3>. QED
      BY <2>1, <2>2, <2>3, LastResponse
  <2>. QED
    BY <2>3, <2>4
<1>2. CASE errors = {}
  <2>1. ResponseAlert(shown) = {}
    BY <1>2, Zenon DEF ResponseAlert
  <2>. QED
    BY <2>1, NoAlert, Zenon
<1>3. CASE errors # {}
  <2>1. last.at \in Int
    BY <1>1, <1>3
  <2>2. Listable(A)
    <3>. HIDE DEF last, errors, count
    <3>. QED
      BY <2>1, OneAlert, Zenon
  <2>3. ResponseAlert(shown) = A
    BY <1>3, Zenon DEF ResponseAlert
  <2>. QED
    BY <2>2, <2>3, Zenon
<1>. QED
  BY <1>2, <1>3

LEMMA CommandAlertListable ==
    ASSUME NEW commands \in CommandLogs
    PROVE  Listable(CommandAlert(commands))
<1>. DEFINE of(status) == {i \in DOMAIN commands : commands[i].status = status}
            S     == of("failed") \cup of("skipped")
            issue == Max({0} \cup {commands[i].created : i \in S})
            A     == AlertIf(TRUE, "error", "control_failures", Cardinality(of("failed")), issue)
            B     == AlertIf(of("skipped") # {}, "warn", "control_skipped",
                             Cardinality(of("skipped")), issue)
<1>1. commands \in Seq([status : STRING, created : Nat])
  BY StatusAssumption
<1>2. DOMAIN commands = 1 .. Len(commands) /\ Len(commands) \in Nat
  BY <1>1
<1>3. S \in SUBSET (1 .. Len(commands))
  BY <1>2
<1>4. IsFiniteSet(S)
  <2>1. IsFiniteSet(1 .. Len(commands))
    BY <1>2, FS_Interval
  <2>. HIDE DEF S
  <2>. QED
    BY <1>3, <2>1, FS_Subset
<1>5. issue \in Int
  <2>1. PICK p : p = [i \in DOMAIN commands |-> commands[i].created]
    OBVIOUS
  <2>2. \A i \in S : p[i] = commands[i].created /\ p[i] \in Nat
    <3>0. PICK R : R = [status : STRING, created : Nat]
      OBVIOUS
    <3>1. \A i \in 1 .. Len(commands) : commands[i] \in R
      <4>. HIDE DEF of
      <4>1. commands \in Seq(R)
        BY <1>1, <3>0
      <4>. QED
        BY <4>1
    <3>2. \A r \in R : r.created \in Nat
      BY <3>0
    <3>. HIDE DEF S
    <3>. QED
      BY <1>2, <1>3, <2>1, <3>1, <3>2
  <2>3. Max({0} \cup {p[i] : i \in S}) \in Nat
    <3>. HIDE DEF S
    <3>. QED
      BY <1>4, <2>2, GreatestWithZero
  <2>4. {p[i] : i \in S} = {commands[i].created : i \in S}
    <3>. HIDE DEF S
    <3>. QED
      BY <2>2
  <2>5. issue = Max({0} \cup {p[i] : i \in S})
    BY <2>4, Zenon
  <2>. QED
    BY <2>3, <2>5
<1>6. Listable(A)
  <2>. HIDE DEF issue, of
  <2>. QED
    BY <1>5, OneAlert, Zenon
<1>7. Listable(B)
  <2>. HIDE DEF issue, of
  <2>. QED
    BY <1>5, OneAlert, Zenon
<1>8. CommandAlert(commands) = IF of("failed") # {} THEN A ELSE B
  BY Zenon DEF CommandAlert
<1>. QED
  BY <1>6, <1>7, <1>8, Zenon

LEMMA OrchestrationAlertsListable ==
    ASSUME status_now \in Nat, NEW o
    PROVE  Listable(OrchestrationAlerts(o))
<1>. DEFINE A == AlertIf(o.linode /\ ~o.discovery, "warn", "linode_private_discovery_inactive", 1,
                         status_now)
            B == CountAlert({c \in Collectors : peer_state[c] # "connected"}, "warn",
                            "telemetry_peer_unavailable")
            C == AlertIf(o.blocked > 0, "warn", "provision_backend_blocked", o.blocked, status_now)
<1>1. status_now \in Int
  OBVIOUS
<1>2. Listable(A)
  BY <1>1, OneAlert, Zenon
<1>3. Listable(B)
  BY CountedAlert, Zenon
<1>4. Listable(C)
  BY <1>1, OneAlert, Zenon
<1>5. Listable(A \cup B \cup C)
  <2>. HIDE DEF A, B, C
  <2>. QED
    BY <1>2, <1>3, <1>4, BothAlerts
<1>6. OrchestrationAlerts(o) = A \cup B \cup C
  BY Zenon DEF OrchestrationAlerts
<1>. QED
  BY <1>5, <1>6, Zenon

LEMMA StreamAlertsListable ==
    ASSUME status_now \in Nat, NEW shown, Viewing(shown), StatusLocal \in DOMAIN shown
    PROVE  Listable(StreamAlerts(shown))
<1>. DEFINE own      == StreamOf(shown, StatusLocal)
            quiet(n) == StreamOf(shown, n).active /\ StreamOf(shown, n).age > IngestStale
            others   == {n \in DOMAIN shown \ {StatusLocal} : quiet(n)}
            epochs(id) == {StreamOf(shown, n).epoch :
                              n \in {m \in DOMAIN shown : StreamOf(shown, m).id = id}} \ {None}
            split    == {id \in {StreamOf(shown, n).id : n \in DOMAIN shown} : Cardinality(epochs(id)) > 1}
            ages     == {StreamOf(shown, n).age : n \in others}
            seen     == IF others = {} THEN 0 ELSE status_now - Min(ages)
            A == AlertIf(own.local /\ own.age > IngestStale, "warn", "local_ingest_stale", 1,
                         status_now - own.age)
            B == AlertIf(others # {}, "warn", "mesh_stream_stale", Cardinality(others), seen)
            C == CountAlert({n \in DOMAIN shown : StreamOf(shown, n).gaps > 0}, "warn",
                            "canonical_publication_gap")
            D == CountAlert({n \in DOMAIN shown : StreamOf(shown, n).delay > ActivationWarn}, "warn",
                            "canonical_epoch_activation_slow")
            E == AlertIf(split # {}, "warn", "canonical_epoch_divergence",
                         IF split = {} THEN 0 ELSE Cardinality(epochs(CHOOSE id \in split : TRUE)),
                         status_now)
<1>1. \A n \in DOMAIN shown : StreamOf(shown, n).age \in Nat
  BY StatusAssumption DEF Viewing, StreamOf
<1>2. status_now \in Int /\ status_now - own.age \in Int
  BY <1>1
<1>3. seen \in Int
  <2>1. CASE others = {}
    BY <2>1
  <2>2. CASE others # {}
    <3>1. ages \in SUBSET Nat /\ ages # {}
      BY <1>1, <2>2
    <3>2. Min(ages) \in ages
      <4>. HIDE DEF ages
      <4>. QED
        BY <3>1, MinOfNat
    <3>3. Min(ages) \in Nat
      BY <3>1, <3>2, Zenon
    <3>4. seen = status_now - Min(ages)
      BY <2>2, Zenon
    <3>. HIDE DEF ages, seen
    <3>. QED
      BY <3>3, <3>4
  <2>. QED
    BY <2>1, <2>2
<1>4. Listable(A)
  <2>. HIDE DEF own
  <2>. QED
    BY <1>2, OneAlert, Zenon
<1>5. Listable(B)
  <2>. HIDE DEF seen, others
  <2>. QED
    BY <1>3, OneAlert, Zenon
<1>6. Listable(C)
  BY CountedAlert, Zenon
<1>7. Listable(D)
  BY CountedAlert, Zenon
<1>8. Listable(E)
  <2>. HIDE DEF split, epochs
  <2>. QED
    BY <1>2, OneAlert, Zenon
<1>9. Listable(A \cup B \cup C \cup D \cup E)
  <2>. HIDE DEF A, B, C, D, E
  <2>1. Listable(A \cup B \cup C)
    BY <1>4, <1>5, <1>6, BothAlerts
  <2>. QED
    BY <2>1, <1>7, <1>8, BothAlerts
<1>10. StreamAlerts(shown) = A \cup B \cup C \cup D \cup E
  BY Zenon DEF StreamAlerts
<1>. QED
  BY <1>9, <1>10, Zenon

\* The alert about stale snapshots is raised exactly when there are some.
LEMMA StaleAlertIff ==
    ASSUME NEW stale, stale \subseteq StaleEntries, IsFiniteSet(stale)
    PROVE  LET S == StaleAlert(stale)
           IN  /\ IsFiniteSet(S) /\ \A a \in S : a.seen \in Int
               /\ (\E a \in S : a.code = "telemetry_snapshot_stale") <=> stale # {}
<1>. DEFINE seen == Max({0} \cup {s.updated : s \in stale})
<1>1. seen \in Nat
  <2>1. PICK p : p = [s \in stale |-> s.updated]
    OBVIOUS
  <2>2. \A s \in stale : p[s] = s.updated /\ p[s] \in Nat
    BY <2>1 DEF StaleEntries
  <2>3. Max({0} \cup {p[s] : s \in stale}) \in Nat
    BY <2>2, GreatestWithZero
  <2>4. {p[s] : s \in stale} = {s.updated : s \in stale}
    BY <2>2
  <2>. QED
    BY <2>3, <2>4, Zenon
<1>2. CASE stale = {}
  <2>1. StaleAlert(stale) = {}
    BY <1>2, Zenon DEF StaleAlert, AlertIf
  <2>. QED
    BY <1>2, <2>1, FS_EmptySet, Zenon
<1>3. CASE stale # {}
  <2>1. PICK r : r = [level |-> "warn", code |-> "telemetry_snapshot_stale",
                      count |-> Cardinality(stale), seen |-> seen]
    OBVIOUS
  <2>2. StaleAlert(stale) = {r}
    BY <1>3, <2>1, Zenon DEF StaleAlert, AlertIf
  <2>3. r.code = "telemetry_snapshot_stale" /\ r.seen \in Int
    <3>. HIDE DEF seen
    <3>. QED
      BY <1>1, <2>1
  <2>4. IsFiniteSet({r})
    BY FS_Singleton
  <2>. QED
    BY <1>3, <2>2, <2>3, <2>4, Zenon
<1>. QED
  BY <1>2, <1>3

\* The alerts of a query.
LEMMA AlertsOfQuery ==
    ASSUME status_now \in Nat, NEW shown, Viewing(shown), StatusLocal \in DOMAIN shown,
           NEW stale, stale \subseteq StaleEntries, IsFiniteSet(stale),
           NEW commands \in CommandLogs, NEW o
    PROVE  LET S == MeshAlerts(shown, stale, commands, o)
           IN  /\ IsFiniteSet(S) /\ \A a \in S : a.seen \in Int
               /\ (\E a \in S : a.code = "telemetry_snapshot_stale") <=> stale # {}
<1>. DEFINE L == LinkAlerts(shown, shown[StatusLocal].controlled \/ shown[StatusLocal].authenticated)
            N == NodeAlerts(shown)
            R == ResponseAlert(shown)
            C == CommandAlert(commands)
            O == OrchestrationAlerts(o)
            T == StaleAlert(stale)
            S == StreamAlerts(shown)
            G == LagAlert(shown)
            others == L \cup N \cup R \cup C \cup O \cup S \cup G
<1>1. Listable(L) /\ Listable(N)
  BY LinkAlertsListable, NodeAlertsListable
<1>2. Listable(R) /\ Listable(C)
  BY ResponseAlertListable, CommandAlertListable
<1>3. Listable(O) /\ Listable(S)
  BY OrchestrationAlertsListable, StreamAlertsListable
<1>4. Listable(G)
  BY CountedAlert, Zenon DEF LagAlert
<1>5. Listable(others)
  <2>. HIDE DEF L, N, R, C, O, S, G
  <2>1. Listable(L \cup N \cup R \cup C)
    BY <1>1, <1>2, BothAlerts
  <2>2. Listable(O \cup S) 
    BY <1>3, BothAlerts
  <2>3. Listable((L \cup N \cup R \cup C) \cup (O \cup S))
    BY <2>1, <2>2, BothAlerts
  <2>4. Listable(((L \cup N \cup R \cup C) \cup (O \cup S)) \cup G)
    BY <2>3, <1>4, BothAlerts
  <2>5. others = ((L \cup N \cup R \cup C) \cup (O \cup S)) \cup G
    BY Zenon
  <2>. QED
    BY <2>4, <2>5, Zenon
<1>6. /\ IsFiniteSet(T) /\ \A a \in T : a.seen \in Int
      /\ (\E a \in T : a.code = "telemetry_snapshot_stale") <=> stale # {}
  BY StaleAlertIff
<1>7. MeshAlerts(shown, stale, commands, o) = others \cup T
  <2>1. MeshAlerts(shown, stale, commands, o) = L \cup N \cup R \cup C \cup O \cup T \cup S \cup G
    BY Zenon DEF MeshAlerts
  <2>. HIDE DEF L, N, R, C, O, T, S, G
  <2>. QED
    BY <2>1, Zenon
<1>. HIDE DEF others, T
<1>8. IsFiniteSet(others \cup T)
  BY <1>5, <1>6, FS_Union, Zenon DEF Listable
<1>. QED
  BY <1>5, <1>6, <1>7, <1>8, Zenon DEF Listable

\* A node lags by its distance to a node of the same stream and epoch.
LEMMA LagIsADistance ==
    ASSUME NEW shown, Viewing(shown), NEW n \in DOMAIN shown, Lag(shown, n) > 0
    PROVE  \E m \in DOMAIN shown :
              /\ SameStream(StreamOf(shown, n), StreamOf(shown, m))
              /\ StreamOf(shown, m).object = StreamOf(shown, n).object + Lag(shown, n)
<1>1. n \in Comparable(shown)
  BY DEF Lag
<1>2. PICK M : M = {m \in Comparable(shown) : SameStream(StreamOf(shown, m), StreamOf(shown, n))}
  OBVIOUS
<1>3. M \in SUBSET DOMAIN shown /\ n \in M /\ M \in SUBSET Comparable(shown)
  BY <1>1, <1>2 DEF Comparable, SameStream
<1>4. \A m \in M : StreamOf(shown, m).object \in Nat
  BY <1>3, StatusAssumption DEF Comparable, StreamOf, Viewing, None
<1>5. PICK p : p = [m \in M |-> StreamOf(shown, m).object]
  OBVIOUS
<1>6. IsFiniteSet(M)
  BY <1>3, FS_Subset DEF Viewing
<1>7. IsFiniteSet(Image(p, M)) /\ Image(p, M) \in SUBSET Nat /\ Image(p, M) # {}
  <2>1. IsFiniteSet(Image(p, M))
    BY <1>6, ImageIsFinite
  <2>. QED
    BY <1>3, <1>4, <1>5, <2>1 DEF Image
<1>8. Max(Image(p, M)) \in Image(p, M)
  BY <1>7, MaxOfFinite
<1>9. PICK m \in M : StreamOf(shown, m).object = Max(Image(p, M))
  BY <1>5, <1>8 DEF Image
<1>10. Image(p, M) = {StreamOf(shown, k).object : k \in M}
  BY <1>5 DEF Image
<1>11. Lag(shown, n) = Max(Image(p, M)) - StreamOf(shown, n).object
  BY <1>1, <1>2, <1>10, Zenon DEF Lag
<1>12. StreamOf(shown, m).object = StreamOf(shown, n).object + Lag(shown, n)
  <2>1. StreamOf(shown, m).object \in Nat /\ StreamOf(shown, n).object \in Nat
    BY <1>3, <1>4, <1>9
  <2>. QED
    BY <1>9, <1>11, <2>1
<1>13. SameStream(StreamOf(shown, n), StreamOf(shown, m))
  BY <1>2, <1>9 DEF SameStream
<1>. QED
  BY <1>3, <1>12, <1>13

\* What is cut off the activity is no newer than what is shown.
LEMMA ActivityIsNewest ==
    ASSUME status_now \in Nat, NEW alerts, IsFiniteSet(alerts), \A a \in alerts : a.seen \in Int,
           NEW commands \in CommandLogs,
           NEW a \in alerts, \A x \in MeshActivity(alerts, commands) : x.code # a.code,
           NEW x \in MeshActivity(alerts, commands)
    PROVE  x.seen >= a.seen
<1>. DEFINE S == {[code |-> "mesh_snapshot", seen |-> status_now]}
            A == {[code |-> b.code, seen |-> b.seen] : b \in alerts}
            C == {[code |-> commands[i].status, seen |-> commands[i].created] : i \in DOMAIN commands}
<1>1. PICK all : all = S \cup A \cup C
  OBVIOUS
<1>2. MeshActivity(alerts, commands) =
          {b \in all : Cardinality({d \in all : d.seen > b.seen}) < ActivityLimit}
  BY <1>1, Zenon DEF MeshActivity
<1>3. commands \in Seq([status : STRING, created : Nat])
  BY StatusAssumption
<1>4. IsFiniteSet(all)
  <2>1. IsFiniteSet(S)
    BY FS_Singleton
  <2>2. IsFiniteSet(A)
    <3>1. PICK p : p = [b \in alerts |-> [code |-> b.code, seen |-> b.seen]]
      OBVIOUS
    <3>2. Image(p, alerts) = A
      BY <3>1 DEF Image
    <3>. QED
      BY <3>2, ImageIsFinite
  <2>3. IsFiniteSet(C)
    <3>1. PICK p : p = [i \in DOMAIN commands |-> [code |-> commands[i].status,
                                                   seen |-> commands[i].created]]
      OBVIOUS
    <3>2. Image(p, DOMAIN commands) = C
      BY <3>1 DEF Image
    <3>3. IsFiniteSet(DOMAIN commands)
      <4>1. DOMAIN commands = 1 .. Len(commands) /\ Len(commands) \in Nat
        BY <1>3
      <4>. QED
        BY <4>1, FS_Interval
    <3>. QED
      BY <3>2, <3>3, ImageIsFinite
  <2>. HIDE DEF S, A, C
  <2>4. IsFiniteSet(S \cup A)
    BY <2>1, <2>2, FS_Union
  <2>. QED
    BY <1>1, <2>3, <2>4, FS_Union
<1>5. \A b \in all : b.seen \in Int
  <2>1. \A b \in S : b.seen \in Int
    OBVIOUS
  <2>2. \A b \in A : b.seen \in Int
    OBVIOUS
  <2>3. \A b \in C : b.seen \in Int
    <3>0. PICK R : R = [status : STRING, created : Nat]
      OBVIOUS
    <3>1. \A i \in DOMAIN commands : commands[i] \in R
      <4>1. commands \in Seq(R)
        BY <1>3, <3>0
      <4>. HIDE DEF S, A, C
      <4>. QED
        BY <4>1
    <3>2. \A r \in R : r.created \in Int
      BY <3>0
    <3>. QED
      BY <3>1, <3>2
  <2>. HIDE DEF S, A, C
  <2>. QED
    BY <1>1, <2>1, <2>2, <2>3, Zenon
<1>6. PICK b : b = [code |-> a.code, seen |-> a.seen]
  OBVIOUS
<1>7. b \in all /\ b.code = a.code /\ b.seen = a.seen
  <2>1. b \in A
    BY <1>6
  <2>. QED
    BY <1>1, <1>6, <2>1
<1>. HIDE DEF S, A, C
<1>. DEFINE above(y) == {d \in all : d.seen > y.seen}
<1>8. ~(Cardinality(above(b)) < ActivityLimit)
  BY <1>2, <1>7, Zenon
<1>9. x \in all /\ Cardinality(above(x)) < ActivityLimit
  BY <1>2, Zenon
<1>10. SUFFICES ASSUME x.seen < a.seen
                PROVE  FALSE
  BY <1>5, <1>7, <1>9
<1>11. above(b) \subseteq above(x)
  BY <1>5, <1>7, <1>9, <1>10
<1>12. IsFiniteSet(above(x))
  <2>1. above(x) \in SUBSET all
    OBVIOUS
  <2>. HIDE DEF above
  <2>. QED
    BY <1>4, <2>1, FS_Subset
<1>13. /\ Cardinality(above(b)) <= Cardinality(above(x))
       /\ Cardinality(above(b)) \in Nat /\ Cardinality(above(x)) \in Nat
  <2>. HIDE DEF above
  <2>1. IsFiniteSet(above(b)) /\ Cardinality(above(b)) <= Cardinality(above(x))
    BY <1>11, <1>12, FS_Subset
  <2>. QED
    BY <1>12, <2>1, FS_CardinalityType
<1>14. ActivityLimit \in Nat
  BY StatusAssumption
<1>. HIDE DEF above
<1>. QED
  BY <1>8, <1>9, <1>13, <1>14

-----------------------------------------------------------------------------
\* The nodes of some entries.
NodesOf(S) == {s.node : s \in S}

\* The entries that a query chooses from.
Rememberable(gone) == gone \cup {s \in stale_nodes : \A g \in gone : g.node # s.node}

\* What is remembered is of these, one entry for a node; all of them when the
\* list is long enough for their nodes.
LEMMA RememberedFacts ==
    ASSUME StatusTypes, OnePerNode(stale_nodes),
           NEW gone, gone \subseteq StaleEntries, IsFiniteSet(gone), OnePerNode(gone)
    PROVE  LET all == Rememberable(gone)
               nodes == NodesOf(gone) \cup NodesOf(stale_nodes)
           IN  /\ all \subseteq StaleEntries /\ OnePerNode(all) /\ IsFiniteSet(all)
               /\ Remembered(gone) \subseteq all /\ IsFiniteSet(Remembered(gone))
               /\ NodesOf(all) = nodes
               /\ Cardinality(nodes) > StaleLimit \/ Remembered(gone) = all
<1>1. PICK all : all = Rememberable(gone)
  OBVIOUS
<1>2. PICK nodes : nodes = NodesOf(gone) \cup NodesOf(stale_nodes)
  OBVIOUS
<1>3. all \subseteq StaleEntries /\ OnePerNode(all)
  BY <1>1 DEF Rememberable, OnePerNode, StatusTypes
<1>4. IsFiniteSet(all)
  <2>1. PICK U : U = {s \in stale_nodes : \A g \in gone : g.node # s.node}
    OBVIOUS
  <2>2. IsFiniteSet(U)
    BY <2>1, FS_Subset DEF StatusTypes
  <2>. QED
    BY <1>1, <2>1, <2>2, FS_Union DEF Rememberable
<1>5. NodesOf(all) = nodes
  BY <1>1, <1>2 DEF Rememberable, NodesOf
<1>6. PICK R : R = {p \in all \X all :
                       p[1].age > p[2].age \/ (p[1].age = p[2].age /\ p[1].node < p[2].node)}
  OBVIOUS
<1>7. \A x, y \in all : <<x, y>> \in R <=> x.age > y.age \/ (x.age = y.age /\ x.node < y.node)
  BY <1>6
<1>8. \A x \in all : x.age \in Int /\ x.node \in Nat
  BY <1>3, StatusAssumption DEF StaleEntries
<1>9. Orders(R, all)
  BY <1>3, <1>7, <1>8 DEF Orders, OnePerNode
<1>10. PICK q : q = InOrder(all, R)
  OBVIOUS
<1>11. /\ q \in Seq(all) /\ Len(q) = Cardinality(all) /\ Cardinality(all) \in Nat
       /\ \A x \in all : \E i \in 1 .. Cardinality(all) : q[i] = x
  BY <1>4, <1>9, <1>10, InOrderLists
<1>12. PICK c : c = Min({StaleLimit, Cardinality(all)})
  OBVIOUS
<1>13. Remembered(gone) = {q[i] : i \in 1 .. c}
  BY <1>1, <1>6, <1>10, <1>12, Zenon DEF Remembered, Rememberable
<1>14. StaleLimit \in Nat
  BY StatusAssumption
<1>15. c = IF StaleLimit <= Cardinality(all) THEN StaleLimit ELSE Cardinality(all)
  <2>1. StaleLimit \in Int /\ Cardinality(all) \in Int
    BY <1>11, <1>14
  <2>. QED
    BY <1>12, <2>1, MinOfTwo
<1>16. c \in Nat /\ c <= Cardinality(all)
  BY <1>11, <1>14, <1>15
<1>17. Remembered(gone) \subseteq all
  BY <1>11, <1>13, <1>16
<1>18. IsFiniteSet(Remembered(gone))
  BY <1>4, <1>17, FS_Subset
<1>19. ASSUME ~(Cardinality(nodes) > StaleLimit)
       PROVE  Remembered(gone) = all
  <2>1. PICK f : f = [x \in all |-> x.node]
    OBVIOUS
  <2>2. f \in Injection(all, nodes)
    BY <1>3, <1>5, <2>1 DEF Injection, IsInjective, OnePerNode, NodesOf
  <2>3. IsFiniteSet(nodes)
    <3>1. Image(f, all) = nodes
      BY <1>5, <2>1 DEF Image, NodesOf
    <3>. QED
      BY <1>4, <3>1, ImageIsFinite
  <2>4. Cardinality(all) <= Cardinality(nodes) /\ Cardinality(nodes) \in Nat
    BY <2>2, <2>3, FS_Injection, FS_CardinalityType
  <2>5. c = Cardinality(all)
    BY <1>11, <1>14, <1>15, <1>19, <2>4
  <2>. QED
    BY <1>11, <1>13, <1>17, <2>5
<1>. QED
  BY <1>1, <1>2, <1>3, <1>4, <1>5, <1>17, <1>18, <1>19, Zenon

\* The snapshots that aged out, and those that did not.
LEMMA GoneFacts ==
    ASSUME StatusTypes
    PROVE  /\ Gone \subseteq StaleEntries /\ IsFiniteSet(Gone) /\ OnePerNode(Gone)
           /\ NodesOf(Gone) = {n \in DOMAIN latest : AgedOut(latest[n])}
           /\ DOMAIN StatusFresh = DOMAIN latest \ NodesOf(Gone)
           /\ \A n \in DOMAIN StatusFresh : StatusFresh[n] = latest[n]
<1>1. PICK D : D = {n \in DOMAIN latest : AgedOut(latest[n])}
  OBVIOUS
<1>2. PICK p : p = [n \in DOMAIN latest |->
                       [node |-> n, updated |-> latest[n].updated, age |-> status_now - latest[n].updated]]
  OBVIOUS
<1>3. D \subseteq DOMAIN latest /\ Gone = Image(p, D)
  BY <1>1, <1>2 DEF Gone, Image
<1>4. IsFiniteSet(D)
  BY <1>3, FS_Subset DEF StatusTypes
<1>5. IsFiniteSet(Gone)
  BY <1>3, <1>4, ImageIsFinite
<1>6. \A n \in D : p[n] \in StaleEntries /\ p[n].node = n
  BY <1>2, <1>3 DEF StaleEntries, StatusTypes
<1>7. Gone \subseteq StaleEntries /\ OnePerNode(Gone) /\ NodesOf(Gone) = D
  BY <1>3, <1>6 DEF Image, OnePerNode, NodesOf
<1>8. /\ DOMAIN StatusFresh = DOMAIN latest \ D
      /\ \A n \in DOMAIN StatusFresh : StatusFresh[n] = latest[n]
  BY <1>1 DEF StatusFresh, Without
<1>. QED
  BY <1>1, <1>5, <1>7, <1>8

-----------------------------------------------------------------------------
LEMMA StatusInitOK == StatusInit => StatusInv
<1>. SUFFICES ASSUME StatusInit
              PROVE  StatusInv
  OBVIOUS
<1>1. DOMAIN latest = {} /\ IsFiniteSet({})
  BY FS_EmptySet DEF StatusInit, EmptyMap
<1>2. StatusTypes
  BY <1>1 DEF StatusInit, StatusTypes
<1>3. OnePerNode(stale_nodes) /\ NodesAccounted /\ ReportIsConsistent
  BY DEF StatusInit, OnePerNode, NodesAccounted, ReportIsConsistent
<1>4. IngestsAccounted
  <2>1. \A n \in StatusNodes : n # None
    BY StatusAssumption DEF None
  <2>. QED
    BY <2>1 DEF StatusInit, IngestsAccounted, Busy
<1>. QED
  BY <1>2, <1>3, <1>4 DEF StatusInv

\* A step without an answer, which leaves the accounts alone.
LEMMA QuietStep ==
    ASSUME StatusInv,
           UNCHANGED <<latest, stale_nodes, ingesting, known, excused>>,
           status_now' \in Nat, report' = NoReport
    PROVE  StatusInv'
<1>1. StatusTypes' /\ OnePerNode(stale_nodes)' /\ NodesAccounted'
  BY DEF StatusInv, StatusTypes, OnePerNode, NodesAccounted, Busy
<1>2. IngestsAccounted'
  BY DEF StatusInv, IngestsAccounted, Busy
<1>3. ReportIsConsistent'
  BY Zenon DEF ReportIsConsistent
<1>. QED
  BY <1>1, <1>2, <1>3 DEF StatusInv

LEMMA InsertOK ==
    ASSUME StatusInv, NEW c \in Feeds, NEW n \in StatusNodes, NEW updated \in 0 .. status_now,
           NEW view \in StatusViews, InsertSnapshot(c, n, updated, view)
    PROVE  StatusInv'
<1>1. DOMAIN latest' = DOMAIN latest \cup {n}
  BY DEF InsertSnapshot, With
<1>2. IsFiniteSet(DOMAIN latest')
  BY <1>1, FS_AddElement DEF StatusInv, StatusTypes
<1>3. \A m \in DOMAIN latest' : latest'[m].updated \in Nat /\ latest'[m].view \in StatusViews
  <2>1. latest'[n] = [updated |-> updated, view |-> view]
    BY DEF InsertSnapshot, With
  <2>2. \A m \in DOMAIN latest \ {n} : latest'[m] = latest[m]
    BY DEF InsertSnapshot, With
  <2>3. updated \in Nat
    BY DEF StatusInv, StatusTypes
  <2>. QED
    BY <1>1, <2>1, <2>2, <2>3 DEF StatusInv, StatusTypes
<1>4. ingesting' = [ingesting EXCEPT ![c] = n] /\ ingesting \in [Feeds -> StatusNodes \cup {None}]
  BY DEF InsertSnapshot, StatusInv, StatusTypes
<1>5. StatusTypes'
  <2>1. DOMAIN latest' \subseteq StatusNodes
    BY <1>1 DEF StatusInv, StatusTypes
  <2>2. ingesting' \in [Feeds -> StatusNodes \cup {None}]
    BY <1>4
  <2>3. /\ stale_nodes' \subseteq StaleEntries /\ IsFiniteSet(stale_nodes')
        /\ status_now' \in Nat /\ known' \subseteq StatusNodes
    BY DEF InsertSnapshot, StatusInv, StatusTypes
  <2>. QED
    BY <1>2, <1>3, <2>1, <2>2, <2>3 DEF StatusTypes
<1>6. OnePerNode(stale_nodes)'
  BY DEF InsertSnapshot, StatusInv, OnePerNode
<1>7. \A m \in StatusNodes : Busy(m)' <=> Busy(m) \/ m = n
  <2>1. ingesting[c] = None /\ \A m \in StatusNodes : m # None
    BY StatusAssumption DEF InsertSnapshot, None
  <2>. QED
    BY <1>4, <2>1 DEF Busy
<1>8. IngestsAccounted'
  BY <1>1, <1>7 DEF InsertSnapshot, StatusInv, IngestsAccounted
<1>9. NodesAccounted'
  <2>1. SUFFICES ASSUME NEW m \in known'
                 PROVE  /\ m \in DOMAIN latest' \/ (\E s \in stale_nodes' : s.node = m) \/ m \in excused'
                        /\ Busy(m)' \/ m \notin DOMAIN latest' \/ \A s \in stale_nodes' : s.node # m
    BY DEF NodesAccounted
  <2>2. m \in StatusNodes /\ stale_nodes' = stale_nodes /\ excused' = excused \ {n} /\ known' = known \cup {n}
    BY <1>5 DEF InsertSnapshot, StatusTypes
  <2>3. CASE m = n
    BY <1>1, <1>7, <2>2, <2>3
  <2>4. CASE m # n
    <3>1. m \in known
      BY <2>2, <2>4
    <3>2. /\ m \in DOMAIN latest \/ (\E s \in stale_nodes : s.node = m) \/ m \in excused
          /\ Busy(m) \/ m \notin DOMAIN latest \/ \A s \in stale_nodes : s.node # m
      BY <3>1 DEF StatusInv, NodesAccounted
    <3>. QED
      BY <1>1, <1>7, <2>2, <2>4, <3>2
  <2>. QED
    BY <2>3, <2>4
<1>10. ReportIsConsistent'
  BY Zenon DEF InsertSnapshot, ReportIsConsistent
<1>. QED
  BY <1>5, <1>6, <1>8, <1>9, <1>10 DEF StatusInv

LEMMA ForgetOK ==
    ASSUME StatusInv, NEW c \in Feeds, ForgetStale(c)
    PROVE  StatusInv'
<1>1. PICK n : n = ingesting[c]
  OBVIOUS
<1>2. n \in StatusNodes /\ ingesting \in [Feeds -> StatusNodes \cup {None}] /\ Busy(n)
  BY <1>1 DEF ForgetStale, StatusInv, StatusTypes, Busy
<1>3. ingesting' = [ingesting EXCEPT ![c] = None] /\ stale_nodes' = {s \in stale_nodes : s.node # n}
  BY <1>1 DEF ForgetStale
<1>4. \A m \in StatusNodes : Busy(m)' => Busy(m)
  <2>1. \A m \in StatusNodes : m # None
    BY StatusAssumption DEF None
  <2>. QED
    BY <1>2, <1>3, <2>1 DEF Busy
<1>5. \A m \in StatusNodes : Busy(m) => Busy(m)' \/ m = n
  BY <1>1, <1>2, <1>3 DEF Busy
<1>6. UNCHANGED <<latest, status_now, known, excused>>
  BY DEF ForgetStale
<1>7. StatusTypes'
  <2>1. stale_nodes' \subseteq stale_nodes
    BY <1>3
  <2>2. IsFiniteSet(stale_nodes')
    BY <2>1, FS_Subset DEF StatusInv, StatusTypes
  <2>3. ingesting' \in [Feeds -> StatusNodes \cup {None}]
    BY <1>2, <1>3
  <2>. QED
    BY <1>6, <2>1, <2>2, <2>3 DEF StatusInv, StatusTypes
<1>8. OnePerNode(stale_nodes)'
  BY <1>3 DEF StatusInv, OnePerNode
<1>9. IngestsAccounted'
  BY <1>4, <1>6 DEF StatusInv, IngestsAccounted
<1>10. NodesAccounted'
  <2>1. SUFFICES ASSUME NEW m \in known
                 PROVE  /\ m \in DOMAIN latest \/ (\E s \in stale_nodes' : s.node = m) \/ m \in excused
                        /\ Busy(m)' \/ m \notin DOMAIN latest \/ \A s \in stale_nodes' : s.node # m
    BY <1>6 DEF NodesAccounted
  <2>2. /\ m \in DOMAIN latest \/ (\E s \in stale_nodes : s.node = m) \/ m \in excused
        /\ Busy(m) \/ m \notin DOMAIN latest \/ \A s \in stale_nodes : s.node # m
    BY DEF StatusInv, NodesAccounted
  <2>3. m \in StatusNodes
    BY DEF StatusInv, StatusTypes
  <2>4. CASE m = n
    <3>1. m \in DOMAIN latest \/ m \in excused
      BY <1>2, <2>4 DEF StatusInv, IngestsAccounted
    <3>. QED
      BY <1>3, <2>4, <3>1
  <2>5. CASE m # n
    BY <1>3, <1>5, <2>2, <2>3, <2>5
  <2>. QED
    BY <2>4, <2>5
<1>11. ReportIsConsistent'
  BY Zenon DEF ForgetStale, ReportIsConsistent
<1>. QED
  BY <1>7, <1>8, <1>9, <1>10, <1>11 DEF StatusInv

LEMMA QueryOK ==
    ASSUME StatusInv, NEW own \in StatusViews, NEW commands \in CommandLogs, NEW o,
           QueryStatus(own, commands, o)
    PROVE  StatusInv'
<1>1. StatusTypes /\ OnePerNode(stale_nodes)
  BY DEF StatusInv
<1>2. PICK gone : gone = NodesOf(Gone)
  OBVIOUS
<1>3. PICK before : before = NodesOf(stale_nodes)
  OBVIOUS
<1>4. PICK stale : stale = IF Gone = {} THEN stale_nodes ELSE Remembered(Gone)
  OBVIOUS
<1>5. PICK shown : shown = With([n \in DOMAIN StatusFresh |-> StatusFresh[n].view], StatusLocal, own)
  OBVIOUS
<1>6. PICK alerts : alerts = MeshAlerts(shown, stale, commands, o)
  OBVIOUS
<1>7. /\ latest' = StatusFresh
      /\ stale_nodes' = stale
      /\ excused' = excused \cup {n \in gone : Busy(n)}
                    \cup (IF Cardinality(gone \cup before) > StaleLimit
                          THEN (gone \cup before) \ NodesOf(stale) ELSE {})
      /\ report' = [nodes |-> DOMAIN shown, stale |-> NodesOf(stale), views |-> shown,
                    lag |-> [n \in DOMAIN shown |-> Lag(shown, n)], alerts |-> alerts,
                    activity |-> MeshActivity(alerts, commands)]
      /\ UNCHANGED <<ingesting, status_now, known>>
  BY <1>2, <1>3, <1>4, <1>5, <1>6, Zenon DEF QueryStatus, NodesOf
<1>8. /\ Gone \subseteq StaleEntries /\ IsFiniteSet(Gone) /\ OnePerNode(Gone)
      /\ gone = {n \in DOMAIN latest : AgedOut(latest[n])}
      /\ DOMAIN latest' = DOMAIN latest \ gone
      /\ \A n \in DOMAIN latest' : latest'[n] = latest[n]
  BY <1>1, <1>2, <1>7, GoneFacts
<1>9. /\ stale \subseteq StaleEntries /\ IsFiniteSet(stale) /\ OnePerNode(stale)
      /\ stale \subseteq Gone \cup stale_nodes
      /\ Cardinality(gone \cup before) > StaleLimit \/ gone \cup before \subseteq NodesOf(stale)
  <2>1. CASE Gone = {}
    <3>1. gone = {} /\ stale = stale_nodes
      BY <1>2, <1>4, <2>1 DEF NodesOf
    <3>. QED
      BY <1>1, <1>3, <3>1 DEF StatusTypes, OnePerNode
  <2>2. CASE Gone # {}
    <3>1. PICK all : all = Rememberable(Gone)
      OBVIOUS
    <3>2. /\ all \subseteq StaleEntries /\ OnePerNode(all)
          /\ stale \subseteq all /\ IsFiniteSet(stale)
          /\ NodesOf(all) = gone \cup before
          /\ Cardinality(gone \cup before) > StaleLimit \/ stale = all
      BY <1>1, <1>2, <1>3, <1>4, <1>8, <2>2, <3>1, RememberedFacts
    <3>3. all \subseteq Gone \cup stale_nodes
      BY <3>1 DEF Rememberable
    <3>. QED
      BY <3>2, <3>3 DEF OnePerNode
  <2>. QED
    BY <2>1, <2>2
<1>10. StatusTypes'
  <2>1. DOMAIN latest' \subseteq StatusNodes /\ IsFiniteSet(DOMAIN latest')
    BY <1>1, <1>8, FS_Subset DEF StatusTypes
  <2>. QED
    BY <1>1, <1>7, <1>8, <1>9, <2>1 DEF StatusTypes
<1>11. \A n : Busy(n)' <=> Busy(n)
  BY <1>7 DEF Busy
<1>12. IngestsAccounted'
  <2>1. SUFFICES ASSUME NEW n \in StatusNodes, Busy(n)
                 PROVE  n \in DOMAIN latest' \/ n \in excused'
    BY <1>11 DEF IngestsAccounted
  <2>2. n \in DOMAIN latest \/ n \in excused
    BY <2>1 DEF StatusInv, IngestsAccounted
  <2>. QED
    BY <1>7, <1>8, <2>1, <2>2
<1>13. NodesAccounted'
  <2>1. SUFFICES ASSUME NEW n \in known
                 PROVE  /\ n \in DOMAIN latest' \/ (\E s \in stale : s.node = n) \/ n \in excused'
                        /\ Busy(n) \/ n \notin DOMAIN latest' \/ \A s \in stale : s.node # n
    BY <1>7, <1>11 DEF NodesAccounted
  <2>2. /\ n \in DOMAIN latest \/ (\E s \in stale_nodes : s.node = n) \/ n \in excused
        /\ Busy(n) \/ n \notin DOMAIN latest \/ \A s \in stale_nodes : s.node # n
    BY DEF StatusInv, NodesAccounted
  <2>3. n \in DOMAIN latest' \/ n \in gone \cup before \/ n \in excused
    BY <1>3, <1>8, <2>2 DEF NodesOf
  <2>4. n \in gone \cup before => n \in NodesOf(stale) \/ n \in excused'
    BY <1>7, <1>9
  <2>5. n \in DOMAIN latest' \/ (\E s \in stale : s.node = n) \/ n \in excused'
    BY <1>7, <2>3, <2>4 DEF NodesOf
  <2>6. ASSUME n \in DOMAIN latest', ~Busy(n), NEW s \in stale
        PROVE  s.node # n
    <3>1. n \in DOMAIN latest /\ n \notin gone
      BY <1>8, <2>6
    <3>2. \A t \in stale_nodes : t.node # n
      BY <2>2, <2>6, <3>1
    <3>3. \A t \in Gone : t.node # n
      BY <1>2, <3>1 DEF NodesOf
    <3>. QED
      BY <1>9, <3>2, <3>3
  <2>. QED
    BY <2>5, <2>6
<1>14. Viewing(shown) /\ StatusLocal \in DOMAIN shown
  <2>1. DOMAIN shown = DOMAIN latest' \cup {StatusLocal}
    BY <1>5, <1>7 DEF With
  <2>2. IsFiniteSet(DOMAIN shown)
    BY <1>10, <2>1, FS_AddElement DEF StatusTypes
  <2>3. \A n \in DOMAIN shown : shown[n] = own \/ (n \in DOMAIN latest' /\ shown[n] = latest'[n].view)
    BY <1>5, <1>7 DEF With
  <2>. QED
    BY <1>10, <2>1, <2>2, <2>3 DEF Viewing, StatusTypes
<1>15. ReportIsConsistent'
  <2>1. /\ report'.nodes = DOMAIN shown /\ report'.stale = NodesOf(stale) /\ report'.views = shown
        /\ report'.lag = [n \in DOMAIN shown |-> Lag(shown, n)] /\ report'.alerts = alerts
        /\ report'.activity = MeshActivity(alerts, commands)
    BY <1>7
  <2>2. status_now \in Nat
    BY <1>1 DEF StatusTypes
  <2>3. /\ IsFiniteSet(alerts) /\ \A a \in alerts : a.seen \in Int
        /\ (\E a \in alerts : a.code = "telemetry_snapshot_stale") <=> stale # {}
    BY <1>6, <1>9, <1>14, <2>2, AlertsOfQuery
  <2>4. ASSUME NEW n \in DOMAIN shown, Lag(shown, n) > 0
        PROVE  \E m \in DOMAIN shown :
                  /\ shown[n].stream.id = shown[m].stream.id
                  /\ shown[n].stream.epoch = shown[m].stream.epoch
                  /\ shown[m].stream.object = shown[n].stream.object + Lag(shown, n)
    <3>1. PICK m \in DOMAIN shown :
              /\ SameStream(StreamOf(shown, n), StreamOf(shown, m))
              /\ StreamOf(shown, m).object = StreamOf(shown, n).object + Lag(shown, n)
      BY <1>14, <2>4, LagIsADistance
    <3>. QED
      BY <3>1, Zenon DEF SameStream, StreamOf
  <2>5. ASSUME NEW a \in alerts, \A x \in MeshActivity(alerts, commands) : x.code # a.code,
               NEW x \in MeshActivity(alerts, commands)
        PROVE  x.seen >= a.seen
    BY <2>2, <2>3, <2>5, ActivityIsNewest
  <2>6. (\E a \in alerts : a.code = "telemetry_snapshot_stale") = (NodesOf(stale) # {})
    <3>1. stale # {} <=> NodesOf(stale) # {}
      BY DEF NodesOf
    <3>. QED
      BY <2>3, <3>1, Zenon
  <2>7. \A n \in report'.nodes : report'.lag[n] > 0 =>
           \E m \in report'.nodes :
              LET a == report'.views[n].stream
                  b == report'.views[m].stream
              IN  a.id = b.id /\ a.epoch = b.epoch /\ b.object = a.object + report'.lag[n]
    <3>1. SUFFICES ASSUME NEW n \in report'.nodes, report'.lag[n] > 0
                   PROVE  \E m \in report'.nodes :
                             /\ report'.views[n].stream.id = report'.views[m].stream.id
                             /\ report'.views[n].stream.epoch = report'.views[m].stream.epoch
                             /\ report'.views[m].stream.object =
                                    report'.views[n].stream.object + report'.lag[n]
      BY Zenon
    <3>2. n \in DOMAIN shown /\ report'.lag[n] = Lag(shown, n)
      BY <2>1
    <3>3. PICK m \in DOMAIN shown :
                  /\ shown[n].stream.id = shown[m].stream.id
                  /\ shown[n].stream.epoch = shown[m].stream.epoch
                  /\ shown[m].stream.object = shown[n].stream.object + Lag(shown, n)
      <4>1. Lag(shown, n) > 0
        BY <3>1, <3>2, Zenon
      <4>. QED
        BY <2>4, <3>2, <4>1, Zenon
    <3>. QED
      BY <2>1, <3>2, <3>3, Zenon
  <2>8. \A a \in report'.alerts : (\A x \in report'.activity : x.code # a.code) =>
           \A x \in report'.activity : x.seen >= a.seen
    BY <2>1, <2>5, Zenon
  <2>9. (\E a \in report'.alerts : a.code = "telemetry_snapshot_stale") = (report'.stale # {})
    BY <2>1, <2>6, Zenon
  <2>. QED
    BY <2>7, <2>8, <2>9, Zenon DEF ReportIsConsistent
<1>16. OnePerNode(stale_nodes)'
  BY <1>7, <1>9 DEF OnePerNode
<1>. QED
  BY <1>10, <1>12, <1>13, <1>15, <1>16 DEF StatusInv

LEMMA StatusStutters ==
    ASSUME StatusInv, UNCHANGED statusVars
    PROVE  StatusInv'
<1>1. StatusTypes' /\ OnePerNode(stale_nodes)' /\ NodesAccounted' /\ IngestsAccounted'
  BY DEF statusVars, StatusInv, StatusTypes, OnePerNode, NodesAccounted, IngestsAccounted, Busy
<1>2. ReportIsConsistent'
  <2>1. report' = report
    BY DEF statusVars
  <2>. QED
    BY <2>1, Zenon DEF StatusInv, ReportIsConsistent
<1>. QED
  BY <1>1, <1>2 DEF StatusInv

\* The accounts of nodes, with one stale entry for a node, and a node amid its
\* ingest fresh or aged out since, are kept by every step (ingest_snapshot,
\* snapshots_with_local and remember_stale_nodes of TelemetryAggregator).
THEOREM StatusInvariant == StatusSpec => []StatusInv
<1>1. StatusInit => StatusInv
  BY StatusInitOK
<1>2. StatusInv /\ [StatusNext]_statusVars => StatusInv'
  <2>1. SUFFICES ASSUME StatusInv, [StatusNext]_statusVars
                 PROVE  StatusInv'
    OBVIOUS
  <2>2. status_now \in Nat
    BY <2>1 DEF StatusInv, StatusTypes
  <2>3. ASSUME NEW c \in Collectors, PeerConnecting(c) \/ PeerConnected(c) \/ PeerFailed(c)
                                     \/ PeerDisconnected(c)
        PROVE  StatusInv'
    <3>1. /\ UNCHANGED <<latest, stale_nodes, ingesting, known, excused, status_now>>
          /\ report' = NoReport
      BY <2>3, Zenon DEF PeerConnecting, PeerConnected, PeerFailed, PeerDisconnected, SetPeer
    <3>. QED
      BY <2>1, <2>2, <3>1, QuietStep
  <2>4. ASSUME NEW c \in Feeds, ForgetStale(c)
        PROVE  StatusInv'
    BY <2>1, <2>4, ForgetOK
  <2>5. ASSUME NEW c \in Feeds, NEW n \in StatusNodes, NEW updated \in 0 .. status_now,
               NEW view \in StatusViews, InsertSnapshot(c, n, updated, view)
        PROVE  StatusInv'
    BY <2>1, <2>5, InsertOK
  <2>6. ASSUME NEW own \in StatusViews, NEW commands \in CommandLogs, NEW o \in Orchestrations,
               QueryStatus(own, commands, o)
        PROVE  StatusInv'
    BY <2>1, <2>6, QueryOK
  <2>7. CASE StatusElapse
    <3>1. /\ UNCHANGED <<latest, stale_nodes, ingesting, known, excused>>
          /\ report' = NoReport /\ status_now' \in Nat
      BY <2>2, <2>7 DEF StatusElapse
    <3>. QED
      BY <2>1, <3>1, QuietStep
  <2>8. CASE UNCHANGED statusVars
    BY <2>1, <2>8, StatusStutters
  <2>. QED
    BY <2>1, <2>3, <2>4, <2>5, <2>6, <2>7, <2>8, Zenon DEF StatusNext
<1>. QED
  BY <1>1, <1>2, PTL DEF StatusSpec

\* However ingests, queries and time interleave, no node is lost from the
\* status unless the full list or the race of the two locks excuses it, and each
\* report agrees with itself (MeshApiSnapshot::from_snapshots).
THEOREM NoNodeIsLost == StatusSpec => []StatusIsSound
<1>1. StatusInv => StatusIsSound
  BY Zenon DEF StatusInv, StatusIsSound
<1>. QED
  BY <1>1, StatusInvariant, PTL
=============================================================================
