---------------------------- MODULE TalkbackLane ----------------------------
(***************************************************************************)
(* The ephemeral talkback fan-out (src/talkback_lane.rs): frames of a      *)
(* publisher are admitted against the snapshot of their audience and a     *)
(* replay window, queued for every other participant that subscribes, and  *)
(* pulled and acknowledged by the receivers.                               *)
(*                                                                         *)
(* The lane is called through &mut self, so every call is one step; what   *)
(* interleaves are the calls of publishers, receivers and the control      *)
(* plane.  The four numbers of an authorization generation are compared    *)
(* for equality only and are one number here.  A rejected call changes     *)
(* counters, which are left out, and is not a step.                        *)
(*                                                                         *)
(* A definition named Bug... is a deliberately wrong variant of the        *)
(* definition that follows it: it shows that a property can fail.          *)
(***************************************************************************)
EXTENDS Integers, Sequences, FiniteSets, FiniteSetsExt, SequencesExt, Maps

CONSTANTS
  Audiences,      \* (session, audience) pairs
  SessionOf,      \* the session of each audience
  Publishers,     \* publisher endpoints
  Receivers,      \* receiver endpoints
  ParticipantOf,  \* the participant of every endpoint
  Snapshots,      \* routing snapshots the control plane may install
  Generations,    \* authorization generations of snapshots and frames
  Grants,         \* subject_grant_epoch of publishers and frames
  Seqs,           \* frame sequences
  WindowBits,     \* SEQUENCE_WINDOW_BITS
  MaxQueue,       \* max_frames_per_publisher_receiver
  MaxTime         \* bound: readings of the clock, and deadlines

\* TalkbackRoutingSnapshotV1::new: a publisher at least, and each endpoint once
ValidSnapshot(s) ==
  /\ s.publishers # {}
  /\ \A x, y \in s.publishers : x.endpoint = y.endpoint => x = y

ASSUME TalkbackAssumption ==
  /\ SessionOf \in [Audiences -> {SessionOf[a] : a \in Audiences}]
  /\ Publishers \cup Receivers \subseteq DOMAIN ParticipantOf
  /\ Snapshots \subseteq [generation : Generations,
                          publishers : SUBSET [endpoint : Publishers, grant : Grants],
                          subscribers : SUBSET Receivers]
  /\ \A s \in Snapshots : ValidSnapshot(s)
  /\ Seqs \subseteq Nat
  /\ WindowBits \in Nat \ {0}
  /\ MaxQueue \in Nat \ {0}
  /\ MaxTime \in Nat

VARIABLES
  now,         \* now_unix_us of the next call
  routes,      \* audience -> installed snapshot
  sequences,   \* <<audience, publisher>> -> SequenceWindow
  queues,      \* <<audience, publisher, receiver>> -> queued frames, oldest first
  played,      \* <<audience, publisher, receiver>> -> PlayedHighWater
  pulled       \* history: the sequences pulled under the installed snapshot

vars == <<now, routes, sequences, queues, played, pulled>>

\* EphemeralTalkbackFrameV1; it carries the time at which it was accepted
Frame == [audience : Audiences, publisher : Publishers, generation : Generations,
          grant : Grants, seq : Seqs, accepted : 0..MaxTime, deadline : 0..MaxTime]

None == -1      \* nothing acknowledged

Deliveries == Audiences \X Publishers \X Receivers
EmptyTable == [x \in {} |-> x]
Put(f, k, v) == [x \in DOMAIN f \cup {k} |-> IF x = k THEN v ELSE f[x]]
Keep(f, S)   == [x \in DOMAIN f \cap S |-> f[x]]
Lookup(f, k, default) == IF k \in DOMAIN f THEN f[k] ELSE default

\* EphemeralTalkbackFrameV1::is_expired
IsExpired(f) == f.deadline <= now

(***************************************************************************)
(* SequenceWindow: a bit set of the sequences at a distance below the      *)
(* highest, here the set of those distances.                               *)
(***************************************************************************)
FirstWindow(seq) == [highest |-> seq, seen |-> {0}]

\* admit() of a sequence that it accepts, and when it does
Admits(w, seq) ==
  seq <= w.highest => w.highest - seq < WindowBits /\ w.highest - seq \notin w.seen

Admit(w, seq) ==
  IF seq > w.highest
    THEN [highest |-> seq,
          seen |-> ({d + (seq - w.highest) : d \in w.seen} \cap (0..(WindowBits - 1))) \cup {0}]
    ELSE [highest |-> w.highest, seen |-> w.seen \cup {w.highest - seq}]

(***************************************************************************)
(* Control plane                                                           *)
(***************************************************************************)
\* A purge that forgets to drop the queues.
BugPurgeAudiences(S) ==
  /\ sequences' = Keep(sequences, (Audiences \ S) \X Publishers)
  /\ queues' = queues
  /\ played' = Keep(played, (Audiences \ S) \X Publishers \X Receivers)
  /\ pulled' = Keep(pulled, (Audiences \ S) \X Publishers \X Receivers)

PurgeAudiences(S) ==
  /\ sequences' = Keep(sequences, (Audiences \ S) \X Publishers)
  /\ queues' = Keep(queues, (Audiences \ S) \X Publishers \X Receivers)
  /\ played' = Keep(played, (Audiences \ S) \X Publishers \X Receivers)
  /\ pulled' = Keep(pulled, (Audiences \ S) \X Publishers \X Receivers)

InstallSnapshot(a, snapshot) ==
  /\ PurgeAudiences({a})
  /\ routes' = Put(routes, a, snapshot)
  /\ UNCHANGED now

RemoveAudience(a) ==
  /\ PurgeAudiences({a})
  /\ routes' = Keep(routes, Audiences \ {a})
  /\ UNCHANGED now

EndSession(s) ==
  LET ended == {a \in DOMAIN routes : SessionOf[a] = s}
  IN  /\ PurgeAudiences(ended)
      /\ routes' = Keep(routes, Audiences \ ended)
      /\ UNCHANGED now

(***************************************************************************)
(* Publishers                                                              *)
(***************************************************************************)
\* The conditions of publish_inner, in its order
Publishable(f) ==
  /\ ~IsExpired(f)
  /\ f.audience \in DOMAIN routes
  /\ LET route == routes[f.audience]
     IN  /\ route.generation = f.generation
         /\ [endpoint |-> f.publisher, grant |-> f.grant] \in route.publishers
  /\ LET k == <<f.audience, f.publisher>>
     IN  k \in DOMAIN sequences => Admits(sequences[k], f.seq)

\* Everyone that subscribes, except the publisher's own participant
FanOut(f) ==
  {<<f.audience, f.publisher, r>> :
     r \in {s \in routes[f.audience].subscribers :
              ParticipantOf[s] # ParticipantOf[f.publisher]}}

\* Expired frames leave the queue first, then the oldest one if it is full.
Enqueue(queue, f) ==
  LET live == Subsequence(queue, {i \in DOMAIN queue : ~IsExpired(queue[i])})
      room == IF Len(live) = MaxQueue THEN Tail(live) ELSE live
  IN  Append(room, f)

Publish(f) ==
  /\ Publishable(f)
  /\ LET k == <<f.audience, f.publisher>>
     IN  sequences' = Put(sequences, k, IF k \in DOMAIN sequences
                                          THEN Admit(sequences[k], f.seq)
                                          ELSE FirstWindow(f.seq))
  /\ queues' = [d \in DOMAIN queues \cup FanOut(f) |->
                  IF d \in FanOut(f) THEN Enqueue(Lookup(queues, d, <<>>), f)
                  ELSE queues[d]]
  /\ UNCHANGED <<now, routes, played, pulled>>

(***************************************************************************)
(* Receivers                                                               *)
(***************************************************************************)
QueuesOf(r) == {d \in DOMAIN queues : d[3] = r}

\* A queue without the expired frames at its front
DropExpired(queue) ==
  LET live == {i \in DOMAIN queue : ~IsExpired(queue[i])}
  IN  IF live = {} THEN <<>> ELSE SubSeq(queue, Min(live), Len(queue))

\* pull_next: the front that was accepted first, by sequence within one instant
Oldest(r, d) ==
  /\ d \in QueuesOf(r)
  /\ DropExpired(queues[d]) # <<>>
  /\ \A e \in QueuesOf(r) : DropExpired(queues[e]) # <<>> =>
       LET x == Head(DropExpired(queues[d]))
           y == Head(DropExpired(queues[e]))
       IN  x.accepted < y.accepted \/ (x.accepted = y.accepted /\ x.seq <= y.seq)

HighWater(d, seq) ==
  IF d \in DOMAIN played
    THEN [played[d] EXCEPT !.delivered = Max({@, seq})]
    ELSE [delivered |-> seq, acknowledged |-> None]

PullNext(r, d) ==
  /\ Oldest(r, d)
  /\ LET frame == Head(DropExpired(queues[d]))
     IN  /\ queues' = [e \in DOMAIN queues |->
                         IF e = d THEN Tail(DropExpired(queues[e]))
                         ELSE IF e \in QueuesOf(r) THEN DropExpired(queues[e])
                         ELSE queues[e]]
         /\ played' = Put(played, d, HighWater(d, frame.seq))
         /\ pulled' = Put(pulled, d, Append(Lookup(pulled, d, <<>>), frame.seq))
  /\ UNCHANGED <<now, routes, sequences>>

\* The pull that finds nothing still drops what has expired.
PullNothing(r) ==
  /\ \A d \in QueuesOf(r) : DropExpired(queues[d]) = <<>>
  /\ queues' = [d \in DOMAIN queues |-> IF d \in QueuesOf(r) THEN <<>> ELSE queues[d]]
  /\ UNCHANGED <<now, routes, sequences, played, pulled>>

AcknowledgePlayout(d, seq) ==
  /\ d[1] \in DOMAIN routes
  /\ d[3] \in routes[d[1]].subscribers
  /\ d \in DOMAIN played
  /\ seq <= played[d].delivered
  /\ seq > played[d].acknowledged
  /\ played' = [played EXCEPT ![d].acknowledged = seq]
  /\ UNCHANGED <<now, routes, sequences, queues, pulled>>

Elapse ==
  /\ now < MaxTime
  /\ now' = now + 1
  /\ UNCHANGED <<routes, sequences, queues, played, pulled>>

-----------------------------------------------------------------------------
Init ==
  /\ now = 0
  /\ routes = EmptyTable
  /\ sequences = EmptyTable
  /\ queues = EmptyTable
  /\ played = EmptyTable
  /\ pulled = EmptyTable

Next ==
  \/ \E a \in Audiences, snapshot \in Snapshots : InstallSnapshot(a, snapshot)
  \/ \E a \in Audiences : RemoveAudience(a)
  \/ \E a \in Audiences : EndSession(SessionOf[a])
  \/ \E f \in {g \in Frame : g.accepted <= now} : Publish(f)
  \/ \E r \in Receivers, d \in Deliveries : PullNext(r, d)
  \/ \E r \in Receivers : PullNothing(r)
  \/ \E d \in Deliveries, seq \in Seqs : AcknowledgePlayout(d, seq)
  \/ Elapse

Spec == Init /\ [][Next]_vars

-----------------------------------------------------------------------------
(***************************************************************************)
(* Properties.                                                             *)
(***************************************************************************)
\* The values every variable ranges over.
TypeOK ==
  /\ now \in 0..MaxTime
  /\ DOMAIN routes \subseteq Audiences /\ \A a \in DOMAIN routes : routes[a] \in Snapshots
  /\ DOMAIN sequences \subseteq Audiences \X Publishers
  /\ \A k \in DOMAIN sequences :
       sequences[k] \in [highest : Seqs, seen : SUBSET (0..(WindowBits - 1))]
  /\ DOMAIN queues \subseteq Deliveries /\ \A d \in DOMAIN queues : queues[d] \in Seq(Frame)
  /\ DOMAIN played \subseteq Deliveries
  /\ \A d \in DOMAIN played :
       played[d] \in [delivered : Seqs, acknowledged : {None} \cup Seqs]
  /\ DOMAIN pulled \subseteq Deliveries /\ \A d \in DOMAIN pulled : pulled[d] \in Seq(Seqs)

\* The sequences of a delivery that are still queued
Waiting(d) == {Lookup(queues, d, <<>>)[i].seq : i \in DOMAIN Lookup(queues, d, <<>>)}

\* Under one snapshot a receiver gets a sequence of a publisher at most once,
\* and never while a copy of it still waits: the sliding window of admit()
\* stops every repetition, in any order of arrival and at any distance.
DeliveredOnce ==
  \A d \in DOMAIN pulled :
    /\ IsInjective(pulled[d])
    /\ Range(pulled[d]) \cap Waiting(d) = {}

\* Every frame that can be pulled was published under the snapshot that is
\* installed, by a publisher that snapshot allows, for a receiver it lists that
\* is not the publisher's own participant; and a queue never exceeds its limit.
QueuesAuthorized ==
  \A d \in DOMAIN queues :
    /\ Len(queues[d]) <= MaxQueue
    /\ \A i \in DOMAIN queues[d] :
         LET f == queues[d][i]
         IN  /\ d[1] = f.audience /\ d[2] = f.publisher
             /\ f.audience \in DOMAIN routes
             /\ f.generation = routes[f.audience].generation
             /\ [endpoint |-> f.publisher, grant |-> f.grant] \in routes[f.audience].publishers
             /\ d[3] \in routes[f.audience].subscribers
             /\ ParticipantOf[d[3]] # ParticipantOf[f.publisher]

\* The high-water mark of a delivery is the highest sequence its receiver has
\* pulled under the snapshot, and no acknowledgement is beyond it.
HighWaterExact ==
  /\ DOMAIN played = DOMAIN pulled
  /\ \A d \in DOMAIN played :
       /\ played[d].delivered = Max(Range(pulled[d]))
       /\ played[d].acknowledged <= played[d].delivered

\* The lane under any order of frames, pulls and snapshots (talkback_lane.rs:
\* 280-600): each frame once, only to those the snapshot in force allows, and
\* the marks of each delivery exact.
LaneSound == TypeOK /\ DeliveredOnce /\ QueuesAuthorized /\ HighWaterExact
=============================================================================
