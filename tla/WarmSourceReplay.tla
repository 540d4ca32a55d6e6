-------------------------- MODULE WarmSourceReplay --------------------------
(***************************************************************************)
(* One warm child of a RelayDownstreamForwarder (src/main.rs): a           *)
(* forwarding path of role Repair, its promoted flag and its               *)
(* WarmSourceReplayBuffer.                                                 *)
(*                                                                         *)
(* Two tasks of the multi-threaded runtime share the path without a common *)
(* lock:                                                                   *)
(*   - the ingest task runs forward() for one admitted source datagram at  *)
(*     a time: it reads the flag, then sends the datagram or pushes it     *)
(*     into the buffer, then corrects the gauge of buffered datagrams;     *)
(*   - the failover listener task (module RelayFailover decides when)      *)
(*     swaps the flag and, on a promotion, drains the buffer, corrects the *)
(*     gauge and sends the batch.  It does nothing else meanwhile.         *)
(* Only push and take_live run under the buffer's mutex, so they are one   *)
(* step each; everything else interleaves.                                 *)
(*                                                                         *)
(* Repair datagrams are always sent on such a path and change nothing      *)
(* here; paths of the other roles send every datagram they permit.         *)
(*                                                                         *)
(* A definition named Bug... is a deliberately wrong variant of the        *)
(* definition that follows it: it shows that a property can fail.          *)
(***************************************************************************)
EXTENDS Integers, Sequences, FiniteSets, SequencesExt, Functions, Maps

CONSTANTS
  Keys,            \* object keys
  NoKey,           \* forward(.., None, None): an AEP1 datagram
  Deadline,        \* the object deadline (expires_at_us) of each key
  Sizes,           \* wire lengths
  MaxObjects,      \* RELAY_WARM_SOURCE_REPLAY_MAX_OBJECTS_PER_CHILD
  MaxDatagrams,    \* RELAY_WARM_SOURCE_REPLAY_MAX_DATAGRAMS_PER_CHILD
  MaxBytes,        \* RELAY_WARM_SOURCE_REPLAY_MAX_BYTES_PER_CHILD
  MaxOffered,      \* bound: source datagrams offered to forward()
  MaxTime          \* bound: the wall clock

ASSUME ReplayBounds ==
  /\ MaxObjects \in Nat \ {0}
  /\ MaxDatagrams \in Nat \ {0}
  /\ MaxBytes \in Nat \ {0}

ASSUME ReplayInputs ==
  /\ NoKey \notin Keys
  /\ Deadline \in [Keys -> Nat]
  /\ Sizes \subseteq Nat \ {0}
  /\ MaxOffered \in Nat
  /\ MaxTime \in Nat

VARIABLES
  now,            \* now_unix_us()
  promoted,       \* RelayForwardPath::promoted
  buffer,         \* RelayForwardPath::warm_sources
  gauge,          \* warm_source_buffered_datagrams
  offered,        \* how many source datagrams the ingest task has taken up
  f_pc,           \* where the ingest task stands in forward()
  f_datagram,     \* the datagram it is forwarding
  f_promoted,     \* the flag as it read it
  f_mutation,     \* the WarmSourceBufferMutation it has yet to account for
  l_pc,           \* where the listener task stands
  l_batch,        \* the datagrams of its WarmSourceReplayBatch still to be sent
  l_removed,      \* how many datagrams take_live removed
  fate            \* history: what became of each offered datagram

vars == <<now, promoted, buffer, gauge, offered, f_pc, f_datagram, f_promoted,
          f_mutation, l_pc, l_batch, l_removed, fate>>

Datagram == [id : 1..MaxOffered, key : Keys \cup {NoKey}, size : Sizes]
Idle     == [id |-> 0, key |-> NoKey, size |-> 0]

Ids(s)      == {s[i].id : i \in DOMAIN s}
KeysOf(s)   == {s[i].key : i \in DOMAIN s}
TotalSize(s) == SumFunction([i \in DOMAIN s |-> s[i].size])
Expired(d)  == Deadline[d.key] <= now

\* The indices of the datagrams whose object is late, and of the others.
Late(s) == {i \in DOMAIN s : Expired(s[i])}
Live(s) == DOMAIN s \ Late(s)

\* The indices of the datagrams that belong to one of the keys.
Of(s, keys) == {i \in DOMAIN s : s[i].key \in keys}

(***************************************************************************)
(* WarmSourceReplayBuffer: its datagrams in arrival order, the keys they   *)
(* belong to in order of first arrival, and their bytes.                   *)
(***************************************************************************)
EmptyBuffer == [datagrams |-> <<>>, object_order |-> <<>>, bytes |-> 0]

\* object_order.retain(|key| some datagram has that key)
RetainOrder(order, datagrams) ==
  Subsequence(order, {i \in DOMAIN order : order[i] \in KeysOf(datagrams)})

\* WarmSourceReplayBuffer::remove_expired
RemoveExpired(b) ==
  LET live == Subsequence(b.datagrams, Live(b.datagrams))
  IN  [datagrams    |-> live,
       object_order |-> RetainOrder(b.object_order, live),
       bytes        |-> b.bytes - TotalSize(Subsequence(b.datagrams, Late(b.datagrams)))]

\* The datagram is appended, its key remembered once.
Insert(b, d) ==
  [datagrams    |-> Append(b.datagrams, d),
   object_order |-> IF Contains(b.object_order, d.key)
                      THEN b.object_order ELSE Append(b.object_order, d.key),
   bytes        |-> b.bytes + d.size]

\* The objects that leave the window, and remove_object for each of them.
RetireObjects(b) ==
  LET excess  == IF Len(b.object_order) > MaxObjects
                   THEN Len(b.object_order) - MaxObjects ELSE 0
      retired == ToSet(SubSeq(b.object_order, 1, excess))
  IN  [datagrams    |-> Subsequence(b.datagrams, DOMAIN b.datagrams \ Of(b.datagrams, retired)),
       object_order |-> SubSeq(b.object_order, excess + 1, Len(b.object_order)),
       bytes        |-> b.bytes - TotalSize(Subsequence(b.datagrams, Of(b.datagrams, retired)))]

\* The oldest datagrams are evicted until both limits hold again, and a key
\* none of whose datagrams is left goes with them.
EvictDatagrams(b) ==
  LET Rest(k) == SubSeq(b.datagrams, k + 1, Len(b.datagrams))
      Fits(k) == /\ Len(b.datagrams) - k <= MaxDatagrams
                 /\ b.bytes - TotalSize(SubSeq(b.datagrams, 1, k)) <= MaxBytes
      n == CHOOSE k \in 0..Len(b.datagrams) :
             Fits(k) /\ \A j \in 0..(k - 1) : ~Fits(j)
      evicted == KeysOf(SubSeq(b.datagrams, 1, n))
  IN  [datagrams    |-> Rest(n),
       object_order |-> Subsequence(b.object_order,
                          {i \in DOMAIN b.object_order : \/ b.object_order[i] \notin evicted
                                                          \/ b.object_order[i] \in KeysOf(Rest(n))}),
       bytes        |-> b.bytes - TotalSize(SubSeq(b.datagrams, 1, n))]

\* push() refuses a datagram that is late or larger than the whole buffer.
Refused(d) == Expired(d) \/ d.size > MaxBytes

\* WarmSourceReplayBuffer::push
Push(b, d) ==
  LET live == RemoveExpired(b)
  IN  IF Refused(d) THEN live ELSE EvictDatagrams(RetireObjects(Insert(live, d)))

\* The mutation push() reports: how many datagrams it added and removed.
Mutation(b, d) ==
  LET added == IF Refused(d) THEN 0 ELSE 1
  IN  [added   |-> added,
       removed |-> Len(b.datagrams) + added - Len(Push(b, d).datagrams)]

NoMutation == [added |-> 0, removed |-> 0]

(***************************************************************************)
(* RelayDownstreamForwarder::forward on this path, by the ingest task.     *)
(***************************************************************************)
\* A datagram is admitted; the flag is read.
Load(key, size) ==
  /\ f_pc = "idle"
  /\ offered < MaxOffered
  /\ offered' = offered + 1
  /\ f_datagram' = [id |-> offered + 1, key |-> key, size |-> size]
  /\ f_promoted' = promoted
  /\ f_pc' = "loaded"
  /\ UNCHANGED <<now, promoted, buffer, gauge, f_mutation, l_pc, l_batch, l_removed, fate>>

\* failover_source: the datagram is sent to the child.
SendSource ==
  /\ f_pc = "loaded"
  /\ f_promoted
  /\ fate' = [fate EXCEPT ![f_datagram.id] = Append(@, "sent")]
  /\ f_datagram' = Idle
  /\ f_pc' = "idle"
  /\ UNCHANGED <<now, promoted, buffer, gauge, offered, f_promoted, f_mutation,
                 l_pc, l_batch, l_removed>>

\* Not promoted and without an object key: the datagram is only filtered.
FilterSource ==
  /\ f_pc = "loaded"
  /\ ~f_promoted
  /\ f_datagram.key = NoKey
  /\ fate' = [fate EXCEPT ![f_datagram.id] = Append(@, "filtered")]
  /\ f_datagram' = Idle
  /\ f_pc' = "idle"
  /\ UNCHANGED <<now, promoted, buffer, gauge, offered, f_promoted, f_mutation,
                 l_pc, l_batch, l_removed>>

\* buffer_warm_source, under the lock.  What push() removes or refuses is
\* gone for this child.
BufferSource ==
  /\ f_pc = "loaded"
  /\ ~f_promoted
  /\ f_datagram.key # NoKey
  /\ LET next == Push(buffer, f_datagram)
         gone == (Ids(buffer.datagrams) \cup {f_datagram.id}) \ Ids(next.datagrams)
     IN  /\ buffer' = next
         /\ fate' = [i \in DOMAIN fate |->
                       IF i \in gone THEN Append(fate[i], "discarded") ELSE fate[i]]
  /\ f_mutation' = Mutation(buffer, f_datagram)
  /\ f_datagram' = Idle
  /\ f_pc' = "pushed"
  /\ UNCHANGED <<now, promoted, gauge, offered, f_promoted, l_pc, l_batch, l_removed>>

\* fetch_add on the gauge, after the lock was released ...
GaugeAdd ==
  /\ f_pc = "pushed"
  /\ gauge' = gauge + f_mutation.added
  /\ f_pc' = "added"
  /\ UNCHANGED <<now, promoted, buffer, offered, f_datagram, f_promoted, f_mutation,
                 l_pc, l_batch, l_removed, fate>>

\* ... and atomic_saturating_sub of what the push removed.
SaturatingSub(a, b) == IF a >= b THEN a - b ELSE 0

GaugeSub ==
  /\ f_pc = "added"
  /\ gauge' = SaturatingSub(gauge, f_mutation.removed)
  /\ f_mutation' = NoMutation
  /\ f_pc' = "idle"
  /\ UNCHANGED <<now, promoted, buffer, offered, f_datagram, f_promoted,
                 l_pc, l_batch, l_removed, fate>>

(***************************************************************************)
(* The listener task: apply_failover_mode and replay_warm_sources.         *)
(***************************************************************************)

\* A promotion is applied: the flag is swapped before the buffer is drained.
Promote ==
  /\ l_pc = "idle"
  /\ ~promoted
  /\ promoted' = TRUE
  /\ l_pc' = "promoted"
  /\ UNCHANGED <<now, buffer, gauge, offered, f_pc, f_datagram, f_promoted, f_mutation,
                 l_batch, l_removed, fate>>

\* A demotion command or an expired lease.
Demote ==
  /\ l_pc = "idle"
  /\ promoted
  /\ promoted' = FALSE
  /\ UNCHANGED <<now, buffer, gauge, offered, f_pc, f_datagram, f_promoted, f_mutation,
                 l_pc, l_batch, l_removed, fate>>

\* A take_live that leaves the datagrams in the buffer as well.
BugTakeLiveCopies ==
  /\ l_pc = "promoted"
  /\ l_batch' = Subsequence(buffer.datagrams, Live(buffer.datagrams))
  /\ l_removed' = Len(buffer.datagrams)
  /\ l_pc' = "drained"
  /\ UNCHANGED <<now, promoted, buffer, gauge, offered, f_pc, f_datagram, f_promoted,
                 f_mutation, fate>>

\* WarmSourceReplayBuffer::take_live, under the lock.
TakeLive ==
  /\ l_pc = "promoted"
  /\ l_batch' = Subsequence(buffer.datagrams, Live(buffer.datagrams))
  /\ l_removed' = Len(buffer.datagrams)
  /\ fate' = [i \in DOMAIN fate |->
                IF i \in Ids(Subsequence(buffer.datagrams, Late(buffer.datagrams)))
                  THEN Append(fate[i], "discarded") ELSE fate[i]]
  /\ buffer' = EmptyBuffer
  /\ l_pc' = "drained"
  /\ UNCHANGED <<now, promoted, gauge, offered, f_pc, f_datagram, f_promoted, f_mutation>>

\* atomic_saturating_sub of what take_live removed, after the lock was released.
GaugeDrained ==
  /\ l_pc = "drained"
  /\ gauge' = SaturatingSub(gauge, l_removed)
  /\ l_removed' = 0
  /\ l_pc' = "sending"
  /\ UNCHANGED <<now, promoted, buffer, offered, f_pc, f_datagram, f_promoted, f_mutation,
                 l_batch, fate>>

\* The batch leaves one datagram at a time; then the listener is free again.
ReplaySend ==
  /\ l_pc = "sending"
  /\ l_batch # <<>>
  /\ fate' = [fate EXCEPT ![Head(l_batch).id] = Append(@, "sent")]
  /\ l_batch' = Tail(l_batch)
  /\ UNCHANGED <<now, promoted, buffer, gauge, offered, f_pc, f_datagram, f_promoted,
                 f_mutation, l_pc, l_removed>>

ReplayDone ==
  /\ l_pc = "sending"
  /\ l_batch = <<>>
  /\ l_pc' = "idle"
  /\ UNCHANGED <<now, promoted, buffer, gauge, offered, f_pc, f_datagram, f_promoted,
                 f_mutation, l_batch, l_removed, fate>>

Elapse ==
  /\ now < MaxTime
  /\ now' = now + 1
  /\ UNCHANGED <<promoted, buffer, gauge, offered, f_pc, f_datagram, f_promoted, f_mutation,
                 l_pc, l_batch, l_removed, fate>>

-----------------------------------------------------------------------------
Init ==
  /\ now = 0
  /\ promoted = FALSE
  /\ buffer = EmptyBuffer
  /\ gauge = 0
  /\ offered = 0
  /\ f_pc = "idle"
  /\ f_datagram = Idle
  /\ f_promoted = FALSE
  /\ f_mutation = NoMutation
  /\ l_pc = "idle"
  /\ l_batch = <<>>
  /\ l_removed = 0
  /\ fate = [i \in 1..MaxOffered |-> <<>>]

Next ==
  \/ \E key \in Keys \cup {NoKey}, size \in Sizes : Load(key, size)
  \/ SendSource
  \/ FilterSource
  \/ BufferSource
  \/ GaugeAdd
  \/ GaugeSub
  \/ Promote
  \/ Demote
  \/ TakeLive
  \/ GaugeDrained
  \/ ReplaySend
  \/ ReplayDone
  \/ Elapse

Spec == Init /\ [][Next]_vars

-----------------------------------------------------------------------------
(***************************************************************************)
(* Properties.                                                             *)
(***************************************************************************)
\* The values every variable ranges over.
TypeOK ==
  /\ now \in 0..MaxTime
  /\ promoted \in BOOLEAN
  /\ buffer.datagrams \in Seq(Datagram)
  /\ buffer.object_order \in Seq(Keys)
  /\ buffer.bytes \in Nat
  /\ gauge \in Nat
  /\ offered \in 0..MaxOffered
  /\ f_pc \in {"idle", "loaded", "pushed", "added"}
  /\ f_datagram \in Datagram \cup {Idle}
  /\ f_promoted \in BOOLEAN
  /\ f_mutation \in [added : 0..1, removed : Nat]
  /\ l_pc \in {"idle", "promoted", "drained", "sending"}
  /\ l_batch \in Seq(Datagram)
  /\ l_removed \in Nat
  /\ fate \in [1..MaxOffered -> Seq({"sent", "filtered", "discarded"})]

\* "Warm relays retain at most four objects, 2,048 datagrams, and 4 MiB for
\* each child", and the incremental accounting is exact: bytes is the sum of
\* the retained wire lengths, and object_order lists each retained object once,
\* oldest retained arrival of the window first.
BufferWithinBounds ==
  /\ Len(buffer.object_order) <= MaxObjects
  /\ Len(buffer.datagrams) <= MaxDatagrams
  /\ buffer.bytes <= MaxBytes
  /\ buffer.bytes = TotalSize(buffer.datagrams)
  /\ ToSet(buffer.object_order) = KeysOf(buffer.datagrams)
  /\ Len(buffer.object_order) = Cardinality(KeysOf(buffer.datagrams))

\* Every admitted source datagram has one fate: it is still on its way
\* (being forwarded, retained or in the batch being replayed), or it was
\* sent, filtered or discarded, once.  Nothing is sent twice and nothing
\* disappears without being counted, however the two tasks interleave.
OneFate ==
  \A i \in 1..offered :
    LET places == (IF f_datagram.id = i THEN 1 ELSE 0)
                    + Cardinality({j \in DOMAIN buffer.datagrams : buffer.datagrams[j].id = i})
                    + Cardinality({j \in DOMAIN l_batch : l_batch[j].id = i})
    IN  places + Len(fate[i]) = 1

\* A replay in progress is never overtaken by a demotion: the listener sends
\* its batch only while the child is promoted.
ReplayOnlyWhilePromoted == l_pc # "idle" => promoted

\* The flag is swapped before the buffer is drained, so the read of the flag
\* and the push can straddle a promotion - but for one datagram only: what a
\* promoted child still has in its buffer is what the ingest task was
\* forwarding at that moment.
AtMostOneStranded ==
  promoted /\ l_pc \in {"drained", "sending", "idle"} => Len(buffer.datagrams) <= 1

\* Updated outside the lock and with saturating subtraction, the gauge can
\* drift - upwards only: with both tasks at rest it never hides a retained
\* datagram.
GaugeNeverUnderReports ==
  f_pc = "idle" /\ l_pc = "idle" => gauge >= Len(buffer.datagrams)

\* Forwarding and replay interleaved at every lock and atomic access
\* (main.rs:2480-2560, 2644-2855): each datagram has one fate, at most one is left
\* behind, and buffer and gauge keep their bounds.
ReplaySound ==
  /\ TypeOK /\ BufferWithinBounds /\ OneFate
  /\ ReplayOnlyWhilePromoted /\ AtMostOneStranded /\ GaugeNeverUnderReports
=============================================================================
