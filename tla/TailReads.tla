------------------------------- MODULE TailReads -------------------------------
(***************************************************************************)
(* Low-latency tail reads of an edge and what EdgeLoad counts of them      *)
(* (src/src/main.rs).  A bundle waits for the same range of parts of every *)
(* stream, one stream after the other under one deadline; a batch waits    *)
(* for a range of one stream that begins at the first part it finds; a     *)
(* bundle stream repeats bundles from a cursor for as long as its client   *)
(* takes them.  Each holds an EdgeReadGuard, which is dropped wherever the *)
(* request ends, also when its task is cancelled at an await.              *)
(*                                                                         *)
(* Abstractions: a part is one byte; parts reach the cache of the mesh in  *)
(* any order and leave it when a part a window ahead arrives; headers and  *)
(* content types are left out; a batch's scan of the slots is one step.    *)
(* A client counts as having got a frame when send_data has returned, and  *)
(* a response when the handler has returned it: the task does not await    *)
(* between either and the count.  What the connection does with the bytes  *)
(* is not modelled.                                                        *)
(***************************************************************************)
EXTENDS Integers, Sequences, FiniteSets, FiniteSetsExt

CONSTANTS TailStreams,   \* the streams of a bundle, a sequence
          TailReaders,
          TailWindow,    \* slots the cache keeps of a stream
          MaxTailParts,  \* MAX_LLHLS_TAIL_PARTS
          TailPartLimit, \* bound: sequence numbers
          TailByteLimit  \* bound: no request begins after so many bytes

ASSUME TailAssumption ==
    /\ TailStreams \in Seq(STRING) /\ Len(TailStreams) > 0
    /\ TailWindow \in Nat \ {0} /\ {MaxTailParts, TailPartLimit, TailByteLimit} \subseteq Nat

VARIABLES tail_parts,      \* stream -> sequences in the cache
          tail_readers,    \* reader -> the request it serves
          active_readers,  \* EdgeLoadInner
          bytes_served,
          tail_sent,       \* history: reader -> sequences its client got in this request
          bytes_sent       \* history: bytes all clients got

tailVars == <<tail_parts, tail_readers, active_readers, bytes_served, tail_sent, bytes_sent>>

NoRead == [kind |-> "none"]
NoCursor == 0   \* a batch that names no part: from=0, or neither from nor after
TailStreamSet == {TailStreams[i] : i \in DOMAIN TailStreams}

\* The streams a request of this kind reads.
StreamsOf(kind) == IF kind = "batch" THEN SubSeq(TailStreams, 1, 1) ELSE TailStreams
-----------------------------------------------------------------------------
\* external: the cache keeps a window of slots below the highest part.
PartArrives(s, q) ==
    /\ q \notin tail_parts[s]
    /\ \A o \in tail_parts[s] : o - q < TailWindow
    /\ tail_parts' = [tail_parts EXCEPT ![s] = {o \in @ : q - o < TailWindow} \cup {q}]
    /\ UNCHANGED <<tail_readers, active_readers, bytes_served, tail_sent, bytes_sent>>

\* begin_read: the guard is taken.
Begins(r, kind, start, count) ==
    /\ tail_readers[r] = NoRead /\ bytes_sent < TailByteLimit
    /\ tail_readers' = [tail_readers EXCEPT ![r] =
          [kind |-> kind, start |-> start, count |-> count, found |-> kind # "batch",
           index |-> 1, sent |-> 0]]
    /\ active_readers' = active_readers + 1
    /\ tail_sent' = [tail_sent EXCEPT ![r] = {}]
    /\ UNCHANGED <<tail_parts, bytes_served, bytes_sent>>

\* A bundle or a batch whose query is valid.
BeginRead(r, kind, start, count) == Begins(r, kind, start, count)

\* A bundle stream: its response is sent and recorded before the guard is taken.
BeginStream(r, start, count) == Begins(r, "stream", start, count)

\* next_part_after_for_stream_id: the batch begins at the first part at or after
\* its cursor; without one at the oldest part (from=0) or at the newest.
FindFirst(r) ==
    LET d == tail_readers[r]
        ahead == {q \in tail_parts[TailStreams[1]] : q >= d.start}
    IN  /\ d # NoRead /\ ~d.found
        /\ \E q \in ahead :
              /\ q = Min(ahead) \/ (d.start = NoCursor /\ q = Max(ahead))
              /\ tail_readers' = [tail_readers EXCEPT ![r].start = q, ![r].found = TRUE]
        /\ UNCHANGED <<tail_parts, active_readers, bytes_served, tail_sent, bytes_sent>>

RangeOf(d) == d.start .. (d.start + d.count - 1)

Reading(r) == /\ tail_readers[r] # NoRead /\ tail_readers[r].found
              /\ tail_readers[r].index <= Len(StreamsOf(tail_readers[r].kind))

\* read_part_until_for_stream_id: the wait for the last part of a range is over.
LastThere(d) == d.start + d.count - 1 \in tail_parts[StreamsOf(d.kind)[d.index]]

\* exact_part_batch_until_for_stream_id: the last part of the range is there, and
\* the range is read whole.
ReadRange(r) ==
    LET d == tail_readers[r]
    IN  /\ Reading(r) /\ LastThere(d)
        /\ RangeOf(d) \subseteq tail_parts[StreamsOf(d.kind)[d.index]]
        /\ tail_readers' = [tail_readers EXCEPT ![r].index = @ + 1]
        /\ UNCHANGED <<tail_parts, active_readers, bytes_served, tail_sent, bytes_sent>>

\* EdgeReadGuard::finish and the drop that follows.
Finished(bytes, d) == bytes_served + Max({bytes - d.sent, 0})

Ends(r) ==
    /\ tail_readers' = [tail_readers EXCEPT ![r] = NoRead]
    /\ active_readers' = active_readers - 1

\* A round that was given up moves the cursor on.
BugRestarted(d) == [d EXCEPT !.index = 1, !.start = @ + d.count]

\* A stream tries the same cursor again.
Restarted(d) == [d EXCEPT !.index = 1]

\* The deadline passes, or the last part is there and another one is missing:
\* 204 for a request, another turn for a stream.
NothingRead(r) ==
    LET d == tail_readers[r]
    IN  /\ d # NoRead
        /\ IF Reading(r) THEN ~(RangeOf(d) \subseteq tail_parts[StreamsOf(d.kind)[d.index]])
           ELSE ~d.found
        /\ IF d.kind = "stream"
           THEN /\ tail_readers' = [tail_readers EXCEPT ![r] = Restarted(d)]
                /\ UNCHANGED active_readers
           ELSE Ends(r)
        /\ bytes_served' = IF d.kind = "stream" THEN bytes_served ELSE Finished(0, d)
        /\ UNCHANGED <<tail_parts, tail_sent, bytes_sent>>

Complete(r) == tail_readers[r] # NoRead /\ tail_readers[r].found /\ ~Reading(r)

BytesOfRange(d) == d.count * Len(StreamsOf(d.kind))

\* The response of a bundle or a batch.
Respond(r) ==
    LET d == tail_readers[r]
    IN  /\ Complete(r) /\ d.kind # "stream"
        /\ bytes_served' = Finished(BytesOfRange(d), d)
        /\ tail_sent' = [tail_sent EXCEPT ![r] = RangeOf(d)]
        /\ bytes_sent' = bytes_sent + BytesOfRange(d)
        /\ Ends(r)
        /\ UNCHANGED tail_parts

\* A frame of a stream goes out and is counted, and the cursor moves on.
SendFrame(r) ==
    LET d == tail_readers[r]
    IN  /\ Complete(r) /\ d.kind = "stream"
        /\ bytes_served' = bytes_served + BytesOfRange(d)
        /\ tail_sent' = [tail_sent EXCEPT ![r] = @ \cup RangeOf(d)]
        /\ bytes_sent' = bytes_sent + BytesOfRange(d)
        /\ tail_readers' = [tail_readers EXCEPT ![r] =
              [d EXCEPT !.index = 1, !.start = @ + d.count, !.sent = @ + BytesOfRange(d)]]
        /\ UNCHANGED <<tail_parts, active_readers>>

\* The client is gone: finish counts what record_bytes has not counted.
SendFails(r) ==
    LET d == tail_readers[r]
    IN  /\ Complete(r) /\ d.kind = "stream"
        /\ bytes_served' = Finished(d.sent, d)
        /\ Ends(r)
        /\ UNCHANGED <<tail_parts, tail_sent, bytes_sent>>

\* The server drops the request's task: the guard's destructor runs alone.
CancelRead(r) ==
    /\ tail_readers[r] # NoRead
    /\ Ends(r)
    /\ UNCHANGED <<tail_parts, bytes_served, tail_sent, bytes_sent>>

TailInit ==
    /\ tail_parts = [s \in TailStreamSet |-> {}]
    /\ tail_readers = [r \in TailReaders |-> NoRead]
    /\ active_readers = 0 /\ bytes_served = 0 /\ bytes_sent = 0
    /\ tail_sent = [r \in TailReaders |-> {}]

TailNext ==
    \/ \E s \in TailStreamSet, q \in 1 .. TailPartLimit : PartArrives(s, q)
    \/ \E r \in TailReaders :
          \/ \E start \in 1 .. TailPartLimit, count \in 1 .. MaxTailParts :
                BeginRead(r, "bundle", start, count) \/ BeginStream(r, start, count)
          \/ \E start \in {NoCursor} \cup 1 .. TailPartLimit, count \in 1 .. MaxTailParts :
                BeginRead(r, "batch", start, count)
          \/ FindFirst(r) \/ ReadRange(r) \/ NothingRead(r) \/ Respond(r)
          \/ SendFrame(r) \/ SendFails(r) \/ CancelRead(r)

TailSpec == TailInit /\ [][TailNext]_tailVars
-----------------------------------------------------------------------------
\* The type of the tail readers.
TailTypeOK ==
    /\ tail_parts \in [TailStreamSet -> SUBSET (1 .. TailPartLimit)]
    /\ active_readers \in Nat /\ bytes_served \in Nat
    /\ \A r \in TailReaders : tail_readers[r].kind \in {"none", "bundle", "batch", "stream"}

\* The gauge the fleet plans with counts the requests in progress, and the bytes
\* counted are the bytes the clients got, once, wherever a request ends
\* (main.rs:7482-7495, 7629-7660, 12365-12390, 12830-12868).
LoadCountsExact ==
    /\ active_readers = Cardinality({r \in TailReaders : tail_readers[r] # NoRead})
    /\ bytes_served = bytes_sent

\* What a stream's client got is the run of parts up to its cursor, without a hole,
\* although each bundle is gathered over several waits and may be given up half way
\* (main.rs:12836-12866).
StreamHasNoHole ==
    \A r \in TailReaders : tail_readers[r].kind = "stream" /\ tail_sent[r] # {} =>
        tail_sent[r] = Min(tail_sent[r]) .. (tail_readers[r].start - 1)

\* Tail requests and streams, their type included.
TailSound == TailTypeOK /\ LoadCountsExact /\ StreamHasNoHole
=============================================================================
