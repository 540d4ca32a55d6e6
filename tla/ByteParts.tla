------------------------------- MODULE ByteParts -------------------------------
(***************************************************************************)
(* The byte parts of LiveTsCache (src/src/main.rs): payloads without a     *)
(* stream prefix are gathered into parts of the configured stream, those   *)
(* with one are parts of their own; HTTP handlers read a part or a segment *)
(* and wait for what is not there yet.                                     *)
(*                                                                         *)
(* One task commits (run_udp_fec_ingest): a part is taken under the state  *)
(* lock, written to the chunk cache without it, and recorded under it      *)
(* again.  Readers interleave with each of these steps.                    *)
(*                                                                         *)
(* Abstractions: a payload is one byte, numbered within its stream;        *)
(* canonical objects and media kinds are LiveStream's; reads of keyframe-  *)
(* aligned segments are left out; a prefixed payload never names the       *)
(* configured stream.  A slot disappears only when a part a window ahead   *)
(* is written.                                                             *)
(***************************************************************************)
EXTENDS Integers, Sequences, FiniteSets, FiniteSetsExt, Functions, Maps

CONSTANTS ByteStream,        \* the configured stream_id
          PrefixedStreams,   \* streams whose payloads carry their id
          PartTarget,        \* part_target
          MaxPartBytes,      \* max_part_bytes
          SegmentParts,      \* parts_per_segment
          PartWindow,        \* window_parts, and the slots of the cache
          PartReaders,
          ByteLimit,         \* bound: payloads received
          PartTimeLimit      \* bound: the clock stops here

ASSUME BytePartsAssumption ==
    /\ ByteStream \notin PrefixedStreams /\ IsFiniteSet(PrefixedStreams)
    /\ {PartTarget, ByteLimit, PartTimeLimit} \subseteq Nat
    /\ {MaxPartBytes, SegmentParts, PartWindow} \subseteq Nat \ {0}

NoPart == -1
PartStreams == PrefixedStreams \cup {ByteStream}

VARIABLES gathered,         \* LiveState.current
          gathered_since,   \* current_started
          next_seq,         \* stream -> next_seq or stream_next_seq
          bytes_received,   \* bytes_received, by the stream they were for
          last_committed,   \* last_committed_seq, of whatever stream
          part_cache,       \* stream -> sequence -> bytes of the slot
          recorded,         \* stream -> sequences in stream_parts
          committer,        \* the part the ingest task is committing
          ingest_ended,     \* "no", "shutdown" or "failed"
          part_readers,     \* reader -> its request
          part_now,
          bytes_lost        \* history: bytes of parts the cache refused

partVars == <<gathered, gathered_since, next_seq, bytes_received, last_committed, part_cache,
              recorded, committer, ingest_ended, part_readers, part_now, bytes_lost>>

NoCommit == [step |-> "idle"]
BytesReceived == SumFunctionOnSet(bytes_received, PartStreams)
TaskIdle == committer = NoCommit /\ ingest_ended = "no"
-----------------------------------------------------------------------------

\* take_current of a non-empty buffer: the part leaves it under the lock.
TakeCurrent(bytes, origin) ==
    /\ committer' = [step |-> "write", stream |-> ByteStream, seq |-> next_seq[ByteStream],
                     data |-> bytes, origin |-> origin]
    /\ next_seq' = [next_seq EXCEPT ![ByteStream] = @ + 1]
    /\ gathered' = <<>>
    /\ gathered_since' = part_now

PushPayload ==
    LET bytes == Append(gathered, bytes_received[ByteStream] + 1)
        since == IF gathered = <<>> THEN part_now ELSE gathered_since
    IN  /\ TaskIdle /\ BytesReceived < ByteLimit
        /\ bytes_received' = [bytes_received EXCEPT ![ByteStream] = @ + 1]
        /\ IF part_now - since >= PartTarget \/ Len(bytes) >= MaxPartBytes
           THEN TakeCurrent(bytes, "push")
           ELSE /\ gathered' = bytes /\ gathered_since' = since
                /\ UNCHANGED <<next_seq, committer>>
        /\ UNCHANGED <<last_committed, part_cache, recorded, ingest_ended, part_readers,
                       part_now, bytes_lost>>

\* The tick of the loop, or its shutdown, which forces the part out.
RotateIfDue(force) ==
    /\ TaskIdle
    /\ IF (force \/ part_now - gathered_since >= PartTarget) /\ gathered # <<>>
       THEN TakeCurrent(gathered, IF force THEN "shutdown" ELSE "tick")
       ELSE /\ gathered_since' = IF force \/ part_now - gathered_since >= PartTarget
                                 THEN part_now ELSE gathered_since
            /\ UNCHANGED <<gathered, next_seq, committer>>
    /\ ingest_ended' = IF force /\ gathered = <<>> THEN "shutdown" ELSE "no"
    /\ UNCHANGED <<bytes_received, last_committed, part_cache, recorded, part_readers, part_now,
                   bytes_lost>>

\* commit_stream_payload_inner of a payload that is no canonical object:
\* next_stream_seq under the lock.
CommitPrefixed(s) ==
    /\ TaskIdle /\ BytesReceived < ByteLimit
    /\ bytes_received' = [bytes_received EXCEPT ![s] = @ + 1]
    /\ committer' = [step |-> "write", stream |-> s, seq |-> next_seq[s],
                     data |-> <<bytes_received[s] + 1>>, origin |-> "push"]
    /\ next_seq' = [next_seq EXCEPT ![s] = @ + 1]
    /\ UNCHANGED <<gathered, gathered_since, last_committed, part_cache, recorded, ingest_ended,
                   part_readers, part_now, bytes_lost>>

\* external: the cache keeps a window of slots and wakes whoever waits for this one.
Written(slots, q, data) ==
    [o \in {o \in DOMAIN slots : q - o < PartWindow} \cup {q} |-> IF o = q THEN data ELSE slots[o]]

WakeWaiters(s, q) ==
    [r \in PartReaders |->
        IF part_readers[r].step \in {"recheck", "wait"} /\ part_readers[r].stream = s
             /\ part_readers[r].seq = q
        THEN [part_readers[r] EXCEPT !.notified = TRUE] ELSE part_readers[r]]

WritePart ==
    LET c == committer
    IN  /\ c.step = "write"
        /\ part_cache' = [part_cache EXCEPT ![c.stream] = Written(@, c.seq, c.data)]
        /\ part_readers' = WakeWaiters(c.stream, c.seq)
        /\ committer' = [c EXCEPT !.step = "record"]
        /\ UNCHANGED <<gathered, gathered_since, next_seq, bytes_received, last_committed,
                       recorded, ingest_ended, part_now, bytes_lost>>

\* The loop ends once the part of its shutdown is out.
EndOf(origin) == IF origin = "shutdown" THEN "shutdown" ELSE "no"

\* The cache refuses the part.  A failed payload is logged; a failed tick ends
\* the ingest task with the error.
WriteFails ==
    /\ committer.step = "write"
    /\ bytes_lost' = bytes_lost + Len(committer.data)
    /\ committer' = NoCommit
    /\ ingest_ended' = IF committer.origin = "push" THEN "no" ELSE "failed"
    /\ UNCHANGED <<gathered, gathered_since, next_seq, bytes_received, last_committed, part_cache,
                   recorded, part_readers, part_now>>

\* A part of the configured stream becomes the last one even when a prefixed
\* stream has reached a higher sequence; a prefixed part only ever raises it.
LastCommitted(s, q) == IF s = ByteStream THEN q ELSE Max({q, last_committed})

RecordedWith(S, q) == {o \in S \cup {q} : Max(S \cup {q}) - o < PartWindow}

RecordWritten ==
    LET c == committer
    IN  /\ c.step = "record"
        /\ last_committed' = LastCommitted(c.stream, c.seq)
        /\ recorded' = [recorded EXCEPT ![c.stream] = RecordedWith(@, c.seq)]
        /\ committer' = NoCommit
        /\ ingest_ended' = EndOf(c.origin)
        /\ UNCHANGED <<gathered, gathered_since, next_seq, bytes_received, part_cache,
                       part_readers, part_now, bytes_lost>>
-----------------------------------------------------------------------------
NoRequest == [step |-> "idle"]

\* GET of a part, or of a segment of SegmentParts parts.
RequestPart(r, s, q) ==
    /\ part_readers[r] = NoRequest
    /\ part_readers' = [part_readers EXCEPT ![r] =
          [step |-> "lookup", stream |-> s, seq |-> q, end |-> q, body |-> <<>>,
           notified |-> FALSE]]
    /\ UNCHANGED <<gathered, gathered_since, next_seq, bytes_received, last_committed, part_cache,
                   recorded, committer, ingest_ended, part_now, bytes_lost>>

RequestSegment(r, s, g) ==
    /\ part_readers[r] = NoRequest
    /\ part_readers' = [part_readers EXCEPT ![r] =
          [step |-> "lookup", stream |-> s, seq |-> g * SegmentParts,
           end |-> (g + 1) * SegmentParts - 1, body |-> <<>>, notified |-> FALSE]]
    /\ UNCHANGED <<gathered, gathered_since, next_seq, bytes_received, last_committed, part_cache,
                   recorded, committer, ingest_ended, part_now, bytes_lost>>

Available(d) == d.seq \in DOMAIN part_cache[d.stream]

\* The part is appended to the body, and the next one of the segment looked up.
Taken(d) ==
    [d EXCEPT !.body = @ \o part_cache[d.stream][d.seq],
              !.seq = IF d.seq = d.end THEN @ ELSE @ + 1,
              !.step = IF d.seq = d.end THEN "served" ELSE "lookup",
              !.notified = FALSE]

\* The first lookup: the part, or a waiter for its slot.
LookUpPart(r) ==
    LET d == part_readers[r]
    IN  /\ d.step = "lookup"
        /\ part_readers' = [part_readers EXCEPT ![r] =
              IF Available(d) THEN Taken(d) ELSE [d EXCEPT !.step = "register"]]
        /\ UNCHANGED <<gathered, gathered_since, next_seq, bytes_received, last_committed,
                       part_cache, recorded, committer, ingest_ended, part_now, bytes_lost>>

\* A waiter that does not look again before it waits.
BugRegistered(d) == [d EXCEPT !.step = "wait", !.notified = FALSE]

Registered(d) == [d EXCEPT !.step = "recheck", !.notified = FALSE]

\* notified.enable(): from here on a write of the slot is not missed.  The
\* cache may have no waiter to give: the request ends with nothing.
RegisterWaiter(r, given) ==
    LET d == part_readers[r]
    IN  /\ d.step = "register"
        /\ part_readers' = [part_readers EXCEPT ![r] = IF given THEN Registered(d) ELSE NoRequest]
        /\ UNCHANGED <<gathered, gathered_since, next_seq, bytes_received, last_committed,
                       part_cache, recorded, committer, ingest_ended, part_now, bytes_lost>>

RecheckPart(r) ==
    LET d == part_readers[r]
    IN  /\ d.step = "recheck"
        /\ part_readers' = [part_readers EXCEPT ![r] =
              IF Available(d) THEN Taken(d) ELSE [d EXCEPT !.step = "wait"]]
        /\ UNCHANGED <<gathered, gathered_since, next_seq, bytes_received, last_committed,
                       part_cache, recorded, committer, ingest_ended, part_now, bytes_lost>>

\* The waiter is woken and looks again, or PART_WAIT_MS have passed: 404, which
\* a wake-up that comes with the deadline does not prevent.
WakeOrGiveUp(r, in_time) ==
    LET d == part_readers[r]
    IN  /\ d.step = "wait" /\ (in_time => d.notified)
        /\ part_readers' = [part_readers EXCEPT ![r] =
              IF in_time THEN [d EXCEPT !.step = "lookup", !.notified = FALSE] ELSE NoRequest]
        /\ UNCHANGED <<gathered, gathered_since, next_seq, bytes_received, last_committed,
                       part_cache, recorded, committer, ingest_ended, part_now, bytes_lost>>

\* 200 with the body; what is not there ended in 404 above.
ServePart(r) ==
    /\ part_readers[r].step = "served"
    /\ part_readers' = [part_readers EXCEPT ![r] = NoRequest]
    /\ UNCHANGED <<gathered, gathered_since, next_seq, bytes_received, last_committed, part_cache,
                   recorded, committer, ingest_ended, part_now, bytes_lost>>

PartElapse ==
    /\ part_now < PartTimeLimit
    /\ part_now' = part_now + 1
    /\ UNCHANGED <<gathered, gathered_since, next_seq, bytes_received, last_committed, part_cache,
                   recorded, committer, ingest_ended, part_readers, bytes_lost>>

PartsInit ==
    /\ gathered = <<>> /\ gathered_since = 0 /\ part_now = 0
    /\ next_seq = [s \in PartStreams |-> 0]
    /\ bytes_received = [s \in PartStreams |-> 0] /\ bytes_lost = 0
    /\ last_committed = NoPart
    /\ part_cache = [s \in PartStreams |-> EmptyMap]
    /\ recorded = [s \in PartStreams |-> {}]
    /\ committer = NoCommit /\ ingest_ended = "no"
    /\ part_readers = [r \in PartReaders |-> NoRequest]

PartsNext ==
    \/ PushPayload \/ WritePart \/ WriteFails \/ RecordWritten \/ PartElapse
    \/ \E force \in BOOLEAN : RotateIfDue(force)
    \/ \E s \in PrefixedStreams : CommitPrefixed(s)
    \/ \E r \in PartReaders :
          \/ \E s \in PartStreams, q \in 0 .. ByteLimit : RequestPart(r, s, q)
          \/ \E s \in PartStreams, g \in 0 .. ByteLimit \div SegmentParts : RequestSegment(r, s, g)
          \/ LookUpPart(r) \/ RecheckPart(r) \/ ServePart(r)
          \/ \E in_time \in BOOLEAN : WakeOrGiveUp(r, in_time)
          \/ \E given \in BOOLEAN : RegisterWaiter(r, given)

PartsSpec == PartsInit /\ [][PartsNext]_partVars
-----------------------------------------------------------------------------
BytesIn(slots) == SumFunctionOnSet([q \in DOMAIN slots |-> Len(slots[q])], DOMAIN slots)
CachedBytes == SumFunctionOnSet([s \in PartStreams |-> BytesIn(part_cache[s])], PartStreams)
Committing == IF committer.step = "write" THEN Len(committer.data) ELSE 0

\* No byte is in two places at once, and while nothing has left the window each
\* one received is gathered, being committed, cached or lost with a failed write
\* (main.rs:4305-4384, 4655-4713, 6321-6346).
BytesConserved ==
    LET all == Len(gathered) + Committing + CachedBytes + bytes_lost
    IN  /\ all <= BytesReceived
        /\ (\A s \in PartStreams : next_seq[s] <= PartWindow) => all = BytesReceived

\* What a reader has of the configured stream is a run of consecutive bytes,
\* although a segment is gathered over several waits, parts are evicted
\* meanwhile and a failed write leaves a sequence without a part
\* (main.rs:5674-5731).
SegmentIsRun ==
    \A r \in PartReaders :
        part_readers[r] # NoRequest /\ part_readers[r].stream = ByteStream =>
            \A i \in 1 .. Len(part_readers[r].body) - 1 :
                part_readers[r].body[i + 1] = part_readers[r].body[i] + 1

\* A reader asleep on a part that is in the cache has been woken: a write between
\* its lookup and its registration is not missed (main.rs:5600-5630, 5642-5672).
NoMissedPart ==
    \A r \in PartReaders : part_readers[r].step = "wait" /\ Available(part_readers[r]) =>
        part_readers[r].notified

\* A recorded part is in the cache, except that between the write of a part and
\* its record the window of the cache is ahead (main.rs:4353-4384).
RecordedIsCached ==
    \A s \in PartStreams : \/ recorded[s] \subseteq DOMAIN part_cache[s]
                           \/ committer.step = "record" /\ committer.stream = s

\* The byte parts, their type included.
BytePartsCorrect ==
    /\ Len(gathered) < MaxPartBytes /\ last_committed \in Nat \cup {NoPart}
    /\ ingest_ended \in {"no", "shutdown", "failed"} /\ next_seq \in [PartStreams -> Nat]
    /\ BytesConserved /\ SegmentIsRun /\ NoMissedPart /\ RecordedIsCached
=============================================================================
