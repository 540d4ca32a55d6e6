---------------------------- MODULE UdpFecReceiver ----------------------------
(***************************************************************************)
(* The bounded receiver of live RaptorQ datagrams (src/src/udp_fec.rs).    *)
(* Every flow (a peer, with or without a stream prefix) keeps a sequence   *)
(* tracker, the number of its objects in flight and the tombstones of the  *)
(* objects it decoded last; every object in flight keeps its own decoder.  *)
(* A datagram passes a ladder of limits before it may reserve anything,    *)
(* and an expiry scan runs at most once an interval, in front of a         *)
(* datagram or from the ingest loop's tick.                                *)
(*                                                                         *)
(* Abstractions: a datagram is its flow, block, packet sequence and        *)
(* transfer length, or the verdict "oversize" / "malformed"; the RaptorQ   *)
(* decoder answers "decoded", "more" or "error" as it pleases; sequence    *)
(* numbers are modulo SequenceModulus instead of 2^32.                     *)
(***************************************************************************)
EXTENDS Integers, Sequences, SequencesExt, FiniteSets, FiniteSetsExt, Maps, SequenceTracker

CONSTANTS FecFlows,           \* FlowKey: (peer) or (peer, stream)
          FecBlocks,          \* block ids
          PacketSequences,    \* packet sequences a datagram may carry
          TransferLengths,    \* transfer lengths a header may announce
          MaxObjectBytes, MaxBufferedBytes, MaxFlows, MaxActiveObjects,
          MaxObjectsPerFlow, MaxCompletedPerFlow, MaxDatagramsPerObject,
          MaxBufferedDatagrams,
          ObjectTimeout, FlowTimeout, ScanEvery,
          FecTimeLimit,       \* bound: the clock stops here
          FecPushLimit        \* bound: datagrams handed to the receiver

ASSUME FecAssumption ==
    /\ {MaxObjectBytes, MaxBufferedBytes, MaxFlows, MaxActiveObjects, MaxObjectsPerFlow,
        MaxCompletedPerFlow, MaxDatagramsPerObject, MaxBufferedDatagrams,
        ObjectTimeout, FlowTimeout, ScanEvery, FecTimeLimit, FecPushLimit} \subseteq Nat
    /\ PacketSequences \subseteq 0 .. SequenceModulus - 1
    /\ TransferLengths \subseteq Nat

VARIABLES rx,          \* UdpFecReceiver
          fec_now,     \* Instant::now()
          decodings    \* history: per flow, the blocks decoded since it was created

fecVars == <<rx, fec_now, decodings>>
-----------------------------------------------------------------------------
NewFlow(now) == [tracker |-> NoTracker, active |-> 0, completed |-> <<>>, last |-> now]

NewObject(length, now) == [length |-> length, accepted |-> 0, last |-> now]

NoFecCounters == [received |-> 0, accepted |-> 0, rejected |-> 0, buffered |-> 0,
               duplicate |-> 0, decoded |-> 0]

\* A completed set that is full and forgets the new block.
BugMarkCompleted(completed, block) ==
    IF Len(completed) >= MaxCompletedPerFlow THEN completed ELSE Append(completed, block)

\* The completed set and its eviction order hold the same blocks: one sequence.
MarkCompleted(completed, block) ==
    IF MaxCompletedPerFlow = 0 \/ block \in Range(completed)
    THEN completed
    ELSE LET longer == Append(completed, block)
         IN  IF Len(longer) > MaxCompletedPerFlow THEN Tail(longer) ELSE longer

ObjectsOf(r, flow) == {key \in DOMAIN r.objects : key[1] = flow}

\* What the objects in flight have reserved.
ReservedBytes(r) == [key \in DOMAIN r.objects |-> r.objects[key].length]

ReservedDatagrams(r) == [key \in DOMAIN r.objects |-> r.objects[key].accepted]

LessActive(flow, n) == [flow EXCEPT !.active = @ - n]

\* remove_object for every key of a set: the reservations go back, and the
\* flows count the objects they have left.
RemoveObjects(r, keys) ==
    [r EXCEPT
        !.objects = Without(@, keys),
        !.bytes = @ - SumFunctionOnSet(ReservedBytes(r), keys),
        !.datagrams = @ - SumFunctionOnSet(ReservedDatagrams(r), keys),
        !.flows = [f \in DOMAIN @ |-> LessActive(@[f], Cardinality({k \in keys : k[1] = f}))]]

RemoveEmptyFlow(r, flow) ==
    IF r.flows[flow].active = 0 /\ r.flows[flow].completed = <<>>
    THEN [r EXCEPT !.flows = Without(@, {flow})]
    ELSE r

\* scan_inactive_at, then schedule_next_expiry_scan: idle objects first, so that
\* a flow may lose its last object and go in the same scan.
FecExpire(r, now) ==
    LET idle  == {k \in DOMAIN r.objects : now - r.objects[k].last >= ObjectTimeout}
        rest  == RemoveObjects(r, idle)
        quiet == {f \in DOMAIN rest.flows :
                     rest.flows[f].active = 0 /\ now - rest.flows[f].last >= FlowTimeout}
    IN  [rest EXCEPT !.flows = Without(@, quiet),
                     !.next_scan = now + Min({ScanEvery, ObjectTimeout, FlowTimeout})]

\* A scan that happens once.
BugFecExpireIfDue(r, now) == IF r.next_scan = -1 THEN FecExpire(r, now) ELSE r

\* expire_inactive_if_due; next_scan is -1 before the first scan.
FecExpireIfDue(r, now) == IF now < r.next_scan THEN r ELSE FecExpire(r, now)

-----------------------------------------------------------------------------
FecCount(r, field) == [r EXCEPT !.counters[field] = @ + 1]

\* reject: the error is counted and remembered.
FecReject(r, error) == FecCount([r EXCEPT !.last_error = error], "rejected")

Touch(r, flow, sequence, now) ==
    [r EXCEPT !.flows[flow].last = now,
              !.flows[flow].tracker = ObserveSequence(@, sequence)]

\* The ladder for a datagram of an object that is not in flight, in the order of
\* the code; "none" when the object may be admitted.
NewObjectRefusal(r, d) ==
    LET knownFlow == d.flow \in DOMAIN r.flows
    IN  IF ~knownFlow /\ Cardinality(DOMAIN r.flows) >= MaxFlows THEN "FlowLimitExceeded"
        ELSE IF Cardinality(DOMAIN r.objects) >= MaxActiveObjects THEN "ActiveObjectLimitExceeded"
        ELSE IF (IF knownFlow THEN r.flows[d.flow].active ELSE 0) >= MaxObjectsPerFlow
             THEN "FlowObjectLimitExceeded"
        ELSE IF r.bytes + d.length > MaxBufferedBytes THEN "BufferedObjectBytesLimitExceeded"
        ELSE "none"

MoreActive(flow) == [flow EXCEPT !.active = @ + 1]

AdmitObject(r, d, now) ==
    LET flow == IF d.flow \in DOMAIN r.flows THEN r.flows[d.flow] ELSE NewFlow(now)
    IN  [r EXCEPT !.flows = With(@, d.flow, MoreActive(flow)),
                  !.objects = With(@, <<d.flow, d.block>>, NewObject(d.length, now)),
                  !.bytes = @ + d.length]

\* The datagram is handed to the object's decoder, which answers `answer`.
FecDecode(r, d, answer, newFlow, now) ==
    LET key == <<d.flow, d.block>>
        fed == [Touch(r, d.flow, d.sequence, now) EXCEPT
                  !.objects[key].last = now,
                  !.objects[key].accepted = @ + 1,
                  !.datagrams = @ + 1]
    IN  CASE answer = "decoded" ->
               FecCount(FecCount([RemoveObjects(fed, {key}) EXCEPT
                              !.flows[d.flow].completed = MarkCompleted(@, d.block)],
                           "accepted"), "decoded")
          [] answer = "more" -> FecCount(FecCount(fed, "accepted"), "buffered")
          [] OTHER ->
               LET gone == RemoveObjects(fed, {key})
               IN  FecReject(IF newFlow THEN RemoveEmptyFlow(gone, d.flow) ELSE gone, "Fec")

\* try_push_payload_at after the expiry and the parse of a well-formed header.
FecPush(r, d, answer, now) ==
    LET key     == <<d.flow, d.block>>
        active  == key \in DOMAIN r.objects
        newFlow == d.flow \notin DOMAIN r.flows
    IN  IF d.length > MaxObjectBytes THEN FecReject(r, "ObjectTooLarge")
        ELSE IF ~newFlow /\ d.block \in Range(r.flows[d.flow].completed) THEN
               FecCount(FecCount(Touch(r, d.flow, d.sequence, now), "accepted"), "duplicate")
        ELSE IF r.datagrams >= MaxBufferedDatagrams THEN FecReject(r, "BufferedDatagramLimitExceeded")
        ELSE IF ~active /\ MaxDatagramsPerObject = 0 THEN FecReject(r, "ObjectDatagramLimitExceeded")
        ELSE IF active /\ r.objects[key].accepted >= MaxDatagramsPerObject THEN
               FecReject(RemoveObjects(r, {key}), "ObjectDatagramLimitExceeded")
        ELSE IF ~active /\ NewObjectRefusal(r, d) # "none" THEN FecReject(r, NewObjectRefusal(r, d))
        ELSE FecDecode(IF active THEN r ELSE AdmitObject(r, d, now), d, answer, newFlow, now)

FecDatagrams == [flow : FecFlows, block : FecBlocks, sequence : PacketSequences,
              length : TransferLengths]

\* History: what each live flow decoded, forgotten with the flow.
RecordDecodings(before, after, d) ==
    [f \in FecFlows |->
        IF f \notin DOMAIN after.flows THEN <<>>
        ELSE LET kept == IF f \in DOMAIN FecExpireIfDue(before, fec_now).flows
                         THEN decodings[f] ELSE <<>>
             IN  IF f = d.flow /\ after.counters.decoded > before.counters.decoded
                 THEN Append(kept, d.block) ELSE kept]

TryPushPayload(d, answer) ==
    /\ rx.counters.received < FecPushLimit
    /\ rx' = FecPush(FecCount(FecExpireIfDue(rx, fec_now), "received"), d, answer, fec_now)
    /\ decodings' = RecordDecodings(rx, rx', d)
    /\ UNCHANGED fec_now

\* A datagram above the size limit, or one whose header does not decode.
TryPushUnparsable(error) ==
    /\ rx.counters.received < FecPushLimit
    /\ rx' = FecReject(FecCount(FecExpireIfDue(rx, fec_now), "received"), error)
    /\ decodings' = [f \in FecFlows |-> IF f \in DOMAIN rx'.flows THEN decodings[f] ELSE <<>>]
    /\ UNCHANGED fec_now

\* The one-second tick of run_udp_fec_ingest scans whether a scan is due or not.
FecExpireInactive ==
    /\ rx' = FecExpire(rx, fec_now)
    /\ decodings' = [f \in FecFlows |-> IF f \in DOMAIN rx'.flows THEN decodings[f] ELSE <<>>]
    /\ UNCHANGED fec_now

FecElapse == fec_now < FecTimeLimit /\ fec_now' = fec_now + 1 /\ UNCHANGED <<rx, decodings>>

FecInit ==
    /\ rx = [flows |-> <<>>, objects |-> <<>>, bytes |-> 0, datagrams |-> 0,
             counters |-> NoFecCounters, last_error |-> "none", next_scan |-> -1]
    /\ fec_now = 0
    /\ decodings = [f \in FecFlows |-> <<>>]

FecNext ==
    \/ \E d \in FecDatagrams, answer \in {"decoded", "more", "error"} : TryPushPayload(d, answer)
    \/ \E error \in {"DatagramTooLarge", "Fec"} : TryPushUnparsable(error)
    \/ FecExpireInactive
    \/ FecElapse

FecSpec == FecInit /\ [][FecNext]_fecVars
-----------------------------------------------------------------------------

\* The type of the receiver's state.
FecTypeOK ==
    /\ fec_now \in 0 .. FecTimeLimit
    /\ DOMAIN rx.flows \subseteq FecFlows
    /\ DOMAIN rx.objects \subseteq FecFlows \X FecBlocks
    /\ \A f \in DOMAIN rx.flows :
          /\ rx.flows[f].tracker \in Trackers
          /\ rx.flows[f].active \in Nat
          /\ rx.flows[f].completed \in Seq(FecBlocks)
          /\ rx.flows[f].last \in 0 .. fec_now
    /\ \A k \in DOMAIN rx.objects :
          rx.objects[k] \in [length : TransferLengths, accepted : Nat, last : 0 .. fec_now]
    /\ rx.bytes \in Nat /\ rx.datagrams \in Nat

\* The reservations are exact: the aggregate bytes, datagrams and the per-flow
\* counts that the limits are compared with (udp_fec.rs:470-540) equal what the
\* objects in flight hold, whatever mix of decodes, decoder errors, refusals and
\* expiries led there, and none of them exceeds its limit.
FecAccountingExact ==
    /\ rx.bytes = SumFunctionOnSet(ReservedBytes(rx), DOMAIN rx.objects)
    /\ rx.datagrams = SumFunctionOnSet(ReservedDatagrams(rx), DOMAIN rx.objects)
    /\ \A f \in DOMAIN rx.flows : rx.flows[f].active = Cardinality(ObjectsOf(rx, f))
    /\ \A k \in DOMAIN rx.objects : k[1] \in DOMAIN rx.flows
    /\ rx.bytes <= MaxBufferedBytes /\ rx.datagrams <= MaxBufferedDatagrams
    /\ Cardinality(DOMAIN rx.objects) <= MaxActiveObjects
    /\ Cardinality(DOMAIN rx.flows) <= MaxFlows

\* An object decoded once is not decoded again while its flow lives, until
\* MaxCompletedPerFlow other objects of the flow have been decoded after it:
\* late repair symbols of a finished object never deliver it twice
\* (udp_fec.rs:446-468, mark_completed).
NoEarlyRedelivery ==
    \A f \in FecFlows : \A i, j \in 1 .. Len(decodings[f]) :
        i < j /\ decodings[f][i] = decodings[f][j] => j - i > MaxCompletedPerFlow

\* No object outlives its inactivity timeout by more than one scan interval once
\* the receiver is touched again, although most datagrams skip the scan
\* (expire_inactive_if_due, udp_fec.rs:655).
IdleObjectsReclaimed ==
    [][\A k \in DOMAIN rx'.objects :
          fec_now - rx'.objects[k].last < ObjectTimeout + ScanEvery]_rx

\* The receiver of UDP-FEC symbols, its type included: counts exact and within
\* their limits, and no object decoded again too early.
FecSound == FecTypeOK /\ FecAccountingExact /\ NoEarlyRedelivery
=============================================================================
