---------------------------- MODULE TelemetryDecoder ----------------------------
(***************************************************************************)
(* The collecting side of fleet telemetry: TelemetryFecDecoder             *)
(* (src/src/telemetry_fec.rs) behind start_telemetry_fec_collector         *)
(* (src/src/main.rs).  A peer is an address; it has at most a few blocks   *)
(* in flight, is pinned to the first node id it delivered and to the       *)
(* boot and sequence accepted last, and is forgotten when it is idle.      *)
(*                                                                         *)
(* Abstractions: a datagram names its peer and block; whether it completes *)
(* the block, and the envelope inside, is a choice (bytes may be lost,     *)
(* duplicated or delayed on the way); the checks of TelemetryEnvelope::    *)
(* decode are the one outcome "malformed".                                 *)
(***************************************************************************)
EXTENDS Integers, Sequences, FiniteSets, Maps

CONSTANTS TelemetryPeers, TelemetryBlocks, TelemetryNodes,
          BootIds,             \* boot ids an envelope may carry
          TelemetrySequences,
          MaxTelemetryPeers, MaxInFlightBlocks,
          InFlightTtl,         \* block_ttl; a peer is idle after four of them
          DecoderTimeLimit,    \* bound: the clock stops here
          AcceptLimit,         \* bound: snapshots accepted
          CollectLimit        \* bound: datagrams received

ASSUME TelemetryDecoderAssumption ==
    /\ {InFlightTtl, DecoderTimeLimit, AcceptLimit, CollectLimit} \subseteq Nat
    /\ {MaxTelemetryPeers, MaxInFlightBlocks} \subseteq Nat \ {0}
    /\ TelemetrySequences \subseteq Nat /\ BootIds \subseteq Nat
    /\ "" \notin TelemetryNodes  \* an empty node id is malformed

VARIABLES decoder_peers,  \* peer -> PeerDecoder
          decoder_now,
          collector,      \* what TelemetryFecMonitor counts on this side
          accepted,       \* history: peer -> envelopes accepted since it became known
          ingested        \* history: peer -> nodes it brought snapshots of since then

telemetryDecoderVars == <<decoder_peers, decoder_now, collector, accepted, ingested>>

\* snapshot is the node whose snapshot the payload holds, "" when it holds none.
Envelopes == [node : TelemetryNodes, boot : BootIds, sequence : TelemetrySequences,
              snapshot : TelemetryNodes \cup {""}]
NoEnvelope == [node |-> "", boot |-> -1, sequence |-> -1, snapshot |-> ""]

NoCollected == [received |-> 0, decoded |-> 0, duplicates |-> 0, decode_errors |-> 0,
                ingest_errors |-> 0]
-----------------------------------------------------------------------------
KnownPeers == [p \in {x \in DOMAIN decoder_peers :
                        decoder_now - decoder_peers[x].last < 4 * InFlightTtl} |-> decoder_peers[p]]

NewPeer == [blocks |-> EmptyMap, node |-> "", last_accepted |-> NoEnvelope, last |-> decoder_now]

\* The blocks in flight after a datagram of `block`: expired ones go, and the
\* oldest one makes room for a block that is new; among equals any may go.
InFlight(blocks, block) ==
    LET fresh  == [b \in {x \in DOMAIN blocks : decoder_now - blocks[x] < InFlightTtl} |-> blocks[b]]
        oldest == {b \in DOMAIN fresh : \A c \in DOMAIN fresh : fresh[b] <= fresh[c]}
        full   == block \notin DOMAIN fresh /\ Cardinality(DOMAIN fresh) >= MaxInFlightBlocks
        room   == IF full THEN {Without(fresh, {b}) : b \in oldest} ELSE {fresh}
    IN  {IF block \in DOMAIN r THEN r ELSE With(r, block, decoder_now) : r \in room}

\* Not newer than what this boot of the node delivered last.
Repeats(state, e) == state.last_accepted.boot = e.boot /\ state.last_accepted.sequence >= e.sequence

\* A peer that may change its node.
BugPinned(state, e) == [state EXCEPT !.node = e.node]

Pinned(state, e) == IF state.node = "" THEN [state EXCEPT !.node = e.node] ELSE state

\* What the RaptorQ decoder makes of the block, and of the envelope in it.
Answers == [kind : {"pending", "error", "malformed"}, envelope : {NoEnvelope}]
             \cup [kind : {"complete"}, envelope : Envelopes]

\* The datagram is counted when it is received, and its outcome after that.
Count(outcome) ==
    /\ collector.received < CollectLimit
    /\ collector' = [collector EXCEPT !.received = @ + 1,
          !.decoded       = IF outcome = "ingested" THEN @ + 1 ELSE @,
          !.duplicates    = IF outcome = "duplicate" THEN @ + 1 ELSE @,
          !.ingest_errors = IF outcome = "not_ingested" THEN @ + 1 ELSE @,
          !.decode_errors = IF outcome = "error" THEN @ + 1 ELSE @]

\* The collector ingests a snapshot of the node that the envelope names.
Collects(e) == e.snapshot = e.node

\* What becomes of a complete envelope, for the state of its peer.
OutcomeOf(state, e) ==
    CASE state.node # e.node -> "error"
      [] state.node = e.node /\ Repeats(state, e) -> "duplicate"
      [] state.node = e.node /\ ~Repeats(state, e) ->
            IF Collects(e) THEN "ingested" ELSE "not_ingested"

\* The histories of a peer begin when it becomes known.
HistoryOf(history, peer, none) ==
    [p \in DOMAIN KnownPeers \cup {peer} |-> IF p \in DOMAIN KnownPeers THEN history[p] ELSE none]

\* push_datagram_at with an acceptable profile, and what the collector does then.
\* An envelope that is accepted counts as the last one even when its payload is
\* not ingested.
PushTelemetry(peer, block, answer) ==
    LET known == KnownPeers
        state == Entry(known, peer, NewPeer)
        log   == HistoryOf(accepted, peer, <<>>)
        nodes == HistoryOf(ingested, peer, {})
        e     == answer.envelope
    IN  /\ collector.received < CollectLimit
        /\ peer \in DOMAIN known \/ Cardinality(DOMAIN known) < MaxTelemetryPeers
        /\ \E blocks \in InFlight(state.blocks, block) :
              LET fed    == [state EXCEPT !.last = decoder_now, !.blocks = blocks]
                  done   == [fed EXCEPT !.blocks = Without(@, {block})]
                  pinned == Pinned(done, e)
              IN  \/ /\ answer.kind \in {"pending", "error"}
                     /\ decoder_peers' = With(known, peer, fed)
                     /\ Count(answer.kind)
                     /\ accepted' = log /\ ingested' = nodes
                  \/ /\ answer.kind = "malformed"
                     /\ decoder_peers' = With(known, peer, done)
                     /\ Count("error")
                     /\ accepted' = log /\ ingested' = nodes
                  \/ /\ answer.kind = "complete"
                     /\ OutcomeOf(pinned, e) \in {"error", "duplicate"}
                     /\ decoder_peers' = With(known, peer, pinned)
                     /\ Count(OutcomeOf(pinned, e))
                     /\ accepted' = log /\ ingested' = nodes
                  \/ /\ answer.kind = "complete"
                     /\ OutcomeOf(pinned, e) \in {"ingested", "not_ingested"}
                     /\ Len(log[peer]) < AcceptLimit
                     /\ decoder_peers' = With(known, peer, [pinned EXCEPT !.last_accepted = e])
                     /\ Count(OutcomeOf(pinned, e))
                     /\ accepted' = [log EXCEPT ![peer] = Append(@, e)]
                     /\ ingested' = IF OutcomeOf(pinned, e) = "ingested"
                                    THEN [nodes EXCEPT ![peer] = @ \cup {e.snapshot}] ELSE nodes
        /\ UNCHANGED decoder_now

\* A new peer above the limit; idle peers have been forgotten all the same.
PeerRefused(peer) ==
    /\ peer \notin DOMAIN KnownPeers /\ Cardinality(DOMAIN KnownPeers) >= MaxTelemetryPeers
    /\ decoder_peers' = KnownPeers
    /\ Count("error")
    /\ accepted' = [p \in DOMAIN KnownPeers |-> accepted[p]]
    /\ ingested' = [p \in DOMAIN KnownPeers |-> ingested[p]]
    /\ UNCHANGED decoder_now

\* No datagram of a block, or one of an unacceptable size.
ProfileRefused ==
    /\ Count("error")
    /\ UNCHANGED <<decoder_peers, decoder_now, accepted, ingested>>

DecoderElapse ==
    /\ decoder_now < DecoderTimeLimit
    /\ decoder_now' = decoder_now + 1
    /\ UNCHANGED <<decoder_peers, collector, accepted, ingested>>

TelemetryDecoderInit ==
    /\ decoder_peers = EmptyMap /\ decoder_now = 0 /\ collector = NoCollected
    /\ accepted = EmptyMap /\ ingested = EmptyMap

TelemetryDecoderNext ==
    \/ \E p \in TelemetryPeers, b \in TelemetryBlocks, a \in Answers : PushTelemetry(p, b, a)
    \/ \E p \in TelemetryPeers : PeerRefused(p)
    \/ ProfileRefused \/ DecoderElapse

TelemetryDecoderSpec == TelemetryDecoderInit /\ [][TelemetryDecoderNext]_telemetryDecoderVars
-----------------------------------------------------------------------------
\* The type of the decoder's state.
TelemetryDecoderTypeOK ==
    /\ DOMAIN decoder_peers \subseteq TelemetryPeers /\ DOMAIN accepted = DOMAIN decoder_peers
    /\ DOMAIN ingested = DOMAIN decoder_peers
    /\ Cardinality(DOMAIN decoder_peers) <= MaxTelemetryPeers
    /\ \A p \in DOMAIN decoder_peers :
          /\ DOMAIN decoder_peers[p].blocks \subseteq TelemetryBlocks
          /\ Cardinality(DOMAIN decoder_peers[p].blocks) <= MaxInFlightBlocks
          /\ decoder_peers[p].node \in TelemetryNodes \cup {""}
          /\ decoder_peers[p].last_accepted \in Envelopes \cup {NoEnvelope}

\* While a peer is known, all it delivers is of one node, and within one boot of
\* that node each snapshot is newer than the one accepted before it, however
\* datagrams of several blocks overtake or repeat each other
\* (telemetry_fec.rs:411-434).  A late block of an earlier boot is not held back.
PeerDeliversInOrder ==
    \A p \in DOMAIN accepted : \A i, j \in DOMAIN accepted[p] :
        /\ accepted[p][i].node = accepted[p][j].node
        /\ j = i + 1 /\ accepted[p][i].boot = accepted[p][j].boot
              => accepted[p][i].sequence < accepted[p][j].sequence

\* What a peer brings into the aggregator is of the node it is pinned to, even
\* when the payload of an accepted envelope is of another node or none, and no
\* datagram is counted under two outcomes (main.rs:11019-11033,
\* telemetry_fec.rs:420-438).
CollectedIsPinned ==
    /\ \A p \in DOMAIN ingested : ingested[p] \subseteq {decoder_peers[p].node}
    /\ collector.decoded + collector.duplicates + collector.decode_errors
         + collector.ingest_errors <= collector.received

\* The collecting side of telemetry, its type included.
TelemetryCollected == TelemetryDecoderTypeOK /\ PeerDeliversInOrder /\ CollectedIsPinned
=============================================================================
