------------------------------ MODULE MeshIngest ------------------------------
(***************************************************************************)
(* The two UDP ingest loops (src/src/main.rs): run_udp_fec_ingest ("mesh") *)
(* and run_udp_media_fec_ingest ("media").  Each first serves the native   *)
(* audio control messages, then the AEP1 audio lane, then media.  The mesh *)
(* loop hands a media datagram to the RelaySession dispatch and, when that *)
(* calls it legacy, to the UDP-FEC receiver.                               *)
(*                                                                         *)
(* Abstractions: what the dispatch, the FEC receiver, the media decoder    *)
(* and the cache answer is a choice here (RelayIngress, UdpFecReceiver and *)
(* LiveStream model them), the forwarding of relay symbols is              *)
(* WarmSourceReplay, and sockets show as the targets of an audio datagram. *)
(***************************************************************************)
EXTENDS Integers, FiniteSets, Maps

CONSTANTS AudioPeers,        \* peers that send AEP1 datagrams or subscribe
          AudioBlocks,       \* AEP1 block ids
          AudioSessions,     \* session ids; 0 stands for None
          MediaObjects,      \* canonical objects of the relay lane
          SubscriptionTtl,   \* NATIVE_AUDIO_SUBSCRIPTION_TTL
          BlockTtl,          \* how long a block remembers its session
          HasForwarder,      \* relay_forwarder.is_some()
          IngestTimeLimit    \* bound: the clock stops here

ASSUME IngestAssumption ==
    /\ SubscriptionTtl \in Nat /\ BlockTtl \in Nat /\ IngestTimeLimit \in Nat
    /\ AudioSessions \subseteq Nat \ {0}
    /\ HasForwarder \in BOOLEAN

Loops == {"mesh", "media"}
NoSession == 0

VARIABLES loop,            \* which of the two loops this one is
          subscriptions,   \* peer -> [session, expires]
          block_sessions,  \* block key -> [session, expires]
          receivers,       \* audio_epochs has receivers
          ingest_now,
          audio_out,       \* the last AEP1 datagram that was passed on
          named,           \* history: block key -> the last session a datagram named that
                           \* was read, and whether one dropped since named another
          reported,        \* history: objects observed as decoded by the controller
          stored           \* history: objects the cache has accepted

ingestVars == <<loop, subscriptions, block_sessions, receivers, ingest_now, audio_out,
                named, reported, stored>>
-----------------------------------------------------------------------------
Alive(entry) == entry.expires > ingest_now

\* Expiry that drops nothing.
BugLiveEntries(map) == map

LiveEntries(map) == Retain(map, Alive)

\* The mesh loop drops expired subscriptions on its tick, the media loop before
\* every datagram.
Current == IF loop = "media" THEN LiveEntries(subscriptions) ELSE subscriptions

NativeSubscribe(peer, session) ==
    /\ subscriptions' = With(Current, peer, [session |-> session, expires |-> ingest_now + SubscriptionTtl])
    /\ UNCHANGED <<loop, block_sessions, receivers, ingest_now, audio_out, named, reported, stored>>

\* Version 1 always removes the peer, version 2 only a subscription to the session it names.
NativeUnsubscribe(peer, session) ==
    /\ subscriptions' = IF \/ session = NoSession
                            \/ Entry(Current, peer, [session |-> NoSession]).session = session
                         THEN Without(Current, {peer}) ELSE Current
    /\ UNCHANGED <<loop, block_sessions, receivers, ingest_now, audio_out, named, reported, stored>>

ExpireSubscriptions ==
    /\ loop = "mesh" /\ subscriptions' = LiveEntries(subscriptions)
    /\ UNCHANGED <<loop, block_sessions, receivers, ingest_now, audio_out, named, reported, stored>>

\* Native subscribers a datagram goes to: those without a session, and those of its session.
NativeTargets(subs, session) ==
    {peer \in DOMAIN subs : subs[peer].session \in {NoSession, session}}

\* The mesh loop keys a block by its id alone, the media loop also by its sender.
BlockKey(peer, block) == IF loop = "media" THEN <<peer, block>> ELSE <<block>>

\* The session of a datagram that names one, else the one its block remembers.
SessionOf(sessions, key, session) ==
    IF session # NoSession THEN session
    ELSE Entry(sessions, key, [session |-> NoSession]).session

RememberBlock(sessions, key, session) ==
    IF session = NoSession THEN sessions
    ELSE With(sessions, key, [session |-> session, expires |-> ingest_now + BlockTtl])

\* A leaf with no consumer drops the audio lane before it parses anything.
NoAudioConsumer == ~HasForwarder /\ ~receivers /\ DOMAIN subscriptions = {}

AudioEpoch(peer, block, session) ==
    LET key   == BlockKey(peer, block)
        known == LiveEntries(block_sessions)
        owner == SessionOf(known, key, session)
    IN  /\ ~(loop = "mesh" /\ NoAudioConsumer)
        /\ subscriptions' = Current
        /\ block_sessions' = RememberBlock(known, key, session)
        /\ audio_out' = [key |-> key, named |-> session, session |-> owner,
                         native |-> NativeTargets(Current, owner),
                         relayed |-> loop = "mesh" /\ HasForwarder,
                         at |-> ingest_now]
        /\ named' = IF session = NoSession THEN named
                    ELSE With(named, key, [session |-> session, at |-> ingest_now,
                                           superseded |-> FALSE])
        /\ UNCHANGED <<loop, receivers, ingest_now, reported, stored>>

\* The leaf drops the datagram, and keeps for its block what it remembered
\* before, whatever session the datagram names.
DropAudioEpoch(peer, block, session) ==
    LET key == BlockKey(peer, block)
    IN  /\ loop = "mesh" /\ NoAudioConsumer
        /\ named' = IF session = NoSession \/ key \notin DOMAIN named THEN named
                    ELSE [named EXCEPT ![key].superseded = session # named[key].session]
        /\ UNCHANGED <<loop, subscriptions, block_sessions, receivers, ingest_now,
                       audio_out, reported, stored>>

\* An AEP1 datagram that does not parse: the mesh loop drops it after it has
\* forgotten expired blocks, the media loop passes it on without a session.
InvalidAudioEpoch ==
    /\ ~(loop = "mesh" /\ NoAudioConsumer)
    /\ subscriptions' = Current
    /\ block_sessions' = LiveEntries(block_sessions)
    /\ audio_out' = IF loop = "mesh" THEN audio_out
                    ELSE [key |-> <<>>, named |-> NoSession, session |-> NoSession,
                          native |-> NativeTargets(Current, NoSession), relayed |-> FALSE,
                          at |-> ingest_now]
    /\ UNCHANGED <<loop, receivers, ingest_now, named, reported, stored>>

\* The process may gain or lose its WebTransport audio receivers at any time.
ReceiversChange ==
    /\ receivers' = ~receivers
    /\ UNCHANGED <<loop, subscriptions, block_sessions, ingest_now, audio_out, named, reported, stored>>
-----------------------------------------------------------------------------
(* The media lane of the mesh loop.  The dispatch's answers:               *)
RelayAnswers == {"Legacy", "Buffered", "Decoded", "Duplicate", "DeadlineExpired", "Rejected"}

\* What the failover controller observes of a datagram; "none" for a refused one.
Observation(answer, committed) ==
    CASE answer \in {"Buffered", "Duplicate"} -> "symbol"
      [] answer = "Decoded" -> IF committed THEN "decoded" ELSE "symbol"
      [] OTHER -> "none"

\* The cache takes the object of a decode, unless its stream name is no number
\* or the commit fails; a legacy payload is cached by the UDP-FEC lane.
MeshDatagram(answer, object, committed) ==
    /\ loop = "mesh"
    /\ stored' = IF answer \in {"Decoded", "Legacy"} /\ committed
                 THEN stored \cup {object} ELSE stored
    /\ reported' = IF Observation(answer, committed) = "decoded"
                   THEN reported \cup {object} ELSE reported
    /\ UNCHANGED <<loop, subscriptions, block_sessions, receivers, ingest_now, audio_out, named>>

\* A media datagram of the media loop: the access unit is cached when it is complete.
MediaDatagram(object, committed) ==
    /\ loop = "media" /\ subscriptions' = LiveEntries(subscriptions)
    /\ stored' = IF committed THEN stored \cup {object} ELSE stored
    /\ UNCHANGED <<loop, block_sessions, receivers, ingest_now, audio_out, named, reported>>

IngestElapse ==
    /\ ingest_now < IngestTimeLimit
    /\ ingest_now' = ingest_now + 1
    /\ UNCHANGED <<loop, subscriptions, block_sessions, receivers, audio_out, named, reported, stored>>

IngestInit ==
    /\ loop \in Loops
    /\ subscriptions = EmptyMap /\ block_sessions = EmptyMap
    /\ receivers = FALSE
    /\ ingest_now = 0
    /\ audio_out = [key |-> <<>>, named |-> NoSession, session |-> NoSession,
                    native |-> {}, relayed |-> FALSE, at |-> 0]
    /\ named = EmptyMap
    /\ reported = {} /\ stored = {}

IngestNext ==
    \/ \E p \in AudioPeers, s \in AudioSessions \cup {NoSession} :
          NativeSubscribe(p, s) \/ NativeUnsubscribe(p, s)
    \/ ExpireSubscriptions
    \/ \E p \in AudioPeers, b \in AudioBlocks, s \in AudioSessions \cup {NoSession} :
          AudioEpoch(p, b, s) \/ DropAudioEpoch(p, b, s)
    \/ InvalidAudioEpoch
    \/ ReceiversChange
    \/ \E a \in RelayAnswers, o \in MediaObjects, c \in BOOLEAN : MeshDatagram(a, o, c)
    \/ \E o \in MediaObjects, c \in BOOLEAN : MediaDatagram(o, c)
    \/ IngestElapse

IngestSpec == IngestInit /\ [][IngestNext]_ingestVars
-----------------------------------------------------------------------------
\* The type of the loops' state.
IngestTypeOK ==
    /\ loop \in Loops
    /\ \A p \in DOMAIN subscriptions :
          p \in AudioPeers /\ subscriptions[p].session \in AudioSessions \cup {NoSession}
    /\ \A k \in DOMAIN block_sessions : block_sessions[k].session \in AudioSessions
    /\ receivers \in BOOLEAN
    /\ ingest_now \in 0 .. IngestTimeLimit
    /\ reported \subseteq MediaObjects /\ stored \subseteq MediaObjects

\* A datagram that names no session is passed to a session's subscribers only
\* when the last datagram of its block that was read and named one named that
\* session, less than BlockTtl ago (main.rs:3567-3590, 3905-3918): a block id that
\* is used again does not leak into the session that used it before.  The one
\* exception is a leaf of the mesh, without a forwarder.  What it drops while
\* nobody listens it does not read (main.rs:3561-3566), so once somebody listens
\* again it may still attribute a block to the session it had before, for what is
\* left of BlockTtl.
AttributionIsFresh ==
    audio_out.named = NoSession /\ audio_out.session # NoSession =>
        /\ audio_out.key \in DOMAIN named
        /\ named[audio_out.key].session = audio_out.session
        /\ audio_out.at - named[audio_out.key].at < BlockTtl
        /\ named[audio_out.key].superseded => loop = "mesh" /\ ~HasForwarder

\* The failover controller counts an object as decoded only when the cache took
\* it (main.rs:3699-3727): a primary whose objects cannot be cached is not alive.
DecodedIsStored == reported \subseteq stored

\* The ingest loops, their type included.
IngestSound == IngestTypeOK /\ AttributionIsFresh /\ DecodedIsStored
=============================================================================
