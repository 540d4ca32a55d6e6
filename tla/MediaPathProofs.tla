--------------------------- MODULE MediaPathProofs ---------------------------
(***************************************************************************)
(* Proofs about the parts of a node that media passes through: the ingest  *)
(* loops, for every set of peers, blocks, sessions and objects and every   *)
(* lifetime of a subscription or a block; the UDP-FEC receiver, for every  *)
(* set of flows, blocks and lengths, every limit and every timeout; the    *)
(* cache of a live stream, for every window and segment length, every set  *)
(* of epochs, objects and positions and any number of commits; tail reads, *)
(* for any streams, readers and limits; byte parts, for any streams,       *)
(* readers, payloads, window and part length; the master playlist, for any *)
(* edges, renditions and limits; and the sequence tracker, for every       *)
(* modulus, limit of gaps and run of arrivals shorter than a wrap.         *)
(***************************************************************************)
EXTENDS MeshIngest, UdpFecReceiver, LiveStream, TailReads, ByteParts, HlsFailover,
        SequenceArrivals, SequenceFacts

(***************************************************************************)
(* The ingest loops.                                                       *)
(***************************************************************************)
\* What a block remembers is what the last datagram that was read and named a
\* session said, for BlockTtl from then.
Remembers(k, b) ==
    /\ b.session \in AudioSessions
    /\ k \in DOMAIN named
    /\ named[k].session = b.session
    /\ named[k].at \in Nat
    /\ b.expires = named[k].at + BlockTtl

\* What was named, and where a datagram may have been dropped since.
NamedTypes ==
    \A k \in DOMAIN named :
        /\ named[k] \in [session : AudioSessions, at : Nat, superseded : BOOLEAN]
        /\ named[k].superseded => loop = "mesh" /\ ~HasForwarder

LoopTypes ==
    /\ loop \in Loops
    /\ \A p \in DOMAIN subscriptions :
          p \in AudioPeers /\ subscriptions[p].session \in AudioSessions \cup {NoSession}
    /\ receivers \in BOOLEAN
    /\ ingest_now \in 0 .. IngestTimeLimit

\* The inductive invariant of the ingest loops.
IngestInv ==
    /\ LoopTypes /\ NamedTypes
    /\ \A k \in DOMAIN block_sessions : Remembers(k, block_sessions[k])
    /\ AttributionIsFresh
    /\ reported \subseteq stored /\ stored \subseteq MediaObjects

\* The entries that are alive.
LEMMA LiveEntriesFacts ==
    ASSUME NEW m
    PROVE  /\ DOMAIN LiveEntries(m) \subseteq DOMAIN m
           /\ \A x \in DOMAIN LiveEntries(m) :
                 LiveEntries(m)[x] = m[x] /\ m[x].expires > ingest_now
  BY DEF LiveEntries, Retain, Alive

\* The subscriptions a loop works with are among those it had.
LEMMA CurrentFacts ==
    ASSUME LoopTypes
    PROVE  /\ \A p \in DOMAIN Current :
                 p \in AudioPeers /\ Current[p].session \in AudioSessions \cup {NoSession}
<1>1. \A p \in DOMAIN Current : p \in DOMAIN subscriptions /\ Current[p] = subscriptions[p]
  <2>1. CASE loop = "media"
    <3>1. Current = LiveEntries(subscriptions)
      BY <2>1 DEF Current
    <3>. QED
      BY <3>1, LiveEntriesFacts
  <2>2. CASE loop # "media"
    BY <2>2 DEF Current
  <2>. QED
    BY <2>1, <2>2
<1>. QED
  BY <1>1 DEF LoopTypes

\* A native peer subscribes or leaves, or subscriptions expire.
LEMMA SubscriptionsKeepIngest ==
    ASSUME IngestInv,
           \/ \E p \in AudioPeers, s \in AudioSessions \cup {NoSession} :
                 NativeSubscribe(p, s) \/ NativeUnsubscribe(p, s)
           \/ ExpireSubscriptions
    PROVE  IngestInv'
<1>1. UNCHANGED <<loop, block_sessions, receivers, ingest_now, audio_out, named, reported, stored>>
  BY DEF NativeSubscribe, NativeUnsubscribe, ExpireSubscriptions
<1>2. \A p \in DOMAIN subscriptions' :
         p \in AudioPeers /\ subscriptions'[p].session \in AudioSessions \cup {NoSession}
  <2>0. \A p \in DOMAIN Current :
           p \in AudioPeers /\ Current[p].session \in AudioSessions \cup {NoSession}
    BY CurrentFacts DEF IngestInv
  <2>1. ASSUME NEW p \in AudioPeers, NEW s \in AudioSessions \cup {NoSession},
               NativeSubscribe(p, s)
        PROVE  \A q \in DOMAIN subscriptions' :
                  q \in AudioPeers /\ subscriptions'[q].session \in AudioSessions \cup {NoSession}
    <3>. DEFINE e == [session |-> s, expires |-> ingest_now + SubscriptionTtl]
    <3>1. subscriptions' = With(Current, p, e) /\ e.session = s
      BY <2>1 DEF NativeSubscribe
    <3>. HIDE DEF e
    <3>2. /\ DOMAIN subscriptions' = DOMAIN Current \cup {p}
          /\ subscriptions'[p] = e
          /\ \A q \in DOMAIN Current : q # p => subscriptions'[q] = Current[q]
      BY <3>1 DEF With
    <3>. QED
      BY <2>0, <3>1, <3>2
  <2>2. ASSUME NEW p \in AudioPeers, NEW s \in AudioSessions \cup {NoSession},
               NativeUnsubscribe(p, s)
        PROVE  \A q \in DOMAIN subscriptions' :
                  q \in DOMAIN Current /\ subscriptions'[q] = Current[q]
    <3>1. subscriptions' = Without(Current, {p}) \/ subscriptions' = Current
      BY <2>2 DEF NativeUnsubscribe
    <3>. QED
      BY <3>1 DEF Without
  <2>3. CASE ExpireSubscriptions
    <3>1. subscriptions' = LiveEntries(subscriptions)
      BY <2>3 DEF ExpireSubscriptions
    <3>. QED
      BY <3>1, LiveEntriesFacts DEF IngestInv, LoopTypes
  <2>. QED
    BY <2>0, <2>1, <2>2, <2>3
<1>. QED
  BY <1>1, <1>2 DEF IngestInv, LoopTypes, NamedTypes, Remembers, AttributionIsFresh

\* An audio datagram: its block is remembered, or remembers for it.
LEMMA AudioEpochKeepsIngest ==
    ASSUME IngestInv, NEW p \in AudioPeers, NEW b \in AudioBlocks,
           NEW s \in AudioSessions \cup {NoSession}, AudioEpoch(p, b, s)
    PROVE  IngestInv'
<1>. DEFINE key == BlockKey(p, b)
            known == LiveEntries(block_sessions)
            owner == SessionOf(known, key, s)
            out == [key |-> key, named |-> s, session |-> owner,
                    native |-> NativeTargets(Current, owner),
                    relayed |-> loop = "mesh" /\ HasForwarder, at |-> ingest_now]
            entry == [session |-> s, expires |-> ingest_now + BlockTtl]
            name == [session |-> s, at |-> ingest_now, superseded |-> FALSE]
<1>1. /\ subscriptions' = Current
      /\ block_sessions' = RememberBlock(known, key, s)
      /\ audio_out' = out
      /\ named' = IF s = NoSession THEN named ELSE With(named, key, name)
      /\ UNCHANGED <<loop, receivers, ingest_now, reported, stored>>
  BY DEF AudioEpoch
<1>2. out.key = key /\ out.named = s /\ out.session = owner /\ out.at = ingest_now
  OBVIOUS
<1>3. /\ entry.session = s /\ entry.expires = ingest_now + BlockTtl
      /\ name.session = s /\ name.at = ingest_now /\ ~name.superseded
  OBVIOUS
<1>4. LoopTypes'
  <2>1. \A q \in DOMAIN Current :
           q \in AudioPeers /\ Current[q].session \in AudioSessions \cup {NoSession}
    BY CurrentFacts DEF IngestInv
  <2>. QED
    BY <1>1, <2>1 DEF IngestInv, LoopTypes
<1>5. \A k \in DOMAIN known : /\ k \in DOMAIN block_sessions /\ known[k] = block_sessions[k]
                              /\ known[k].expires > ingest_now /\ Remembers(k, known[k])
  BY LiveEntriesFacts DEF IngestInv
<1>6. ingest_now \in Nat /\ BlockTtl \in Nat /\ NoSession \notin AudioSessions
  BY IngestAssumption DEF IngestInv, LoopTypes, NoSession
<1>. HIDE DEF key, known, out, entry, name
<1>7. CASE s = NoSession
  <2>1. block_sessions' = known /\ named' = named
    BY <1>1, <1>7 DEF RememberBlock
  <2>2. \A k \in DOMAIN block_sessions' : Remembers(k, block_sessions[k])'
    BY <1>5, <2>1 DEF Remembers
  <2>3. owner # NoSession => key \in DOMAIN known /\ owner = known[key].session
    <3>1. [session |-> NoSession].session = NoSession
      OBVIOUS
    <3>. QED
      BY <1>7, <3>1 DEF SessionOf, Entry
  <2>. HIDE DEF owner
  <2>4. owner # NoSession => /\ key \in DOMAIN named
                             /\ named[key].session = owner
                             /\ ingest_now - named[key].at < BlockTtl
                             /\ named[key].superseded => loop = "mesh" /\ ~HasForwarder
    <3>. SUFFICES ASSUME owner # NoSession
                  PROVE  /\ key \in DOMAIN named
                         /\ named[key].session = owner
                         /\ ingest_now - named[key].at < BlockTtl
                         /\ named[key].superseded => loop = "mesh" /\ ~HasForwarder
      OBVIOUS
    <3>1. /\ key \in DOMAIN named /\ named[key].session = owner
          /\ named[key].at \in Nat /\ named[key].at + BlockTtl > ingest_now
      BY <1>5, <2>3 DEF Remembers
    <3>2. named[key].superseded => loop = "mesh" /\ ~HasForwarder
      BY <3>1, Zenon DEF IngestInv, NamedTypes
    <3>. QED
      BY <1>6, <3>1, <3>2
  <2>5. AttributionIsFresh'
    BY <1>1, <1>2, <2>1, <2>4 DEF AttributionIsFresh
  <2>6. NamedTypes'
    BY <1>1, <2>1 DEF IngestInv, NamedTypes
  <2>. QED
    BY <1>1, <1>4, <2>2, <2>5, <2>6 DEF IngestInv
<1>8. CASE s # NoSession
  <2>1. /\ block_sessions' = With(known, key, entry)
        /\ named' = With(named, key, name)
    BY <1>1, <1>8 DEF RememberBlock, entry
  <2>2. /\ DOMAIN block_sessions' = DOMAIN known \cup {key} /\ block_sessions'[key] = entry
        /\ \A k \in DOMAIN known : k # key => block_sessions'[k] = known[k]
    BY <2>1 DEF With
  <2>3. /\ DOMAIN named' = DOMAIN named \cup {key} /\ named'[key] = name
        /\ \A k \in DOMAIN named : k # key => named'[k] = named[k]
    BY <2>1 DEF With
  <2>4. s \in AudioSessions
    BY <1>8
  <2>5. ASSUME NEW k \in DOMAIN block_sessions'
        PROVE  Remembers(k, block_sessions[k])'
    <3>1. CASE k = key
      BY <1>3, <1>6, <2>2, <2>3, <2>4, <3>1 DEF Remembers
    <3>2. CASE k # key
      BY <1>5, <2>2, <2>3, <3>2 DEF Remembers
    <3>. QED
      BY <3>1, <3>2
  <2>6. AttributionIsFresh'
    BY <1>1, <1>2, <1>8 DEF AttributionIsFresh
  <2>7. NamedTypes'
    <3>1. name \in [session : AudioSessions, at : Nat, superseded : BOOLEAN]
      BY <1>6, <2>4 DEF name
    <3>. QED
      BY <1>1, <1>3, <2>3, <3>1 DEF IngestInv, NamedTypes
  <2>. QED
    BY <1>1, <1>4, <2>5, <2>6, <2>7 DEF IngestInv
<1>. QED
  BY <1>7, <1>8

\* A leaf that drops an audio datagram keeps what its blocks remember.
LEMMA DropKeepsIngest ==
    ASSUME IngestInv, NEW p \in AudioPeers, NEW b \in AudioBlocks,
           NEW s \in AudioSessions \cup {NoSession}, DropAudioEpoch(p, b, s)
    PROVE  IngestInv'
<1>1. /\ loop = "mesh" /\ ~HasForwarder
      /\ UNCHANGED <<loop, subscriptions, block_sessions, receivers, ingest_now,
                     audio_out, reported, stored>>
  BY DEF DropAudioEpoch, NoAudioConsumer
<1>2. LoopTypes'
  BY <1>1 DEF IngestInv, LoopTypes
<1>. DEFINE key == BlockKey(p, b)
            late == s # named[key].session
<1>3. \/ named' = named
      \/ key \in DOMAIN named /\ named' = [named EXCEPT ![key].superseded = late]
  BY DEF DropAudioEpoch
<1>4. late \in BOOLEAN
  OBVIOUS
<1>. HIDE DEF key, late
<1>5. /\ DOMAIN named' = DOMAIN named
      /\ \A k \in DOMAIN named :
            /\ named'[k] \in [session : AudioSessions, at : Nat, superseded : BOOLEAN]
            /\ named'[k].session = named[k].session /\ named'[k].at = named[k].at
  <2>1. \A k \in DOMAIN named :
           named[k] \in [session : AudioSessions, at : Nat, superseded : BOOLEAN]
    BY DEF IngestInv, NamedTypes
  <2>2. CASE named' = named
    BY <2>1, <2>2
  <2>3. CASE key \in DOMAIN named /\ named' = [named EXCEPT ![key].superseded = late]
    <3>1. DOMAIN named' = DOMAIN named
      BY <2>3
    <3>2. ASSUME NEW k \in DOMAIN named, k # key PROVE named'[k] = named[k]
      BY <2>3, <3>2
    <3>3. named'[key] = [named[key] EXCEPT !.superseded = late]
      BY <2>3
    <3>4. /\ named'[key] \in [session : AudioSessions, at : Nat, superseded : BOOLEAN]
          /\ named'[key].session = named[key].session /\ named'[key].at = named[key].at
      <4>1. named[key] \in [session : AudioSessions, at : Nat, superseded : BOOLEAN]
        BY <2>1, <2>3
      <4>. QED
        BY <1>4, <3>3, <4>1
    <3>. QED
      BY <2>1, <3>1, <3>2, <3>4
  <2>. QED
    BY <1>3, <2>2, <2>3
<1>6. NamedTypes'
  BY <1>1, <1>5 DEF NamedTypes
<1>7. \A k \in DOMAIN block_sessions' : Remembers(k, block_sessions[k])'
  BY <1>1, <1>5 DEF IngestInv, Remembers
<1>8. AttributionIsFresh'
  BY <1>1, <1>5 DEF IngestInv, AttributionIsFresh
<1>. QED
  BY <1>1, <1>2, <1>6, <1>7, <1>8 DEF IngestInv

\* A datagram of the audio lane that does not parse.
LEMMA InvalidEpochKeepsIngest ==
    ASSUME IngestInv, InvalidAudioEpoch
    PROVE  IngestInv'
<1>. DEFINE out == [key |-> <<>>, named |-> NoSession, session |-> NoSession,
                    native |-> NativeTargets(Current, NoSession), relayed |-> FALSE,
                    at |-> ingest_now]
<1>1. /\ subscriptions' = Current
      /\ block_sessions' = LiveEntries(block_sessions)
      /\ audio_out' = audio_out \/ audio_out' = out
      /\ UNCHANGED <<loop, receivers, ingest_now, named, reported, stored>>
  BY DEF InvalidAudioEpoch
<1>2. out.session = NoSession
  OBVIOUS
<1>. HIDE DEF out
<1>3. \A q \in DOMAIN Current :
         q \in AudioPeers /\ Current[q].session \in AudioSessions \cup {NoSession}
  BY CurrentFacts DEF IngestInv
<1>4. \A k \in DOMAIN block_sessions' : Remembers(k, block_sessions[k])'
  BY <1>1, LiveEntriesFacts DEF IngestInv, Remembers
<1>5. AttributionIsFresh'
  BY <1>1, <1>2 DEF IngestInv, AttributionIsFresh
<1>. QED
  BY <1>1, <1>3, <1>4, <1>5 DEF IngestInv, LoopTypes, NamedTypes

\* The media lanes, receivers and time.
LEMMA MediaKeepsIngest ==
    ASSUME IngestInv,
           \/ \E a \in RelayAnswers, o \in MediaObjects, c \in BOOLEAN : MeshDatagram(a, o, c)
           \/ \E o \in MediaObjects, c \in BOOLEAN : MediaDatagram(o, c)
           \/ ReceiversChange
           \/ IngestElapse
           \/ UNCHANGED ingestVars
    PROVE  IngestInv'
<1>1. UNCHANGED <<loop, block_sessions, audio_out, named>>
  BY DEF MeshDatagram, MediaDatagram, ReceiversChange, IngestElapse, ingestVars
<1>2. ingest_now' \in 0 .. IngestTimeLimit
  BY IngestAssumption
  DEF MeshDatagram, MediaDatagram, ReceiversChange, IngestElapse, ingestVars, IngestInv, LoopTypes
<1>3. receivers' \in BOOLEAN
  BY Zenon DEF MeshDatagram, MediaDatagram, ReceiversChange, IngestElapse, ingestVars, IngestInv, LoopTypes
<1>4. subscriptions' = subscriptions \/ subscriptions' = LiveEntries(subscriptions)
  BY DEF MeshDatagram, MediaDatagram, ReceiversChange, IngestElapse, ingestVars
<1>5. \A p \in DOMAIN subscriptions' :
         p \in AudioPeers /\ subscriptions'[p].session \in AudioSessions \cup {NoSession}
  BY <1>4, LiveEntriesFacts DEF IngestInv, LoopTypes
<1>6. reported' \subseteq stored' /\ stored' \subseteq MediaObjects
  <2>1. ASSUME NEW a \in RelayAnswers, NEW o \in MediaObjects, NEW c \in BOOLEAN,
               MeshDatagram(a, o, c)
        PROVE  reported' \subseteq stored' /\ stored' \subseteq MediaObjects
    <3>1. Observation(a, c) = "decoded" => a = "Decoded" /\ c
      BY DEF Observation, RelayAnswers
    <3>2. /\ stored' = IF a \in {"Decoded", "Legacy"} /\ c THEN stored \cup {o} ELSE stored
          /\ reported' = IF Observation(a, c) = "decoded" THEN reported \cup {o} ELSE reported
      BY <2>1 DEF MeshDatagram
    <3>. QED
      BY <3>1, <3>2 DEF IngestInv
  <2>2. ASSUME NEW o \in MediaObjects, NEW c \in BOOLEAN, MediaDatagram(o, c)
        PROVE  reported' \subseteq stored' /\ stored' \subseteq MediaObjects
    BY <2>2 DEF MediaDatagram, IngestInv
  <2>. QED
    BY <2>1, <2>2 DEF ReceiversChange, IngestElapse, ingestVars, IngestInv
<1>. QED
  BY <1>1, <1>2, <1>3, <1>5, <1>6
  DEF IngestInv, LoopTypes, NamedTypes, Remembers, AttributionIsFresh

\* The invariant holds in every state of the ingest loops.
THEOREM IngestInvariant == IngestSpec => []IngestInv
<1>1. IngestInit => IngestInv
  <2>. SUFFICES ASSUME IngestInit
                PROVE  IngestInv
    OBVIOUS
  <2>1. audio_out.session = NoSession
    BY DEF IngestInit
  <2>2. AttributionIsFresh
    BY <2>1 DEF AttributionIsFresh
  <2>3. receivers \in BOOLEAN
    BY Zenon DEF IngestInit
  <2>4. DOMAIN subscriptions = {} /\ DOMAIN block_sessions = {} /\ DOMAIN named = {}
    BY DEF IngestInit, EmptyMap
  <2>5. /\ loop \in Loops /\ ingest_now \in 0 .. IngestTimeLimit
        /\ reported = {} /\ stored = {}
    BY IngestAssumption DEF IngestInit
  <2>. QED
    BY <2>2, <2>3, <2>4, <2>5 DEF IngestInv, LoopTypes, NamedTypes
<1>2. IngestInv /\ [IngestNext]_ingestVars => IngestInv'
  BY SubscriptionsKeepIngest, AudioEpochKeepsIngest, DropKeepsIngest,
     InvalidEpochKeepsIngest, MediaKeepsIngest
  DEF IngestNext
<1>. QED
  BY <1>1, <1>2, PTL DEF IngestSpec

\* Audio is attributed to the session that the last datagram read of its block
\* named, which only a leaf that has dropped datagrams since can be wrong about,
\* and the controller counts only objects that the cache took (main.rs:3556-3918).
THEOREM IngestCorrect == IngestSpec => []IngestSound
<1>1. IngestInv => IngestSound
  BY DEF IngestInv, LoopTypes, Remembers, IngestSound, IngestTypeOK, DecodedIsStored
<1>. QED
  BY <1>1, IngestInvariant, PTL

-----------------------------------------------------------------------------
(***************************************************************************)
(* The UDP-FEC receiver.                                                   *)
(***************************************************************************)
FecFlow(now) == [tracker : Trackers, active : Nat, completed : Seq(FecBlocks), last : 0 .. now]

FecObject(now) == [length : TransferLengths, accepted : Nat, last : 0 .. now]

FecCounters == [received : Nat, accepted : Nat, rejected : Nat, buffered : Nat,
                duplicate : Nat, decoded : Nat]

\* A receiver has these fields and no others.
FecShape(r) ==
    r = [flows |-> r.flows, objects |-> r.objects, bytes |-> r.bytes,
         datagrams |-> r.datagrams, counters |-> r.counters,
         last_error |-> r.last_error, next_scan |-> r.next_scan]

FecTypes(r, now) ==
    /\ FecShape(r)
    /\ r.flows \in [DOMAIN r.flows -> FecFlow(now)]
    /\ DOMAIN r.flows \subseteq FecFlows /\ IsFiniteSet(DOMAIN r.flows)
    /\ r.objects \in [DOMAIN r.objects -> FecObject(now)]
    /\ DOMAIN r.objects \subseteq FecFlows \X FecBlocks /\ IsFiniteSet(DOMAIN r.objects)
    /\ r.counters \in FecCounters
    /\ r.next_scan \in Int

\* Reservations and counts equal what the objects in flight hold.
FecReserved(r) ==
    /\ r.bytes = SumFunctionOnSet(ReservedBytes(r), DOMAIN r.objects)
    /\ r.datagrams = SumFunctionOnSet(ReservedDatagrams(r), DOMAIN r.objects)
    /\ \A f \in DOMAIN r.flows : r.flows[f].active = Cardinality(ObjectsOf(r, f))
    /\ \A k \in DOMAIN r.objects : k[1] \in DOMAIN r.flows

FecLimits(r) ==
    /\ r.bytes <= MaxBufferedBytes /\ r.datagrams <= MaxBufferedDatagrams
    /\ Cardinality(DOMAIN r.objects) <= MaxActiveObjects
    /\ Cardinality(DOMAIN r.flows) <= MaxFlows

FecOK(r, now) == FecTypes(r, now) /\ FecReserved(r) /\ FecLimits(r)

\* The flows of s are flows of r and have completed what they had there.
FlowsFrom(s, r) ==
    /\ DOMAIN s.flows \subseteq DOMAIN r.flows
    /\ \A f \in DOMAIN s.flows : s.flows[f].completed = r.flows[f].completed

\* Every object of s is as it was in r, or has just been fed.
ObjectsFrom(s, r, now) ==
    \A k \in DOMAIN s.objects : \/ k \in DOMAIN r.objects /\ s.objects[k] = r.objects[k]
                                \/ s.objects[k].last = now

\* What the fields are after objects have been removed.
LEMMA RemoveFields ==
    ASSUME NEW r, FecShape(r), NEW keys, NEW s, s = RemoveObjects(r, keys)
    PROVE  /\ FecShape(s)
           /\ s.objects = Without(r.objects, keys)
           /\ s.bytes = r.bytes - SumFunctionOnSet(ReservedBytes(r), keys)
           /\ s.datagrams = r.datagrams - SumFunctionOnSet(ReservedDatagrams(r), keys)
           /\ s.flows = [f \in DOMAIN r.flows |->
                 LessActive(r.flows[f], Cardinality({k \in keys : k[1] = f}))]
           /\ s.counters = r.counters /\ s.last_error = r.last_error
           /\ s.next_scan = r.next_scan
<1>. DEFINE b == SumFunctionOnSet(ReservedBytes(r), keys)
            d == SumFunctionOnSet(ReservedDatagrams(r), keys)
            o == Without(r.objects, keys)
            fl == [f \in DOMAIN r.flows |->
                 LessActive(r.flows[f], Cardinality({k \in keys : k[1] = f}))]
<1>1. s = [r EXCEPT !.objects = o, !.bytes = @ - b, !.datagrams = @ - d, !.flows = fl]
  BY DEF RemoveObjects
<1>. HIDE DEF b, d, o, fl
<1>2. /\ FecShape(s)
      /\ s.objects = o /\ s.bytes = r.bytes - b /\ s.datagrams = r.datagrams - d /\ s.flows = fl
      /\ s.counters = r.counters /\ s.last_error = r.last_error
      /\ s.next_scan = r.next_scan
  BY <1>1 DEF FecShape
<1>. QED
  BY <1>2 DEF b, d, o, fl

\* What every object has reserved is a number.
LEMMA ReservedTypes ==
    ASSUME NEW r, NEW now, FecTypes(r, now)
    PROVE  \A k \in DOMAIN r.objects : /\ ReservedBytes(r)[k] = r.objects[k].length
                                       /\ ReservedBytes(r)[k] \in Nat
                                       /\ ReservedDatagrams(r)[k] = r.objects[k].accepted
                                       /\ ReservedDatagrams(r)[k] \in Nat
<1>1. \A k \in DOMAIN r.objects : r.objects[k] \in FecObject(now)
  BY DEF FecTypes
<1>2. \A k \in DOMAIN r.objects : r.objects[k].length \in Nat /\ r.objects[k].accepted \in Nat
  BY <1>1, FecAssumption DEF FecObject
<1>. QED
  BY <1>2 DEF ReservedBytes, ReservedDatagrams

\* A flow that loses n of its objects.
LEMMA LessActiveType ==
    ASSUME NEW now, NEW flow \in FecFlow(now), NEW n \in Nat, n <= flow.active
    PROVE  /\ LessActive(flow, n) \in FecFlow(now)
           /\ LessActive(flow, n).active = flow.active - n
           /\ LessActive(flow, n).completed = flow.completed
           /\ LessActive(flow, n).last = flow.last
  BY DEF LessActive, FecFlow

\* remove_object gives back exactly what the objects had reserved.
LEMMA RemoveKeepsOK ==
    ASSUME NEW r, NEW now, FecOK(r, now), NEW keys \in SUBSET DOMAIN r.objects,
           NEW s, s = RemoveObjects(r, keys)
    PROVE  /\ FecOK(s, now)
           /\ DOMAIN s.objects = DOMAIN r.objects \ keys
           /\ \A k \in DOMAIN s.objects : s.objects[k] = r.objects[k]
           /\ DOMAIN s.flows = DOMAIN r.flows
           /\ \A f \in DOMAIN s.flows : /\ s.flows[f].completed = r.flows[f].completed
                                        /\ s.flows[f].last = r.flows[f].last
           /\ s.counters = r.counters /\ s.next_scan = r.next_scan
<1>. DEFINE gone(f) == {k \in keys : k[1] = f}
<1>1. FecTypes(r, now) /\ FecReserved(r) /\ FecLimits(r) /\ FecShape(r)
  BY DEF FecOK, FecTypes
<1>2. /\ FecShape(s)
      /\ s.objects = Without(r.objects, keys)
      /\ s.bytes = r.bytes - SumFunctionOnSet(ReservedBytes(r), keys)
      /\ s.datagrams = r.datagrams - SumFunctionOnSet(ReservedDatagrams(r), keys)
      /\ s.flows = [f \in DOMAIN r.flows |-> LessActive(r.flows[f], Cardinality(gone(f)))]
      /\ s.counters = r.counters /\ s.last_error = r.last_error
      /\ s.next_scan = r.next_scan
  BY <1>1, RemoveFields
<1>3. DOMAIN s.objects = DOMAIN r.objects \ keys /\ \A k \in DOMAIN s.objects : s.objects[k] = r.objects[k]
  BY <1>2 DEF Without
<1>4. DOMAIN s.flows = DOMAIN r.flows
  BY <1>2
<1>5. /\ IsFiniteSet(DOMAIN r.objects) /\ IsFiniteSet(DOMAIN r.flows)
      /\ IsFiniteSet(keys) /\ IsFiniteSet(DOMAIN s.objects)
  BY <1>1, <1>3, FS_Subset, FS_Difference DEF FecTypes
<1>6. ASSUME NEW f \in DOMAIN r.flows
      PROVE  /\ Cardinality(gone(f)) \in Nat /\ Cardinality(gone(f)) <= r.flows[f].active
             /\ r.flows[f].active - Cardinality(gone(f)) = Cardinality(ObjectsOf(s, f))
  <2>1. gone(f) \subseteq ObjectsOf(r, f) /\ ObjectsOf(s, f) = ObjectsOf(r, f) \ gone(f)
    BY <1>3 DEF ObjectsOf
  <2>2. IsFiniteSet(ObjectsOf(r, f))
    BY <1>5, FS_Subset DEF ObjectsOf
  <2>3. r.flows[f].active = Cardinality(ObjectsOf(r, f))
    BY <1>1 DEF FecReserved
  <2>. HIDE DEF gone
  <2>4. IsFiniteSet(gone(f)) /\ ObjectsOf(r, f) \cap gone(f) = gone(f)
    BY <2>1, <2>2, FS_Subset
  <2>5. Cardinality(ObjectsOf(r, f) \ gone(f)) = Cardinality(ObjectsOf(r, f)) - Cardinality(gone(f))
    BY <2>2, <2>4, FS_Difference
  <2>6. /\ Cardinality(ObjectsOf(r, f)) \in Nat /\ Cardinality(gone(f)) \in Nat
        /\ Cardinality(gone(f)) <= Cardinality(ObjectsOf(r, f))
    BY <2>1, <2>2, <2>4, FS_CardinalityType, FS_Subset
  <2>. QED
    BY <2>1, <2>3, <2>5, <2>6
<1>7. \A f \in DOMAIN r.flows : /\ s.flows[f] \in FecFlow(now)
                                /\ s.flows[f].active = Cardinality(ObjectsOf(s, f))
                                /\ s.flows[f].completed = r.flows[f].completed
                                /\ s.flows[f].last = r.flows[f].last
  <2>1. SUFFICES ASSUME NEW f \in DOMAIN r.flows
                 PROVE  /\ s.flows[f] \in FecFlow(now)
                        /\ s.flows[f].active = Cardinality(ObjectsOf(s, f))
                        /\ s.flows[f].completed = r.flows[f].completed
                        /\ s.flows[f].last = r.flows[f].last
    OBVIOUS
  <2>2. PICK n : n = Cardinality(gone(f))
    OBVIOUS
  <2>3. s.flows[f] = LessActive(r.flows[f], n)
    BY <1>2, <2>2
  <2>4. r.flows[f] \in FecFlow(now)
    BY <1>1 DEF FecTypes
  <2>5. n \in Nat /\ n <= r.flows[f].active /\ r.flows[f].active - n = Cardinality(ObjectsOf(s, f))
    BY <1>6, <2>2
  <2>6. PICK flow : flow = r.flows[f]
    OBVIOUS
  <2>. QED
    BY <2>3, <2>4, <2>5, <2>6, LessActiveType
<1>8. FecTypes(s, now)
  <2>1. \A k \in DOMAIN s.objects : s.objects[k] \in FecObject(now)
    BY <1>1, <1>3 DEF FecTypes
  <2>2. s.objects \in [DOMAIN s.objects -> FecObject(now)]
    BY <1>2, <2>1 DEF Without
  <2>3. s.flows \in [DOMAIN s.flows -> FecFlow(now)]
    BY <1>2, <1>4, <1>7
  <2>. QED
    BY <1>1, <1>2, <1>3, <1>4, <1>5, <2>2, <2>3 DEF FecTypes
<1>9. FecReserved(s) /\ s.bytes <= r.bytes /\ s.datagrams <= r.datagrams
  <2>1. \A k \in DOMAIN r.objects \ keys : /\ ReservedBytes(s)[k] = ReservedBytes(r)[k]
                                           /\ ReservedDatagrams(s)[k] = ReservedDatagrams(r)[k]
    BY <1>3 DEF ReservedBytes, ReservedDatagrams
  <2>2. /\ SumFunctionOnSet(ReservedBytes(s), DOMAIN r.objects \ keys)
             = SumFunctionOnSet(ReservedBytes(r), DOMAIN r.objects) - SumFunctionOnSet(ReservedBytes(r), keys)
        /\ SumFunctionOnSet(ReservedBytes(r), keys) \in Nat
        /\ SumFunctionOnSet(ReservedBytes(r), DOMAIN r.objects) \in Nat
    <3>1. PICK a, b, S : a = ReservedBytes(r) /\ b = ReservedBytes(s) /\ S = DOMAIN r.objects
      OBVIOUS
    <3>2. NatOn(a, S) /\ SameOn(b, a, S \ keys) /\ IsFiniteSet(S) /\ keys \in SUBSET S
      BY <1>1, <1>5, <2>1, <3>1, ReservedTypes DEF NatOn, SameOn
    <3>3. /\ SumFunctionOnSet(b, S \ keys) = SumFunctionOnSet(a, S) - SumFunctionOnSet(a, keys)
          /\ SumFunctionOnSet(a, keys) \in Nat /\ SumFunctionOnSet(a, S) \in Nat
      BY <3>2, SumWithout
    <3>. QED
      BY <3>1, <3>3
  <2>3. /\ SumFunctionOnSet(ReservedDatagrams(s), DOMAIN r.objects \ keys)
             = SumFunctionOnSet(ReservedDatagrams(r), DOMAIN r.objects) - SumFunctionOnSet(ReservedDatagrams(r), keys)
        /\ SumFunctionOnSet(ReservedDatagrams(r), keys) \in Nat
        /\ SumFunctionOnSet(ReservedDatagrams(r), DOMAIN r.objects) \in Nat
    <3>1. PICK a, b, S : a = ReservedDatagrams(r) /\ b = ReservedDatagrams(s) /\ S = DOMAIN r.objects
      OBVIOUS
    <3>2. NatOn(a, S) /\ SameOn(b, a, S \ keys) /\ IsFiniteSet(S) /\ keys \in SUBSET S
      BY <1>1, <1>5, <2>1, <3>1, ReservedTypes DEF NatOn, SameOn
    <3>3. /\ SumFunctionOnSet(b, S \ keys) = SumFunctionOnSet(a, S) - SumFunctionOnSet(a, keys)
          /\ SumFunctionOnSet(a, keys) \in Nat /\ SumFunctionOnSet(a, S) \in Nat
      BY <3>2, SumWithout
    <3>. QED
      BY <3>1, <3>3
  <2>4. /\ r.bytes = SumFunctionOnSet(ReservedBytes(r), DOMAIN r.objects)
        /\ r.datagrams = SumFunctionOnSet(ReservedDatagrams(r), DOMAIN r.objects)
    BY <1>1 DEF FecReserved
  <2>5. /\ s.bytes = SumFunctionOnSet(ReservedBytes(s), DOMAIN s.objects) /\ s.bytes <= r.bytes
        /\ s.datagrams = SumFunctionOnSet(ReservedDatagrams(s), DOMAIN s.objects) /\ s.datagrams <= r.datagrams
    BY <1>2, <1>3, <2>2, <2>3, <2>4
  <2>6. \A k \in DOMAIN s.objects : k[1] \in DOMAIN s.flows
    BY <1>1, <1>3, <1>4 DEF FecReserved
  <2>. QED
    BY <1>4, <1>7, <2>5, <2>6 DEF FecReserved
<1>10. FecLimits(s)
  <2>1. Cardinality(DOMAIN s.objects) <= Cardinality(DOMAIN r.objects)
    BY <1>3, <1>5, FS_Subset
  <2>2. /\ Cardinality(DOMAIN s.objects) \in Nat /\ Cardinality(DOMAIN r.objects) \in Nat
    BY <1>5, FS_CardinalityType
  <2>3. /\ s.bytes \in Int /\ r.bytes \in Int /\ s.datagrams \in Int /\ r.datagrams \in Int
    <3>1. SumFunctionOnSet(ReservedBytes(r), DOMAIN r.objects) \in Nat /\ SumFunctionOnSet(ReservedDatagrams(r), DOMAIN r.objects) \in Nat
      BY <1>1, <1>5, ReservedTypes, SumRemove
    <3>2. /\ SumFunctionOnSet(ReservedBytes(s), DOMAIN s.objects) \in Nat
          /\ SumFunctionOnSet(ReservedDatagrams(s), DOMAIN s.objects) \in Nat
      BY <1>8, <1>5, ReservedTypes, SumRemove
    <3>. QED
      BY <1>1, <1>9, <3>1, <3>2 DEF FecReserved
  <2>. QED
    BY <1>1, <1>4, <1>9, <2>1, <2>2, <2>3, FecAssumption DEF FecLimits
<1>. QED
  BY <1>2, <1>3, <1>4, <1>7, <1>8, <1>9, <1>10 DEF FecOK

\* The reservations are numbers.
LEMMA ReservedNat ==
    ASSUME NEW r, NEW now, FecTypes(r, now), FecReserved(r)
    PROVE  r.bytes \in Nat /\ r.datagrams \in Nat
<1>1. /\ SumFunctionOnSet(ReservedBytes(r), DOMAIN r.objects) \in Nat
      /\ SumFunctionOnSet(ReservedDatagrams(r), DOMAIN r.objects) \in Nat
  BY ReservedTypes, SumRemove DEF FecTypes
<1>. QED
  BY <1>1 DEF FecReserved

\* Flows that have no object in flight may go.
LEMMA DropFlowsKeepsOK ==
    ASSUME NEW r, NEW now, FecOK(r, now), NEW quiet, \A f \in quiet : r.flows[f].active = 0,
           quiet \subseteq DOMAIN r.flows,
           NEW s, FecShape(s), s.flows = Without(r.flows, quiet), s.objects = r.objects,
           s.bytes = r.bytes, s.datagrams = r.datagrams, s.counters = r.counters,
           s.next_scan \in Int
    PROVE  FecOK(s, now) /\ FlowsFrom(s, r)
<1>1. FecTypes(r, now) /\ FecReserved(r) /\ FecLimits(r)
  BY DEF FecOK
<1>2. DOMAIN s.flows = DOMAIN r.flows \ quiet /\ \A f \in DOMAIN s.flows : s.flows[f] = r.flows[f]
  BY DEF Without
<1>3. IsFiniteSet(DOMAIN r.flows) /\ IsFiniteSet(DOMAIN r.objects) /\ IsFiniteSet(DOMAIN s.flows)
  BY <1>1, <1>2, FS_Subset DEF FecTypes
<1>4. \A f \in DOMAIN s.flows : ObjectsOf(s, f) = ObjectsOf(r, f)
  BY DEF ObjectsOf
<1>5. ASSUME NEW k \in DOMAIN r.objects
      PROVE  k[1] \notin quiet
  <2>1. SUFFICES ASSUME k[1] \in quiet PROVE FALSE
    OBVIOUS
  <2>2. r.flows[k[1]].active = Cardinality(ObjectsOf(r, k[1]))
    BY <1>1, <2>1 DEF FecReserved
  <2>3. Cardinality(ObjectsOf(r, k[1])) = 0
    BY <2>1, <2>2
  <2>4. IsFiniteSet(ObjectsOf(r, k[1])) /\ k \in ObjectsOf(r, k[1])
    BY <1>3, FS_Subset DEF ObjectsOf
  <2>5. ObjectsOf(r, k[1]) = {}
    BY <2>3, <2>4, FS_EmptySet
  <2>. QED
    BY <2>4, <2>5
<1>6. FecTypes(s, now)
  <2>1. s.flows \in [DOMAIN s.flows -> FecFlow(now)]
    <3>1. \A f \in DOMAIN s.flows : s.flows[f] \in FecFlow(now)
      BY <1>1, <1>2 DEF FecTypes
    <3>. QED
      BY <3>1 DEF Without
  <2>. QED
    BY <1>1, <1>2, <1>3, <2>1 DEF FecTypes
<1>7. FecReserved(s)
  <2>1. ReservedBytes(s) = ReservedBytes(r) /\ ReservedDatagrams(s) = ReservedDatagrams(r)
    BY DEF ReservedBytes, ReservedDatagrams
  <2>2. \A f \in DOMAIN s.flows : s.flows[f].active = Cardinality(ObjectsOf(s, f))
    BY <1>1, <1>2, <1>4 DEF FecReserved
  <2>3. \A k \in DOMAIN s.objects : k[1] \in DOMAIN s.flows
    BY <1>1, <1>2, <1>5 DEF FecReserved
  <2>. QED
    BY <1>1, <2>1, <2>2, <2>3 DEF FecReserved
<1>8. FecLimits(s)
  <2>1. Cardinality(DOMAIN s.flows) <= Cardinality(DOMAIN r.flows)
    BY <1>2, <1>3, FS_Subset
  <2>2. Cardinality(DOMAIN s.flows) \in Nat /\ Cardinality(DOMAIN r.flows) \in Nat
    BY <1>3, FS_CardinalityType
  <2>. QED
    BY <1>1, <2>1, <2>2, FecAssumption DEF FecLimits
<1>. QED
  BY <1>2, <1>6, <1>7, <1>8 DEF FecOK, FlowsFrom

\* The time between two scans.
ScanGap == Min({ScanEvery, ObjectTimeout, FlowTimeout})

\* The interval between scans is one of the three timeouts, the shortest.
LEMMA ScanGapType == ScanGap \in Nat /\ ScanGap <= ScanEvery
<1>. DEFINE S == {ScanEvery, ObjectTimeout, FlowTimeout}
<1>0. ScanEvery \in Nat /\ ObjectTimeout \in Nat /\ FlowTimeout \in Nat
  BY FecAssumption
<1>1. \E x \in S : \A y \in S : x <= y
  BY <1>0, LeastElement
<1>2. ScanGap \in S /\ \A y \in S : ScanGap <= y
  BY <1>1 DEF ScanGap, Min
<1>. QED
  BY <1>0, <1>2

\* After a scan no object that is left is idle.
LEMMA ExpireKeepsOK ==
    ASSUME NEW r, NEW now \in Nat, FecOK(r, now), NEW s, s = FecExpire(r, now)
    PROVE  /\ FecOK(s, now) /\ FlowsFrom(s, r)
           /\ s.counters = r.counters /\ s.next_scan = now + ScanGap
           /\ \A k \in DOMAIN s.objects : /\ k \in DOMAIN r.objects
                                          /\ s.objects[k] = r.objects[k]
                                          /\ now - s.objects[k].last < ObjectTimeout
<1>. DEFINE idle == {k \in DOMAIN r.objects : now - r.objects[k].last >= ObjectTimeout}
<1>1. PICK rest : rest = RemoveObjects(r, idle)
  OBVIOUS
<1>. DEFINE quiet == {f \in DOMAIN rest.flows :
                        rest.flows[f].active = 0 /\ now - rest.flows[f].last >= FlowTimeout}
<1>2. /\ FecOK(rest, now)
      /\ DOMAIN rest.objects = DOMAIN r.objects \ idle
      /\ \A k \in DOMAIN rest.objects : rest.objects[k] = r.objects[k]
      /\ DOMAIN rest.flows = DOMAIN r.flows
      /\ \A f \in DOMAIN rest.flows : rest.flows[f].completed = r.flows[f].completed
      /\ rest.counters = r.counters /\ rest.next_scan = r.next_scan
  <2>1. idle \in SUBSET DOMAIN r.objects
    OBVIOUS
  <2>. HIDE DEF idle
  <2>. QED
    BY <1>1, <2>1, RemoveKeepsOK
<1>3. s = [rest EXCEPT !.flows = Without(@, quiet), !.next_scan = now + ScanGap]
  BY <1>1 DEF FecExpire, ScanGap
<1>4. quiet \subseteq DOMAIN rest.flows /\ \A f \in quiet : rest.flows[f].active = 0
  OBVIOUS
<1>5. \A k \in DOMAIN r.objects \ idle : now - r.objects[k].last < ObjectTimeout
  <2>1. \A k \in DOMAIN r.objects : r.objects[k].last \in Nat
    BY DEF FecOK, FecTypes, FecObject
  <2>. QED
    BY <2>1, FecAssumption
<1>. HIDE DEF quiet, idle
<1>6. FecShape(rest)
  BY <1>2 DEF FecOK, FecTypes
<1>7. /\ FecShape(s) /\ s.flows = Without(rest.flows, quiet) /\ s.objects = rest.objects
      /\ s.bytes = rest.bytes /\ s.datagrams = rest.datagrams /\ s.counters = rest.counters
      /\ s.next_scan = now + ScanGap
  BY <1>3, <1>6 DEF FecShape
<1>8. s.next_scan \in Int
  BY <1>7, ScanGapType
<1>9. FecOK(s, now) /\ FlowsFrom(s, rest)
  BY <1>2, <1>4, <1>7, <1>8, DropFlowsKeepsOK
<1>10. FlowsFrom(s, r)
  BY <1>2, <1>9 DEF FlowsFrom
<1>. QED
  BY <1>2, <1>5, <1>7, <1>9, <1>10

\* Only counters and the last error differ.
SameState(s, r) ==
    /\ s.flows = r.flows /\ s.objects = r.objects
    /\ s.bytes = r.bytes /\ s.datagrams = r.datagrams /\ s.next_scan = r.next_scan

\* Counters and errors are no part of the accounting.
LEMMA SameStateKeepsOK ==
    ASSUME NEW r, NEW now, FecOK(r, now), NEW s, SameState(s, r), FecShape(s),
           s.counters \in FecCounters
    PROVE  FecOK(s, now)
<1>1. FecTypes(r, now) /\ FecReserved(r) /\ FecLimits(r)
  BY DEF FecOK
<1>2. FecTypes(s, now)
  BY <1>1 DEF FecTypes, SameState
<1>3. /\ ReservedBytes(s) = ReservedBytes(r) /\ ReservedDatagrams(s) = ReservedDatagrams(r)
      /\ \A f \in DOMAIN s.flows : ObjectsOf(s, f) = ObjectsOf(r, f)
  BY DEF ReservedBytes, ReservedDatagrams, ObjectsOf, SameState
<1>4. FecReserved(s)
  BY <1>1, <1>3 DEF FecReserved, SameState
<1>5. FecLimits(s)
  BY <1>1 DEF FecLimits, SameState
<1>. QED
  BY <1>2, <1>4, <1>5 DEF FecOK

\* A counter that grows changes nothing else.
LEMMA CountKeepsOK ==
    ASSUME NEW r, NEW now, FecOK(r, now),
           NEW field \in {"received", "accepted", "rejected", "buffered", "duplicate", "decoded"},
           NEW s, s = FecCount(r, field)
    PROVE  /\ FecOK(s, now) /\ SameState(s, r)
           /\ s.counters.decoded = r.counters.decoded + (IF field = "decoded" THEN 1 ELSE 0)
           /\ r.counters.decoded \in Nat
<1>1. FecShape(r) /\ r.counters \in FecCounters
  BY DEF FecOK, FecTypes
<1>. DEFINE c == [r.counters EXCEPT ![field] = @ + 1]
<1>2. /\ c \in FecCounters /\ r.counters.decoded \in Nat
      /\ c.decoded = r.counters.decoded + (IF field = "decoded" THEN 1 ELSE 0)
  BY <1>1 DEF FecCounters
<1>3. s = [r EXCEPT !.counters = c]
  BY DEF FecCount
<1>. HIDE DEF c
<1>4. FecShape(s) /\ SameState(s, r) /\ s.counters = c
  BY <1>1, <1>3 DEF FecShape, SameState
<1>. QED
  BY <1>2, <1>4, SameStateKeepsOK

\* A refusal changes the counters and the last error alone.
LEMMA RejectKeepsOK ==
    ASSUME NEW r, NEW now, FecOK(r, now), NEW error, NEW s, s = FecReject(r, error)
    PROVE  /\ FecOK(s, now) /\ SameState(s, r)
           /\ s.counters.decoded = r.counters.decoded /\ r.counters.decoded \in Nat
<1>1. FecShape(r) /\ r.counters \in FecCounters
  BY DEF FecOK, FecTypes
<1>2. PICK e : e = [r EXCEPT !.last_error = error]
  OBVIOUS
<1>3. FecShape(e) /\ SameState(e, r) /\ e.counters = r.counters
  BY <1>1, <1>2 DEF FecShape, SameState
<1>4. FecOK(e, now)
  BY <1>1, <1>3, SameStateKeepsOK
<1>5. s = FecCount(e, "rejected")
  BY <1>2 DEF FecReject
<1>6. /\ FecOK(s, now) /\ SameState(s, e) /\ e.counters.decoded \in Nat
      /\ s.counters.decoded = e.counters.decoded + 0
  BY <1>4, <1>5, CountKeepsOK
<1>. QED
  BY <1>3, <1>6 DEF SameState

\* The tracker keeps its type.
LEMMA ObserveType ==
    ASSUME NEW t \in Trackers, NEW q \in PacketSequences
    PROVE  ObserveSequence(t, q) \in Trackers
<1>1. /\ SequenceModulus \in Nat /\ SequenceModulus > 0 /\ q \in Int
  BY TrackerAssumption, FecAssumption
<1>2. \A x \in Int : x % SequenceModulus \in 0 .. SequenceModulus - 1
  BY <1>1
<1>3. (q + 1) % SequenceModulus \in 0 .. SequenceModulus - 1
  BY <1>1, <1>2
<1>4. ASSUME NEW n \in Int, n = WrappingSub(q, t.next_expected)
      PROVE  Skipped(q, n) \subseteq 0 .. SequenceModulus - 1
  <2>1. Min({n, MaxTrackedGaps}) \in Int
    <3>1. MaxTrackedGaps \in Int
      BY TrackerAssumption
    <3>2. \E x \in {n, MaxTrackedGaps} : \A y \in {n, MaxTrackedGaps} : x <= y
      BY <3>1
    <3>3. Min({n, MaxTrackedGaps}) \in {n, MaxTrackedGaps}
      BY <3>2 DEF Min
    <3>. QED
      BY <3>1, <3>3
  <2>2. \A k \in 1 .. Min({n, MaxTrackedGaps}) : WrappingSub(q, k) \in 0 .. SequenceModulus - 1
    BY <1>1, <1>2, <2>1 DEF WrappingSub
  <2>. QED
    BY <2>2 DEF Skipped
<1>5. WrappingSub(q, t.next_expected) \in Int
  BY <1>1, <1>2 DEF Trackers, WrappingSub
<1>6. Skipped(q, WrappingSub(q, t.next_expected)) \in SUBSET (0 .. SequenceModulus - 1)
  BY <1>4, <1>5
<1>7. t.next_expected \in -1 .. SequenceModulus - 1 /\ t.missing \in SUBSET (0 .. SequenceModulus - 1)
      /\ t = [next_expected |-> t.next_expected, missing |-> t.missing]
  BY DEF Trackers
<1>. DEFINE n == (q + 1) % SequenceModulus
            sk == Skipped(q, WrappingSub(q, t.next_expected))
            df == WrappingSub(q, t.next_expected)
<1>8. ObserveSequence(t, q) =
        IF t.next_expected = -1 THEN [t EXCEPT !.next_expected = n]
        ELSE IF Forward(df) THEN [next_expected |-> n, missing |-> IF df > 0 THEN sk ELSE t.missing]
        ELSE [t EXCEPT !.missing = @ \ {q}]
  BY DEF ObserveSequence
<1>9. n \in -1 .. SequenceModulus - 1 /\ sk \in SUBSET (0 .. SequenceModulus - 1)
  BY <1>1, <1>3, <1>6
<1>. HIDE DEF n, sk, df
<1>10. [t EXCEPT !.next_expected = n] \in Trackers
  BY <1>7, <1>9 DEF Trackers
<1>11. [next_expected |-> n, missing |-> IF df > 0 THEN sk ELSE t.missing] \in Trackers
  BY <1>7, <1>9 DEF Trackers
<1>12. [t EXCEPT !.missing = @ \ {q}] \in Trackers
  BY <1>7 DEF Trackers
<1>. QED
  BY <1>8, <1>10, <1>11, <1>12

\* s has the objects of r, and its flows with what they completed.
OnlyTouched(s, r) ==
    /\ s.objects = r.objects /\ s.bytes = r.bytes /\ s.datagrams = r.datagrams
    /\ s.next_scan = r.next_scan /\ s.counters = r.counters
    /\ DOMAIN s.flows = DOMAIN r.flows
    /\ \A f \in DOMAIN s.flows : s.flows[f].completed = r.flows[f].completed

\* A datagram that is observed changes its flow's tracker and last use alone.
LEMMA TouchKeepsOK ==
    ASSUME NEW r, NEW now \in Nat, FecOK(r, now), NEW flow \in DOMAIN r.flows,
           NEW q \in PacketSequences, NEW s, s = Touch(r, flow, q, now)
    PROVE  FecOK(s, now) /\ OnlyTouched(s, r)
<1>1. FecTypes(r, now) /\ FecReserved(r) /\ FecLimits(r) /\ FecShape(r)
  BY DEF FecOK, FecTypes
<1>. DEFINE fl == [r.flows EXCEPT ![flow].last = now, ![flow].tracker = ObserveSequence(@, q)]
            w == [r.flows[flow] EXCEPT !.last = now, !.tracker = ObserveSequence(@, q)]
<1>2. s = [r EXCEPT !.flows = fl]
  BY <1>1 DEF Touch, FecShape
<1>3. r.flows[flow] \in FecFlow(now) /\ r.flows \in [DOMAIN r.flows -> FecFlow(now)]
  BY <1>1 DEF FecTypes
<1>4. fl = [r.flows EXCEPT ![flow] = w]
  BY <1>3 DEF FecFlow
<1>5. w \in FecFlow(now) /\ w.active = r.flows[flow].active /\ w.completed = r.flows[flow].completed
  <2>1. r.flows[flow].tracker \in Trackers
    BY <1>3 DEF FecFlow
  <2>2. ObserveSequence(r.flows[flow].tracker, q) \in Trackers
    BY <2>1, ObserveType
  <2>3. PICK tr : tr = ObserveSequence(r.flows[flow].tracker, q)
    OBVIOUS
  <2>4. PICK v : v = r.flows[flow]
    OBVIOUS
  <2>5. w = [v EXCEPT !.last = now, !.tracker = tr]
    BY <2>3, <2>4
  <2>6. tr \in Trackers /\ v \in FecFlow(now) /\ now \in 0 .. now
    BY <1>3, <2>2, <2>3, <2>4
  <2>. HIDE DEF w
  <2>7. w \in FecFlow(now) /\ w.active = v.active /\ w.completed = v.completed
    BY <2>5, <2>6 DEF FecFlow
  <2>. QED
    BY <2>4, <2>7
<1>. HIDE DEF fl, w
<1>6. /\ FecShape(s) /\ s.flows = fl /\ s.objects = r.objects /\ s.bytes = r.bytes
      /\ s.datagrams = r.datagrams /\ s.next_scan = r.next_scan /\ s.counters = r.counters
  BY <1>1, <1>2 DEF FecShape
<1>7. /\ fl \in [DOMAIN r.flows -> FecFlow(now)] /\ DOMAIN fl = DOMAIN r.flows
      /\ \A f \in DOMAIN fl : fl[f].active = r.flows[f].active /\ fl[f].completed = r.flows[f].completed
  BY <1>3, <1>4, <1>5
<1>8. FecTypes(s, now)
  BY <1>1, <1>6, <1>7 DEF FecTypes
<1>9. /\ ReservedBytes(s) = ReservedBytes(r) /\ ReservedDatagrams(s) = ReservedDatagrams(r)
      /\ \A f \in DOMAIN s.flows : ObjectsOf(s, f) = ObjectsOf(r, f)
  BY <1>6 DEF ReservedBytes, ReservedDatagrams, ObjectsOf
<1>10. FecReserved(s)
  BY <1>1, <1>6, <1>7, <1>9 DEF FecReserved
<1>11. FecLimits(s)
  BY <1>1, <1>6, <1>7 DEF FecLimits
<1>. QED
  BY <1>6, <1>7, <1>8, <1>10, <1>11 DEF FecOK, OnlyTouched

\* The object of d is new and passes the ladder of limits.
Admissible(r, d) ==
    <<d.flow, d.block>> \notin DOMAIN r.objects /\ NewObjectRefusal(r, d) = "none"

\* An object that passes the ladder of limits fits.
LEMMA AdmitKeepsOK ==
    ASSUME NEW r, NEW now \in Nat, FecOK(r, now), NEW d \in FecDatagrams, Admissible(r, d),
           NEW s, s = AdmitObject(r, d, now)
    PROVE  /\ FecOK(s, now)
           /\ DOMAIN s.flows = DOMAIN r.flows \cup {d.flow}
           /\ \A f \in DOMAIN r.flows : s.flows[f].completed = r.flows[f].completed
           /\ d.flow \notin DOMAIN r.flows => s.flows[d.flow].completed = <<>>
           /\ DOMAIN s.objects = DOMAIN r.objects \cup {<<d.flow, d.block>>}
           /\ \A k \in DOMAIN r.objects : s.objects[k] = r.objects[k]
           /\ s.objects[<<d.flow, d.block>>] = NewObject(d.length, now)
           /\ s.datagrams = r.datagrams /\ s.counters = r.counters /\ s.next_scan = r.next_scan
<1>1. FecTypes(r, now) /\ FecReserved(r) /\ FecLimits(r) /\ FecShape(r)
  BY DEF FecOK, FecTypes
<1>2. PICK key : key = <<d.flow, d.block>>
  OBVIOUS
<1>3. d.flow \in FecFlows /\ d.block \in FecBlocks /\ d.length \in TransferLengths
  BY DEF FecDatagrams
<1>4. /\ key[1] = d.flow /\ key \in FecFlows \X FecBlocks /\ key \notin DOMAIN r.objects
  BY <1>2, <1>3 DEF Admissible
<1>5. PICK o : o = NewObject(d.length, now)
  OBVIOUS
<1>6. o \in FecObject(now) /\ o.length = d.length /\ o.accepted = 0 /\ d.length \in Nat
  <2>1. d.length \in Nat
    BY <1>3, FecAssumption
  <2>2. o = [length |-> d.length, accepted |-> 0, last |-> now] /\ now \in 0 .. now
    BY <1>5 DEF NewObject
  <2>3. PICK n : n = d.length
    OBVIOUS
  <2>. QED
    BY <1>3, <2>1, <2>2, <2>3 DEF FecObject
<1>. DEFINE was == IF d.flow \in DOMAIN r.flows THEN r.flows[d.flow] ELSE NewFlow(now)
            w == MoreActive(was)
<1>7. s = [r EXCEPT !.flows = With(@, d.flow, w), !.objects = With(@, key, o), !.bytes = @ + d.length]
  BY <1>2, <1>5 DEF AdmitObject
<1>8. was \in FecFlow(now) /\ was.active = Cardinality(ObjectsOf(r, d.flow))
      /\ (d.flow \notin DOMAIN r.flows => was.completed = <<>>)
  <2>1. CASE d.flow \in DOMAIN r.flows
    BY <1>1, <2>1 DEF FecTypes, FecReserved
  <2>2. CASE d.flow \notin DOMAIN r.flows
    <3>1. was = NewFlow(now)
      BY <2>2
    <3>2. NoTracker \in Trackers
      BY TrackerAssumption DEF NoTracker, Trackers
    <3>3. <<>> \in Seq(FecBlocks)
      OBVIOUS
    <3>4. NewFlow(now) \in FecFlow(now) /\ NewFlow(now).active = 0 /\ NewFlow(now).completed = <<>>
      BY <3>2, <3>3 DEF NewFlow, FecFlow
    <3>5. ObjectsOf(r, d.flow) = {}
      BY <1>1, <2>2 DEF ObjectsOf, FecReserved
    <3>6. Cardinality(ObjectsOf(r, d.flow)) = 0
      BY <3>5, FS_EmptySet
    <3>. QED
      BY <3>1, <3>4, <3>6
  <2>. QED
    BY <2>1, <2>2
<1>9. w \in FecFlow(now) /\ w.active = Cardinality(ObjectsOf(r, d.flow)) + 1 /\ w.completed = was.completed
  <2>. HIDE DEF was
  <2>. QED
    BY <1>8 DEF MoreActive, FecFlow
<1>10. \A f \in DOMAIN r.flows : f = d.flow => was = r.flows[f]
  OBVIOUS
<1>. HIDE DEF was, w
<1>11. /\ FecShape(s) /\ s.flows = With(r.flows, d.flow, w) /\ s.objects = With(r.objects, key, o)
       /\ s.bytes = r.bytes + d.length /\ s.datagrams = r.datagrams
       /\ s.counters = r.counters /\ s.next_scan = r.next_scan
  BY <1>1, <1>7 DEF FecShape
<1>12. /\ DOMAIN s.objects = DOMAIN r.objects \cup {key} /\ s.objects[key] = o
       /\ \A k \in DOMAIN r.objects : s.objects[k] = r.objects[k]
  BY <1>4, <1>11 DEF With
<1>13. /\ DOMAIN s.flows = DOMAIN r.flows \cup {d.flow} /\ s.flows[d.flow] = w
       /\ \A f \in DOMAIN r.flows : f # d.flow => s.flows[f] = r.flows[f]
  BY <1>11 DEF With
<1>14. /\ IsFiniteSet(DOMAIN r.objects) /\ IsFiniteSet(DOMAIN r.flows)
       /\ IsFiniteSet(DOMAIN s.objects) /\ IsFiniteSet(DOMAIN s.flows)
  <2>1. IsFiniteSet(DOMAIN r.objects) /\ IsFiniteSet(DOMAIN r.flows)
    BY <1>1 DEF FecTypes
  <2>2. IsFiniteSet(DOMAIN s.objects)
    BY <1>12, <2>1, FS_AddElement
  <2>3. IsFiniteSet(DOMAIN s.flows)
    BY <1>13, <2>1, FS_AddElement
  <2>. QED
    BY <2>1, <2>2, <2>3
<1>15. FecTypes(s, now)
  <2>1. s.flows \in [DOMAIN s.flows -> FecFlow(now)]
    <3>1. \A f \in DOMAIN s.flows : s.flows[f] \in FecFlow(now)
      BY <1>1, <1>9, <1>13 DEF FecTypes
    <3>. QED
      BY <1>11, <3>1 DEF With
  <2>2. s.objects \in [DOMAIN s.objects -> FecObject(now)]
    <3>1. \A k \in DOMAIN s.objects : s.objects[k] \in FecObject(now)
      BY <1>1, <1>6, <1>12 DEF FecTypes
    <3>. QED
      BY <1>11, <3>1 DEF With
  <2>. QED
    BY <1>1, <1>3, <1>4, <1>11, <1>12, <1>13, <1>14, <2>1, <2>2 DEF FecTypes
<1>16. \A f \in DOMAIN s.flows : s.flows[f].active = Cardinality(ObjectsOf(s, f))
  <2>1. SUFFICES ASSUME NEW f \in DOMAIN s.flows
                 PROVE  s.flows[f].active = Cardinality(ObjectsOf(s, f))
    OBVIOUS
  <2>2. CASE f = d.flow
    <3>1. ObjectsOf(s, f) = ObjectsOf(r, f) \cup {key} /\ key \notin ObjectsOf(r, f)
      BY <1>4, <1>12, <2>2 DEF ObjectsOf
    <3>2. IsFiniteSet(ObjectsOf(r, f))
      BY <1>14, FS_Subset DEF ObjectsOf
    <3>3. Cardinality(ObjectsOf(s, f)) = Cardinality(ObjectsOf(r, f)) + 1
      BY <3>1, <3>2, FS_AddElement
    <3>. QED
      BY <1>9, <1>13, <2>2, <3>3
  <2>3. CASE f # d.flow
    <3>1. ObjectsOf(s, f) = ObjectsOf(r, f) /\ f \in DOMAIN r.flows
      BY <1>4, <1>12, <1>13, <2>3 DEF ObjectsOf
    <3>. QED
      BY <1>1, <1>13, <2>3, <3>1 DEF FecReserved
  <2>. QED
    BY <2>2, <2>3
<1>17. /\ SumFunctionOnSet(ReservedBytes(s), DOMAIN s.objects) = r.bytes + d.length
       /\ SumFunctionOnSet(ReservedDatagrams(s), DOMAIN s.objects) = r.datagrams
  <2>1. \A k \in DOMAIN r.objects : /\ ReservedBytes(s)[k] = ReservedBytes(r)[k]
                                    /\ ReservedDatagrams(s)[k] = ReservedDatagrams(r)[k]
    BY <1>12 DEF ReservedBytes, ReservedDatagrams
  <2>2. ReservedBytes(s)[key] = d.length /\ ReservedDatagrams(s)[key] = 0
    BY <1>6, <1>12 DEF ReservedBytes, ReservedDatagrams
  <2>3. PICK S : S = DOMAIN r.objects
    OBVIOUS
  <2>4. PICK a, b : a = ReservedBytes(r) /\ b = ReservedBytes(s)
    OBVIOUS
  <2>5. PICK x, y : x = ReservedDatagrams(r) /\ y = ReservedDatagrams(s)
    OBVIOUS
  <2>6. /\ IsFiniteSet(S) /\ key \notin S
        /\ NatOn(a, S) /\ SameOn(b, a, S) /\ NatOn(x, S) /\ SameOn(y, x, S)
        /\ d.length = b[key] /\ 0 = y[key] /\ d.length \in Nat
    BY <1>1, <1>4, <1>6, <1>14, <2>1, <2>2, <2>3, <2>4, <2>5, ReservedTypes DEF NatOn, SameOn
  <2>7. SumFunctionOnSet(b, S \cup {key}) = SumFunctionOnSet(a, S) + d.length
    <3>1. PICK n \in Nat : n = d.length
      BY <2>6
    <3>2. n = b[key]
      BY <2>6, <3>1
    <3>3. SumFunctionOnSet(b, S \cup {key}) = SumFunctionOnSet(a, S) + n
      <4>1. IsFiniteSet(S) /\ key \notin S /\ NatOn(a, S) /\ SameOn(b, a, S)
        BY <2>6
      <4>. QED
        BY <3>2, <4>1, SumWith
    <3>. QED
      BY <3>1, <3>3
  <2>8. SumFunctionOnSet(y, S \cup {key}) = SumFunctionOnSet(x, S) + 0 /\ SumFunctionOnSet(x, S) \in Nat
    BY <2>6, SumWith
  <2>9. r.bytes = SumFunctionOnSet(a, S) /\ r.datagrams = SumFunctionOnSet(x, S)
    BY <1>1, <2>3, <2>4, <2>5 DEF FecReserved
  <2>. QED
    BY <1>12, <2>3, <2>4, <2>5, <2>6, <2>7, <2>8, <2>9
<1>18. FecReserved(s)
  <2>1. \A k \in DOMAIN s.objects : k[1] \in DOMAIN s.flows
    BY <1>1, <1>4, <1>12, <1>13 DEF FecReserved
  <2>. QED
    BY <1>11, <1>16, <1>17, <2>1 DEF FecReserved
<1>19. /\ d.flow \notin DOMAIN r.flows => ~(Cardinality(DOMAIN r.flows) >= MaxFlows)
       /\ ~(Cardinality(DOMAIN r.objects) >= MaxActiveObjects)
       /\ ~(r.bytes + d.length > MaxBufferedBytes)
  BY DEF Admissible, NewObjectRefusal
<1>20. FecLimits(s)
  <2>1. /\ Cardinality(DOMAIN r.objects) \in Nat /\ Cardinality(DOMAIN r.flows) \in Nat
        /\ r.bytes \in Nat
    BY <1>1, <1>14, FS_CardinalityType, ReservedNat
  <2>2. Cardinality(DOMAIN s.objects) = Cardinality(DOMAIN r.objects) + 1
    BY <1>4, <1>12, <1>14, FS_AddElement
  <2>3. Cardinality(DOMAIN s.flows) <= MaxFlows
    <3>1. CASE d.flow \in DOMAIN r.flows
      <4>1. DOMAIN s.flows = DOMAIN r.flows
        BY <1>13, <3>1
      <4>. QED
        BY <1>1, <4>1 DEF FecLimits
    <3>2. CASE d.flow \notin DOMAIN r.flows
      <4>1. Cardinality(DOMAIN s.flows) = Cardinality(DOMAIN r.flows) + 1
        BY <1>13, <1>14, <3>2, FS_AddElement
      <4>. QED
        BY <1>19, <2>1, <3>2, <4>1, FecAssumption
    <3>. QED
      BY <3>1, <3>2
  <2>. QED
    BY <1>1, <1>6, <1>11, <1>19, <2>1, <2>2, <2>3, FecAssumption DEF FecLimits
<1>21. \A f \in DOMAIN r.flows : s.flows[f].completed = r.flows[f].completed
  BY <1>9, <1>10, <1>13
<1>. QED
  BY <1>2, <1>5, <1>8, <1>9, <1>11, <1>12, <1>13, <1>15, <1>18, <1>20, <1>21 DEF FecOK

\* A datagram for an object in flight.
Feed(r, key, now) == [r EXCEPT !.objects[key].last = now, !.objects[key].accepted = @ + 1,
                               !.datagrams = @ + 1]

\* An object that takes one more datagram.
LEMMA FedObjectType ==
    ASSUME NEW now \in Nat, NEW v \in FecObject(now)
    PROVE  /\ [v EXCEPT !.last = now, !.accepted = @ + 1] \in FecObject(now)
           /\ [v EXCEPT !.last = now, !.accepted = @ + 1].last = now
           /\ [v EXCEPT !.last = now, !.accepted = @ + 1].length = v.length
           /\ [v EXCEPT !.last = now, !.accepted = @ + 1].accepted = v.accepted + 1
<1>1. v.accepted \in Nat
  BY DEF FecObject
<1>2. PICK m \in Nat : m = v.accepted + 1
  BY <1>1
<1>3. now \in 0 .. now
  OBVIOUS
<1>4. /\ [v EXCEPT !.last = now, !.accepted = m] \in FecObject(now)
      /\ [v EXCEPT !.last = now, !.accepted = m].last = now
      /\ [v EXCEPT !.last = now, !.accepted = m].length = v.length
      /\ [v EXCEPT !.last = now, !.accepted = m].accepted = m
  BY <1>3 DEF FecObject
<1>. QED
  BY <1>2, <1>4

\* A datagram handed to an object is reserved with it.
LEMMA FeedKeepsOK ==
    ASSUME NEW r, NEW now \in Nat, FecOK(r, now), NEW key \in DOMAIN r.objects,
           r.datagrams < MaxBufferedDatagrams, NEW s, s = Feed(r, key, now)
    PROVE  /\ FecOK(s, now) /\ s.flows = r.flows /\ DOMAIN s.objects = DOMAIN r.objects
           /\ ObjectsFrom(s, r, now) /\ s.counters = r.counters /\ s.next_scan = r.next_scan
<1>1. FecTypes(r, now) /\ FecReserved(r) /\ FecLimits(r) /\ FecShape(r)
  BY DEF FecOK, FecTypes
<1>2. r.objects[key] \in FecObject(now) /\ r.objects \in [DOMAIN r.objects -> FecObject(now)]
  BY <1>1 DEF FecTypes
<1>. DEFINE w == [r.objects[key] EXCEPT !.last = now, !.accepted = @ + 1]
            ob == [r.objects EXCEPT ![key] = w]
<1>3. s = [r EXCEPT !.objects = ob, !.datagrams = @ + 1]
  BY <1>1, <1>2 DEF Feed, FecShape, FecObject
<1>4. /\ w \in FecObject(now) /\ w.last = now /\ w.length = r.objects[key].length
      /\ w.accepted = r.objects[key].accepted + 1
  BY <1>2, FedObjectType
<1>. HIDE DEF w
<1>5. /\ ob \in [DOMAIN r.objects -> FecObject(now)] /\ DOMAIN ob = DOMAIN r.objects
      /\ ob[key] = w /\ \A k \in DOMAIN r.objects : k # key => ob[k] = r.objects[k]
  BY <1>2, <1>4
<1>. HIDE DEF ob
<1>6. /\ FecShape(s) /\ s.objects = ob /\ s.flows = r.flows /\ s.bytes = r.bytes
      /\ s.datagrams = r.datagrams + 1 /\ s.counters = r.counters /\ s.next_scan = r.next_scan
  BY <1>1, <1>3 DEF FecShape
<1>7. FecTypes(s, now)
  BY <1>1, <1>5, <1>6 DEF FecTypes
<1>8. ReservedBytes(s) = ReservedBytes(r)
  <2>1. \A k \in DOMAIN r.objects : ob[k].length = r.objects[k].length
    BY <1>4, <1>5
  <2>. QED
    BY <1>5, <1>6, <2>1 DEF ReservedBytes
<1>9. SumFunctionOnSet(ReservedDatagrams(s), DOMAIN r.objects)
        = SumFunctionOnSet(ReservedDatagrams(r), DOMAIN r.objects) + 1
  <2>1. \A k \in DOMAIN r.objects : k # key => ReservedDatagrams(s)[k] = ReservedDatagrams(r)[k]
    BY <1>5, <1>6 DEF ReservedDatagrams
  <2>2. ReservedDatagrams(s)[key] = ReservedDatagrams(r)[key] + 1
    BY <1>4, <1>5, <1>6 DEF ReservedDatagrams
  <2>3. PICK S, x, y : S = DOMAIN r.objects /\ x = ReservedDatagrams(r) /\ y = ReservedDatagrams(s)
    OBVIOUS
  <2>4. IsFiniteSet(S) /\ key \in S /\ NatOn(x, S) /\ SameOn(y, x, S \ {key}) /\ 1 \in Nat
    BY <1>1, <2>1, <2>3, ReservedTypes DEF FecTypes, NatOn, SameOn
  <2>5. y[key] = x[key] + 1
    BY <2>2, <2>3
  <2>6. SumFunctionOnSet(y, S) = SumFunctionOnSet(x, S) + 1
    BY <2>4, <2>5, SumUpdate
  <2>. QED
    BY <2>3, <2>6
<1>10. FecReserved(s)
  <2>1. \A f \in DOMAIN s.flows : ObjectsOf(s, f) = ObjectsOf(r, f)
    BY <1>5, <1>6 DEF ObjectsOf
  <2>. QED
    BY <1>1, <1>5, <1>6, <1>8, <1>9, <2>1 DEF FecReserved
<1>11. FecLimits(s)
  <2>1. r.datagrams \in Nat
    BY <1>1, ReservedNat
  <2>. QED
    BY <1>1, <1>5, <1>6, <2>1, FecAssumption DEF FecLimits
<1>12. ObjectsFrom(s, r, now)
  BY <1>4, <1>5, <1>6 DEF ObjectsFrom
<1>. QED
  BY <1>5, <1>6, <1>7, <1>10, <1>11, <1>12 DEF FecOK

CompletedOf(r, f) == IF f \in DOMAIN r.flows THEN r.flows[f].completed ELSE <<>>

\* What a datagram may do to the flows: nothing, or complete its own object.
NothingDecoded(s, r) ==
    /\ s.counters.decoded = r.counters.decoded
    /\ \A f \in DOMAIN s.flows : s.flows[f].completed = CompletedOf(r, f)

BlockDecoded(s, r, d) ==
    /\ s.counters.decoded = r.counters.decoded + 1
    /\ d.flow \in DOMAIN s.flows
    /\ d.block \notin Range(CompletedOf(r, d.flow))
    /\ s.flows[d.flow].completed = MarkCompleted(CompletedOf(r, d.flow), d.block)
    /\ \A f \in DOMAIN s.flows : f # d.flow => s.flows[f].completed = CompletedOf(r, f)

Outcome(s, r, d, now) ==
    /\ FecOK(s, now) /\ ObjectsFrom(s, r, now) /\ s.next_scan = r.next_scan
    /\ NothingDecoded(s, r) \/ BlockDecoded(s, r, d)

\* A completed set is a sequence of blocks.
LEMMA MarkType ==
    ASSUME NEW c \in Seq(FecBlocks), NEW b \in FecBlocks
    PROVE  MarkCompleted(c, b) \in Seq(FecBlocks)
<1>1. PICK l : l = Append(c, b)
  OBVIOUS
<1>2. l \in Seq(FecBlocks) /\ l # <<>> /\ Len(l) = Len(c) + 1
  BY <1>1
<1>3. Tail(l) \in Seq(FecBlocks)
  BY <1>2
<1>. QED
  BY <1>1, <1>2, <1>3 DEF MarkCompleted

\* A flow whose completed set is replaced.
LEMMA MarkKeepsOK ==
    ASSUME NEW r, NEW now, FecOK(r, now), NEW flow \in DOMAIN r.flows, NEW c \in Seq(FecBlocks),
           NEW s, s = [r EXCEPT !.flows[flow].completed = c]
    PROVE  /\ FecOK(s, now) /\ DOMAIN s.flows = DOMAIN r.flows
           /\ s.flows[flow].completed = c
           /\ \A f \in DOMAIN r.flows : f # flow => s.flows[f] = r.flows[f]
           /\ s.objects = r.objects /\ s.counters = r.counters /\ s.next_scan = r.next_scan
<1>1. FecTypes(r, now) /\ FecReserved(r) /\ FecLimits(r) /\ FecShape(r)
  BY DEF FecOK, FecTypes
<1>2. r.flows \in [DOMAIN r.flows -> FecFlow(now)] /\ r.flows[flow] \in FecFlow(now)
  BY <1>1 DEF FecTypes
<1>. DEFINE w == [r.flows[flow] EXCEPT !.completed = c]
            fl == [r.flows EXCEPT ![flow] = w]
<1>3. s = [r EXCEPT !.flows = fl]
  BY <1>1, <1>2 DEF FecShape
<1>4. w \in FecFlow(now) /\ w.completed = c /\ w.active = r.flows[flow].active
  BY <1>2 DEF FecFlow
<1>. HIDE DEF w
<1>5. /\ fl \in [DOMAIN r.flows -> FecFlow(now)] /\ DOMAIN fl = DOMAIN r.flows
      /\ fl[flow] = w /\ \A f \in DOMAIN r.flows : f # flow => fl[f] = r.flows[f]
  BY <1>2, <1>4
<1>. HIDE DEF fl
<1>6. /\ FecShape(s) /\ s.flows = fl /\ s.objects = r.objects /\ s.bytes = r.bytes
      /\ s.datagrams = r.datagrams /\ s.counters = r.counters /\ s.next_scan = r.next_scan
  BY <1>1, <1>3 DEF FecShape
<1>7. FecTypes(s, now)
  BY <1>1, <1>5, <1>6 DEF FecTypes
<1>8. /\ ReservedBytes(s) = ReservedBytes(r) /\ ReservedDatagrams(s) = ReservedDatagrams(r)
      /\ \A f \in DOMAIN s.flows : ObjectsOf(s, f) = ObjectsOf(r, f)
  BY <1>6 DEF ReservedBytes, ReservedDatagrams, ObjectsOf
<1>9. FecReserved(s)
  BY <1>1, <1>4, <1>5, <1>6, <1>8 DEF FecReserved
<1>10. FecLimits(s)
  BY <1>1, <1>5, <1>6 DEF FecLimits
<1>. QED
  BY <1>4, <1>5, <1>6, <1>7, <1>9, <1>10 DEF FecOK

\* remove_empty_flow.
LEMMA RemoveEmptyKeepsOK ==
    ASSUME NEW r, NEW now, FecOK(r, now), NEW flow \in DOMAIN r.flows,
           NEW s, s = RemoveEmptyFlow(r, flow)
    PROVE  /\ FecOK(s, now) /\ FlowsFrom(s, r)
           /\ s.objects = r.objects /\ s.counters = r.counters /\ s.next_scan = r.next_scan
<1>1. FecShape(r) /\ r.next_scan \in Int
  BY DEF FecOK, FecTypes
<1>2. CASE r.flows[flow].active = 0 /\ r.flows[flow].completed = <<>>
  <2>1. s = [r EXCEPT !.flows = Without(@, {flow})]
    BY <1>2 DEF RemoveEmptyFlow
  <2>2. /\ FecShape(s) /\ s.flows = Without(r.flows, {flow}) /\ s.objects = r.objects
        /\ s.bytes = r.bytes /\ s.datagrams = r.datagrams /\ s.counters = r.counters
        /\ s.next_scan = r.next_scan
    BY <1>1, <2>1 DEF FecShape
  <2>3. (\A f \in {flow} : r.flows[f].active = 0) /\ {flow} \subseteq DOMAIN r.flows
    BY <1>2
  <2>4. PICK quiet : quiet = {flow}
    OBVIOUS
  <2>5. (\A f \in quiet : r.flows[f].active = 0) /\ quiet \subseteq DOMAIN r.flows
        /\ s.flows = Without(r.flows, quiet)
    BY <2>2, <2>3, <2>4
  <2>6. FecOK(s, now) /\ FlowsFrom(s, r)
    BY <1>1, <2>2, <2>5, DropFlowsKeepsOK
  <2>. QED
    BY <2>2, <2>6
<1>3. CASE ~(r.flows[flow].active = 0 /\ r.flows[flow].completed = <<>>)
  <2>1. s = r
    BY <1>3 DEF RemoveEmptyFlow
  <2>. QED
    BY <2>1 DEF FlowsFrom
<1>. QED
  BY <1>2, <1>3

\* The object of d is in flight, may have one more datagram and is not completed.
Decodable(r, d) ==
    /\ <<d.flow, d.block>> \in DOMAIN r.objects
    /\ r.datagrams < MaxBufferedDatagrams
    /\ d.block \notin Range(r.flows[d.flow].completed)

\* What the decoder's answer leads to, for an object in flight.
LEMMA DecodeOutcome ==
    ASSUME NEW r, NEW now \in Nat, FecOK(r, now), NEW d \in FecDatagrams, Decodable(r, d),
           NEW answer, NEW newFlow \in BOOLEAN, NEW s, s = FecDecode(r, d, answer, newFlow, now)
    PROVE  Outcome(s, r, d, now)
<1>1. PICK key : key = <<d.flow, d.block>>
  OBVIOUS
<1>2. /\ key \in DOMAIN r.objects /\ key[1] = d.flow /\ r.datagrams < MaxBufferedDatagrams
      /\ d.block \in FecBlocks /\ d.sequence \in PacketSequences
  BY <1>1 DEF Decodable, FecDatagrams
<1>3. d.flow \in DOMAIN r.flows
  BY <1>2 DEF FecOK, FecReserved
<1>4. PICK t : t = Touch(r, d.flow, d.sequence, now)
  OBVIOUS
<1>5. FecOK(t, now) /\ OnlyTouched(t, r)
  BY <1>2, <1>3, <1>4, TouchKeepsOK
<1>6. PICK fed : fed = Feed(t, key, now)
  OBVIOUS
<1>7. /\ FecOK(fed, now) /\ fed.flows = t.flows /\ DOMAIN fed.objects = DOMAIN t.objects
      /\ ObjectsFrom(fed, t, now) /\ fed.counters = t.counters /\ fed.next_scan = t.next_scan
  <2>1. key \in DOMAIN t.objects /\ t.datagrams < MaxBufferedDatagrams
    BY <1>2, <1>5 DEF OnlyTouched
  <2>. QED
    BY <1>5, <1>6, <2>1, FeedKeepsOK
<1>8. /\ ObjectsFrom(fed, r, now) /\ fed.counters = r.counters /\ fed.next_scan = r.next_scan
      /\ DOMAIN fed.flows = DOMAIN r.flows /\ key \in DOMAIN fed.objects
      /\ \A f \in DOMAIN fed.flows : fed.flows[f].completed = r.flows[f].completed
  BY <1>2, <1>5, <1>7 DEF OnlyTouched, ObjectsFrom
<1>9. r.counters.decoded \in Nat
  BY DEF FecOK, FecTypes, FecCounters
<1>10. PICK gone : gone = RemoveObjects(fed, {key})
  OBVIOUS
<1>11. /\ FecOK(gone, now) /\ ObjectsFrom(gone, r, now)
       /\ gone.counters = r.counters /\ gone.next_scan = r.next_scan
       /\ DOMAIN gone.flows = DOMAIN r.flows
       /\ \A f \in DOMAIN gone.flows : gone.flows[f].completed = r.flows[f].completed
  <2>1. {key} \in SUBSET DOMAIN fed.objects
    BY <1>8
  <2>2. /\ FecOK(gone, now)
        /\ DOMAIN gone.objects = DOMAIN fed.objects \ {key}
        /\ \A k \in DOMAIN gone.objects : gone.objects[k] = fed.objects[k]
        /\ DOMAIN gone.flows = DOMAIN fed.flows
        /\ \A f \in DOMAIN gone.flows : gone.flows[f].completed = fed.flows[f].completed
        /\ gone.counters = fed.counters /\ gone.next_scan = fed.next_scan
    BY <1>7, <1>10, <2>1, RemoveKeepsOK
  <2>3. ObjectsFrom(gone, r, now)
    BY <1>8, <2>2 DEF ObjectsFrom
  <2>. QED
    BY <1>8, <2>2, <2>3
<1>12. CASE answer = "decoded"
  <2>1. PICK m : m = [gone EXCEPT !.flows[d.flow].completed = MarkCompleted(@, d.block)]
    BY Zenon
  <2>2. s = FecCount(FecCount(m, "accepted"), "decoded")
    BY <1>1, <1>4, <1>6, <1>10, <1>12, <2>1, Zenon DEF FecDecode, Feed
  <2>3. PICK c : c = MarkCompleted(r.flows[d.flow].completed, d.block)
    OBVIOUS
  <2>4. r.flows[d.flow].completed \in Seq(FecBlocks)
    BY <1>3 DEF FecOK, FecTypes, FecFlow
  <2>5. c \in Seq(FecBlocks)
    BY <1>2, <2>3, <2>4, MarkType
  <2>6. m = [gone EXCEPT !.flows[d.flow].completed = c]
    BY <1>3, <1>11, <2>1, <2>3
  <2>7. /\ FecOK(m, now) /\ DOMAIN m.flows = DOMAIN gone.flows
        /\ m.flows[d.flow].completed = c
        /\ \A f \in DOMAIN gone.flows : f # d.flow => m.flows[f] = gone.flows[f]
        /\ m.objects = gone.objects /\ m.counters = gone.counters /\ m.next_scan = gone.next_scan
    BY <1>3, <1>11, <2>5, <2>6, MarkKeepsOK
  <2>8. PICK a : a = FecCount(m, "accepted")
    OBVIOUS
  <2>9. FecOK(a, now) /\ SameState(a, m) /\ a.counters.decoded = m.counters.decoded + 0
    BY <2>7, <2>8, CountKeepsOK
  <2>10. FecOK(s, now) /\ SameState(s, a) /\ s.counters.decoded = a.counters.decoded + 1
    BY <2>2, <2>8, <2>9, CountKeepsOK
  <2>11. /\ s.flows = m.flows /\ s.objects = m.objects /\ s.next_scan = m.next_scan
         /\ s.counters.decoded = r.counters.decoded + 1
    BY <1>9, <1>11, <2>7, <2>9, <2>10 DEF SameState
  <2>12. BlockDecoded(s, r, d)
    <3>1. d.block \notin Range(r.flows[d.flow].completed)
      BY DEF Decodable
    <3>2. CompletedOf(r, d.flow) = r.flows[d.flow].completed
      BY <1>3 DEF CompletedOf
    <3>3. \A f \in DOMAIN s.flows : f # d.flow => s.flows[f].completed = CompletedOf(r, f)
      BY <1>11, <2>7, <2>11 DEF CompletedOf
    <3>. QED
      BY <1>3, <1>11, <2>3, <2>7, <2>11, <3>1, <3>2, <3>3 DEF BlockDecoded
  <2>13. ObjectsFrom(s, r, now) /\ s.next_scan = r.next_scan
    BY <1>11, <2>7, <2>11 DEF ObjectsFrom
  <2>. QED
    BY <2>10, <2>12, <2>13 DEF Outcome
<1>13. CASE answer = "more"
  <2>1. s = FecCount(FecCount(fed, "accepted"), "buffered")
    BY <1>1, <1>4, <1>6, <1>13 DEF FecDecode, Feed
  <2>2. PICK a : a = FecCount(fed, "accepted")
    OBVIOUS
  <2>3. FecOK(a, now) /\ SameState(a, fed) /\ a.counters.decoded = fed.counters.decoded + 0
    BY <1>7, <2>2, CountKeepsOK
  <2>4. FecOK(s, now) /\ SameState(s, a) /\ s.counters.decoded = a.counters.decoded + 0
    BY <2>1, <2>2, <2>3, CountKeepsOK
  <2>5. /\ s.flows = fed.flows /\ s.objects = fed.objects /\ s.next_scan = fed.next_scan
        /\ s.counters.decoded = r.counters.decoded
    BY <1>8, <1>9, <2>3, <2>4 DEF SameState
  <2>6. NothingDecoded(s, r)
    BY <1>8, <2>5 DEF NothingDecoded, CompletedOf
  <2>7. ObjectsFrom(s, r, now) /\ s.next_scan = r.next_scan
    BY <1>8, <2>5 DEF ObjectsFrom
  <2>. QED
    BY <2>4, <2>6, <2>7 DEF Outcome
<1>14. CASE answer # "decoded" /\ answer # "more"
  <2>1. PICK g : g = IF newFlow THEN RemoveEmptyFlow(gone, d.flow) ELSE gone
    OBVIOUS
  <2>2. s = FecReject(g, "Fec")
    <3>1. gone = RemoveObjects(Feed(Touch(r, d.flow, d.sequence, now), key, now), {key})
      BY <1>4, <1>6, <1>10, Zenon
    <3>2. s = FecReject(IF newFlow THEN RemoveEmptyFlow(gone, d.flow) ELSE gone, "Fec")
      BY <1>1, <1>14, <3>1 DEF FecDecode, Feed
    <3>. QED
      BY <2>1, <3>2
  <2>3. /\ FecOK(g, now) /\ FlowsFrom(g, gone)
        /\ g.objects = gone.objects /\ g.counters = gone.counters /\ g.next_scan = gone.next_scan
    <3>1. CASE newFlow
      <4>1. g = RemoveEmptyFlow(gone, d.flow)
        BY <2>1, <3>1
      <4>. QED
        BY <1>3, <1>11, <4>1, RemoveEmptyKeepsOK
    <3>2. CASE ~newFlow
      <4>1. g = gone
        BY <2>1, <3>2
      <4>. QED
        BY <1>11, <4>1 DEF FlowsFrom
    <3>. QED
      BY <3>1, <3>2
  <2>4. FecOK(s, now) /\ SameState(s, g) /\ s.counters.decoded = g.counters.decoded
    BY <2>2, <2>3, RejectKeepsOK
  <2>5. NothingDecoded(s, r)
    BY <1>11, <2>3, <2>4 DEF NothingDecoded, CompletedOf, FlowsFrom, SameState
  <2>6. ObjectsFrom(s, r, now) /\ s.next_scan = r.next_scan
    BY <1>11, <2>3, <2>4 DEF ObjectsFrom, SameState
  <2>. QED
    BY <2>4, <2>5, <2>6 DEF Outcome
<1>. QED
  BY <1>12, <1>13, <1>14

\* What a receiver does to a datagram does not depend on how it got its object.
LEMMA OutcomeFrom ==
    ASSUME NEW s, NEW a, NEW r, NEW d, NEW now, Outcome(s, a, d, now),
           \A f \in DOMAIN s.flows : CompletedOf(a, f) = CompletedOf(r, f),
           CompletedOf(a, d.flow) = CompletedOf(r, d.flow),
           ObjectsFrom(a, r, now), a.counters = r.counters, a.next_scan = r.next_scan
    PROVE  Outcome(s, r, d, now)
<1>1. ObjectsFrom(s, r, now)
  BY DEF Outcome, ObjectsFrom
<1>2. NothingDecoded(s, a) => NothingDecoded(s, r)
  BY DEF NothingDecoded
<1>3. BlockDecoded(s, a, d) => BlockDecoded(s, r, d)
  BY DEF BlockDecoded
<1>. QED
  BY <1>1, <1>2, <1>3 DEF Outcome

\* The rungs of the ladder a datagram may stop at.
Refused(s, r) == \E error : s = FecReject(r, error)

Duplicate(s, r, d, now) ==
    /\ d.flow \in DOMAIN r.flows
    /\ s = FecCount(FecCount(Touch(r, d.flow, d.sequence, now), "accepted"), "duplicate")

Overfed(s, r, d) ==
    /\ <<d.flow, d.block>> \in DOMAIN r.objects
    /\ s = FecReject(RemoveObjects(r, {<<d.flow, d.block>>}), "ObjectDatagramLimitExceeded")

MayDecode(r, d) ==
    /\ ~(d.flow \in DOMAIN r.flows /\ d.block \in Range(r.flows[d.flow].completed))
    /\ ~(r.datagrams >= MaxBufferedDatagrams)

DecodedInFlight(s, r, d, answer, now) ==
    /\ <<d.flow, d.block>> \in DOMAIN r.objects
    /\ s = FecDecode(r, d, answer, d.flow \notin DOMAIN r.flows, now)

DecodedNew(s, r, d, answer, now) ==
    /\ Admissible(r, d)
    /\ s = FecDecode(AdmitObject(r, d, now), d, answer, d.flow \notin DOMAIN r.flows, now)

\* The ladder of try_push_payload_at, case by case.
LEMMA PushCases ==
    ASSUME NEW r, NEW d, NEW answer, NEW now, NEW s, s = FecPush(r, d, answer, now)
    PROVE  \/ Refused(s, r) \/ Duplicate(s, r, d, now) \/ Overfed(s, r, d)
           \/ MayDecode(r, d) /\ DecodedInFlight(s, r, d, answer, now)
           \/ MayDecode(r, d) /\ DecodedNew(s, r, d, answer, now)
<1>1. PICK key : key = <<d.flow, d.block>>
  OBVIOUS
<1>2. CASE d.length > MaxObjectBytes
  <2>1. s = FecReject(r, "ObjectTooLarge")
    BY <1>2 DEF FecPush
  <2>. QED
    BY <2>1 DEF Refused
<1>3. CASE ~(d.length > MaxObjectBytes) /\ d.flow \in DOMAIN r.flows /\ d.block \in Range(r.flows[d.flow].completed)
  <2>1. s = FecCount(FecCount(Touch(r, d.flow, d.sequence, now), "accepted"), "duplicate")
    BY <1>3 DEF FecPush
  <2>. QED
    BY <1>3, <2>1 DEF Duplicate
<1>4. CASE /\ ~(d.length > MaxObjectBytes)
           /\ ~(d.flow \in DOMAIN r.flows /\ d.block \in Range(r.flows[d.flow].completed))
  <2>1. CASE r.datagrams >= MaxBufferedDatagrams
    <3>1. s = FecReject(r, "BufferedDatagramLimitExceeded")
      BY <1>4, <2>1 DEF FecPush
    <3>. QED
      BY <3>1 DEF Refused
  <2>2. CASE ~(r.datagrams >= MaxBufferedDatagrams)
    <3>1. CASE key \in DOMAIN r.objects
      <4>1. s = IF r.objects[key].accepted >= MaxDatagramsPerObject
                THEN FecReject(RemoveObjects(r, {key}), "ObjectDatagramLimitExceeded")
                ELSE FecDecode(r, d, answer, d.flow \notin DOMAIN r.flows, now)
        BY <1>1, <1>4, <2>2, <3>1 DEF FecPush
      <4>. QED
        BY <1>1, <1>4, <2>2, <3>1, <4>1 DEF MayDecode, Overfed, DecodedInFlight
    <3>2. CASE key \notin DOMAIN r.objects
      <4>1. CASE MaxDatagramsPerObject = 0
        BY <1>1, <1>4, <2>2, <3>2, <4>1 DEF FecPush, Refused
      <4>2. CASE MaxDatagramsPerObject # 0 /\ NewObjectRefusal(r, d) # "none"
        BY <1>1, <1>4, <2>2, <3>2, <4>2 DEF FecPush, Refused
      <4>3. CASE MaxDatagramsPerObject # 0 /\ NewObjectRefusal(r, d) = "none"
        <5>1. Admissible(r, d)
          BY <1>1, <3>2, <4>3 DEF Admissible
        <5>2. PICK b : b = IF key \in DOMAIN r.objects THEN r ELSE AdmitObject(r, d, now)
          OBVIOUS
        <5>3. s = FecDecode(b, d, answer, d.flow \notin DOMAIN r.flows, now)
          BY <1>1, <1>4, <2>2, <3>2, <4>3, <5>2 DEF FecPush
        <5>4. s = FecDecode(AdmitObject(r, d, now), d, answer, d.flow \notin DOMAIN r.flows, now)
          BY <3>2, <5>2, <5>3
        <5>. QED
          BY <1>4, <2>2, <5>1, <5>4 DEF MayDecode, DecodedNew
      <4>. QED
        BY <4>1, <4>2, <4>3
    <3>. QED
      BY <3>1, <3>2
  <2>. QED
    BY <2>1, <2>2
<1>. QED
  BY <1>2, <1>3, <1>4

\* Whatever rung a datagram ends at, it keeps the accounting.
LEMMA PushOutcome ==
    ASSUME NEW r, NEW now \in Nat, FecOK(r, now), NEW d \in FecDatagrams, NEW answer,
           NEW s, s = FecPush(r, d, answer, now)
    PROVE  Outcome(s, r, d, now)
<1>1. ASSUME NEW error, s = FecReject(r, error)
      PROVE  Outcome(s, r, d, now)
  <2>1. FecOK(s, now) /\ SameState(s, r) /\ s.counters.decoded = r.counters.decoded
    BY <1>1, RejectKeepsOK
  <2>2. NothingDecoded(s, r) /\ ObjectsFrom(s, r, now) /\ s.next_scan = r.next_scan
    BY <2>1 DEF NothingDecoded, ObjectsFrom, CompletedOf, SameState
  <2>. QED
    BY <2>1, <2>2 DEF Outcome
<1>2. ASSUME d.flow \in DOMAIN r.flows,
             s = FecCount(FecCount(Touch(r, d.flow, d.sequence, now), "accepted"), "duplicate")
      PROVE  Outcome(s, r, d, now)
  <2>1. PICK t : t = Touch(r, d.flow, d.sequence, now)
    OBVIOUS
  <2>2. d.sequence \in PacketSequences
    BY DEF FecDatagrams
  <2>3. FecOK(t, now) /\ OnlyTouched(t, r)
    BY <1>2, <2>1, <2>2, TouchKeepsOK
  <2>4. PICK a : a = FecCount(t, "accepted")
    OBVIOUS
  <2>5. /\ FecOK(a, now) /\ SameState(a, t) /\ a.counters.decoded = t.counters.decoded + 0
        /\ t.counters.decoded \in Nat
    BY <2>3, <2>4, CountKeepsOK
  <2>6. s = FecCount(a, "duplicate")
    BY <1>2, <2>1, <2>4
  <2>7. FecOK(s, now) /\ SameState(s, a) /\ s.counters.decoded = a.counters.decoded + 0
    BY <2>5, <2>6, CountKeepsOK
  <2>8. NothingDecoded(s, r)
    BY <2>3, <2>5, <2>7 DEF NothingDecoded, CompletedOf, SameState, OnlyTouched
  <2>9. ObjectsFrom(s, r, now) /\ s.next_scan = r.next_scan
    BY <2>3, <2>5, <2>7 DEF ObjectsFrom, SameState, OnlyTouched
  <2>. QED
    BY <2>7, <2>8, <2>9 DEF Outcome
<1>3. ASSUME <<d.flow, d.block>> \in DOMAIN r.objects,
             s = FecReject(RemoveObjects(r, {<<d.flow, d.block>>}), "ObjectDatagramLimitExceeded")
      PROVE  Outcome(s, r, d, now)
  <2>1. PICK keys : keys = {<<d.flow, d.block>>}
    OBVIOUS
  <2>2. PICK g : g = RemoveObjects(r, keys)
    OBVIOUS
  <2>3. keys \in SUBSET DOMAIN r.objects
    BY <1>3, <2>1
  <2>4. /\ FecOK(g, now)
        /\ \A k \in DOMAIN g.objects : k \in DOMAIN r.objects /\ g.objects[k] = r.objects[k]
        /\ DOMAIN g.flows = DOMAIN r.flows
        /\ \A f \in DOMAIN g.flows : g.flows[f].completed = r.flows[f].completed
        /\ g.counters = r.counters /\ g.next_scan = r.next_scan
    BY <2>2, <2>3, RemoveKeepsOK
  <2>5. s = FecReject(g, "ObjectDatagramLimitExceeded")
    BY <1>3, <2>1, <2>2
  <2>6. FecOK(s, now) /\ SameState(s, g) /\ s.counters.decoded = g.counters.decoded
    BY <2>4, <2>5, RejectKeepsOK
  <2>7. NothingDecoded(s, r)
    BY <2>4, <2>6 DEF NothingDecoded, CompletedOf, SameState
  <2>8. ObjectsFrom(s, r, now) /\ s.next_scan = r.next_scan
    BY <2>4, <2>6 DEF ObjectsFrom, SameState
  <2>. QED
    BY <2>6, <2>7, <2>8 DEF Outcome
<1>4. ASSUME ~(d.flow \in DOMAIN r.flows /\ d.block \in Range(r.flows[d.flow].completed)),
             ~(r.datagrams >= MaxBufferedDatagrams)
      PROVE  /\ r.datagrams < MaxBufferedDatagrams
             /\ d.block \notin Range(CompletedOf(r, d.flow))
  <2>1. r.datagrams \in Nat /\ MaxBufferedDatagrams \in Nat
    BY ReservedNat, FecAssumption DEF FecOK
  <2>2. \A x : x \notin Range(<<>>)
    BY DEF Range
  <2>. QED
    BY <1>4, <2>1, <2>2 DEF CompletedOf
<1>5. ASSUME r.datagrams < MaxBufferedDatagrams,
             d.block \notin Range(CompletedOf(r, d.flow)),
             <<d.flow, d.block>> \in DOMAIN r.objects,
             s = FecDecode(r, d, answer, d.flow \notin DOMAIN r.flows, now)
      PROVE  Outcome(s, r, d, now)
  <2>1. PICK key : key = <<d.flow, d.block>>
    OBVIOUS
  <2>2. d.flow \in DOMAIN r.flows
    <3>1. key[1] = d.flow /\ key \in DOMAIN r.objects
      BY <1>5, <2>1
    <3>. QED
      BY <3>1 DEF FecOK, FecReserved
  <2>3. Decodable(r, d)
    BY <1>5, <2>2 DEF Decodable, CompletedOf
  <2>. QED
    BY <1>5, <2>3, DecodeOutcome
<1>6. ASSUME r.datagrams < MaxBufferedDatagrams,
             d.block \notin Range(CompletedOf(r, d.flow)), Admissible(r, d),
             s = FecDecode(AdmitObject(r, d, now), d, answer, d.flow \notin DOMAIN r.flows, now)
      PROVE  Outcome(s, r, d, now)
  <2>1. PICK a : a = AdmitObject(r, d, now)
    OBVIOUS
  <2>2. /\ FecOK(a, now)
        /\ DOMAIN a.flows = DOMAIN r.flows \cup {d.flow}
        /\ \A f \in DOMAIN r.flows : a.flows[f].completed = r.flows[f].completed
        /\ d.flow \notin DOMAIN r.flows => a.flows[d.flow].completed = <<>>
        /\ DOMAIN a.objects = DOMAIN r.objects \cup {<<d.flow, d.block>>}
        /\ \A k \in DOMAIN r.objects : a.objects[k] = r.objects[k]
        /\ a.objects[<<d.flow, d.block>>] = NewObject(d.length, now)
        /\ a.datagrams = r.datagrams /\ a.counters = r.counters /\ a.next_scan = r.next_scan
    BY <1>6, <2>1, AdmitKeepsOK
  <2>3. \A f : CompletedOf(a, f) = CompletedOf(r, f)
    BY <2>2 DEF CompletedOf
  <2>4. ObjectsFrom(a, r, now)
    <3>1. NewObject(d.length, now).last = now
      BY DEF NewObject
    <3>. QED
      BY <2>2, <3>1 DEF ObjectsFrom
  <2>5. Decodable(a, d)
    <3>1. CompletedOf(a, d.flow) = a.flows[d.flow].completed
      BY <2>2 DEF CompletedOf
    <3>2. d.block \notin Range(a.flows[d.flow].completed)
      BY <1>6, <2>3, <3>1
    <3>. QED
      BY <1>6, <2>2, <3>2 DEF Decodable
  <2>6. Outcome(s, a, d, now)
    <3>1. s = FecDecode(a, d, answer, d.flow \notin DOMAIN r.flows, now)
      BY <1>6, <2>1
    <3>. QED
      BY <2>2, <2>5, <3>1, DecodeOutcome
  <2>. QED
    BY <2>2, <2>3, <2>4, <2>6, OutcomeFrom
<1>7. Refused(s, r) => Outcome(s, r, d, now)
  BY <1>1 DEF Refused
<1>8. Duplicate(s, r, d, now) => Outcome(s, r, d, now)
  BY <1>2 DEF Duplicate
<1>9. Overfed(s, r, d) => Outcome(s, r, d, now)
  BY <1>3 DEF Overfed
<1>10. MayDecode(r, d) => r.datagrams < MaxBufferedDatagrams /\ d.block \notin Range(CompletedOf(r, d.flow))
  BY <1>4 DEF MayDecode
<1>11. MayDecode(r, d) /\ DecodedInFlight(s, r, d, answer, now) => Outcome(s, r, d, now)
  BY <1>5, <1>10 DEF DecodedInFlight
<1>12. MayDecode(r, d) /\ DecodedNew(s, r, d, answer, now) => Outcome(s, r, d, now)
  BY <1>6, <1>10 DEF DecodedNew
<1>. QED
  BY <1>7, <1>8, <1>9, <1>11, <1>12, PushCases

-----------------------------------------------------------------------------
(***************************************************************************)
(* What a flow has completed, and the history of its decodings.            *)
(***************************************************************************)
\* The completed set is the end of the history, as much of it as fits.
Recent(c, h) ==
    /\ Len(c) = IF Len(h) <= MaxCompletedPerFlow THEN Len(h) ELSE MaxCompletedPerFlow
    /\ \A i \in 1 .. Len(c) : c[i] = h[Len(h) - Len(c) + i]

SpacedDecodings(h) ==
    \A i, j \in 1 .. Len(h) : i < j /\ h[i] = h[j] => j - i > MaxCompletedPerFlow

HistoryOK(r, f, h) ==
    /\ h \in Seq(FecBlocks) /\ SpacedDecodings(h)
    /\ Recent(CompletedOf(r, f), h)
    /\ f \notin DOMAIN r.flows => h = <<>>

\* The step that keeps both: a block that is not in the completed set was not
\* decoded within the last MaxCompletedPerFlow decodings.
LEMMA MarkKeepsRecent ==
    ASSUME NEW c \in Seq(FecBlocks), NEW h \in Seq(FecBlocks), NEW b \in FecBlocks,
           Recent(c, h), SpacedDecodings(h), b \notin Range(c)
    PROVE  /\ Recent(MarkCompleted(c, b), Append(h, b))
           /\ SpacedDecodings(Append(h, b)) /\ Append(h, b) \in Seq(FecBlocks)
<1>. DEFINE n == Len(h)
            m == Len(c)
            M == MaxCompletedPerFlow
<1>1. n \in Nat /\ m \in Nat /\ M \in Nat
  BY FecAssumption
<1>2. /\ m = IF n <= M THEN n ELSE M
      /\ \A i \in 1 .. m : c[i] = h[n - m + i]
  BY DEF Recent
<1>3. PICK g : g = Append(h, b)
  OBVIOUS
<1>4. /\ g \in Seq(FecBlocks) /\ Len(g) = n + 1 /\ g[n + 1] = b
      /\ \A i \in 1 .. n : g[i] = h[i]
  BY <1>3
<1>5. \A i \in 1 .. m : c[i] # b
  BY DEF Range
<1>. HIDE DEF n, m, M
<1>6. ASSUME NEW i \in 1 .. n, h[i] = b
      PROVE  n + 1 - i > M
  <2>1. SUFFICES ASSUME ~(n + 1 - i > M) PROVE FALSE
    BY <1>1
  <2>2. PICK k : k = i - (n - m)
    OBVIOUS
  <2>3. k \in 1 .. m /\ n - m + k = i
    BY <1>1, <1>2, <2>1, <2>2
  <2>4. c[k] = h[n - m + k]
    BY <1>2, <2>3
  <2>. QED
    BY <1>5, <1>6, <2>3, <2>4
<1>7. SpacedDecodings(g)
  <2>1. SUFFICES ASSUME NEW i \in 1 .. n + 1, NEW j \in 1 .. n + 1, i < j, g[i] = g[j]
                 PROVE  j - i > M
    BY <1>4 DEF SpacedDecodings, M
  <2>2. CASE j = n + 1
    <3>1. i \in 1 .. n /\ h[i] = b
      BY <1>1, <1>4, <2>1, <2>2
    <3>2. n + 1 - i > M
      BY <1>6, <3>1
    <3>. QED
      BY <1>1, <2>2, <3>1, <3>2
  <2>3. CASE j # n + 1
    <3>1. i \in 1 .. n /\ j \in 1 .. n /\ h[i] = h[j]
      BY <1>1, <1>4, <2>1, <2>3
    <3>. QED
      BY <2>1, <3>1 DEF SpacedDecodings, M, n
  <2>. QED
    BY <2>2, <2>3
<1>8. Recent(MarkCompleted(c, b), g)
  <2>0. b \notin Range(c)
    OBVIOUS
  <2>1. CASE M = 0
    <3>1. MarkCompleted(c, b) = c
      BY <2>1 DEF MarkCompleted, M
    <3>2. m = 0
      BY <1>1, <1>2, <2>1
    <3>. QED
      BY <1>1, <1>4, <2>1, <3>1, <3>2 DEF Recent, M, m
  <2>2. CASE M # 0
    <3>1. PICK l : l = Append(c, b)
      OBVIOUS
    <3>2. /\ l \in Seq(FecBlocks) /\ Len(l) = m + 1 /\ l[m + 1] = b
          /\ \A i \in 1 .. m : l[i] = c[i]
      BY <3>1 DEF m
    <3>3. MarkCompleted(c, b) = IF m + 1 > M THEN Tail(l) ELSE l
      <4>1. MarkCompleted(c, b) = IF Len(l) > MaxCompletedPerFlow THEN Tail(l) ELSE l
        BY <2>0, <2>2, <3>1 DEF MarkCompleted, M
      <4>. QED
        BY <3>2, <4>1 DEF M
    <3>4. \A i \in 1 .. m + 1 : l[i] = g[n - m + i]
      <4>1. SUFFICES ASSUME NEW i \in 1 .. m + 1 PROVE l[i] = g[n - m + i]
        OBVIOUS
      <4>2. CASE i = m + 1
        <5>1. n - m + i = n + 1
          BY <1>1, <4>2
        <5>. QED
          BY <1>4, <3>2, <4>2, <5>1
      <4>3. CASE i # m + 1
        <5>1. i \in 1 .. m /\ n - m + i \in 1 .. n
          BY <1>1, <1>2, <4>3
        <5>2. l[i] = c[i] /\ c[i] = h[n - m + i] /\ g[n - m + i] = h[n - m + i]
          BY <1>2, <1>4, <3>2, <5>1
        <5>. QED
          BY <5>2
      <4>. QED
        BY <4>2, <4>3
    <3>5. CASE m + 1 > M
      <4>1. m = M /\ n >= M
        BY <1>1, <1>2, <3>5
      <4>2. PICK t : t = Tail(l)
        OBVIOUS
      <4>3. Len(t) = M /\ \A i \in 1 .. M : t[i] = l[i + 1]
        BY <1>1, <3>2, <4>1, <4>2
      <4>4. \A i \in 1 .. M : t[i] = g[(n + 1) - M + i]
        <5>1. SUFFICES ASSUME NEW i \in 1 .. M PROVE t[i] = g[(n + 1) - M + i]
          OBVIOUS
        <5>2. i + 1 \in 1 .. m + 1 /\ n - m + (i + 1) = (n + 1) - M + i
          BY <1>1, <4>1
        <5>3. l[i + 1] = g[n - m + (i + 1)]
          BY <3>4, <5>2
        <5>. QED
          BY <4>3, <5>2, <5>3
      <4>5. Len(t) = IF n + 1 <= M THEN n + 1 ELSE M
        BY <1>1, <4>1, <4>3
      <4>6. Recent(t, g)
        BY <1>4, <4>3, <4>4, <4>5 DEF Recent, M
      <4>. QED
        BY <3>3, <3>5, <4>2, <4>6
    <3>6. CASE ~(m + 1 > M)
      <4>1. m = n /\ n + 1 <= M
        BY <1>1, <1>2, <3>6
      <4>2. Recent(l, g)
        <5>1. Len(l) = IF n + 1 <= M THEN n + 1 ELSE M
          BY <3>2, <4>1
        <5>2. \A i \in 1 .. Len(l) : l[i] = g[Len(g) - Len(l) + i]
          BY <1>1, <1>4, <3>2, <3>4, <4>1
        <5>. QED
          BY <1>4, <5>1, <5>2 DEF Recent, M
      <4>. QED
        BY <3>3, <3>6, <4>2
    <3>. QED
      BY <3>5, <3>6
  <2>. QED
    BY <2>1, <2>2
<1>. QED
  BY <1>3, <1>4, <1>7, <1>8

\* A flow that is not known has completed nothing.
LEMMA EmptyHistory ==
    ASSUME NEW r, NEW f, f \notin DOMAIN r.flows
    PROVE  HistoryOK(r, f, <<>>)
<1>1. CompletedOf(r, f) = <<>> /\ MaxCompletedPerFlow \in Nat
  BY FecAssumption DEF CompletedOf
<1>2. Recent(<<>>, <<>>)
  BY <1>1 DEF Recent
<1>3. SpacedDecodings(<<>>) /\ <<>> \in Seq(FecBlocks)
  BY DEF SpacedDecodings
<1>. QED
  BY <1>1, <1>2, <1>3 DEF HistoryOK

\* Flows that are left keep their history, the others lose it.
LEMMA KeptHistory ==
    ASSUME NEW r, NEW e, FlowsFrom(e, r), NEW f, NEW h, HistoryOK(r, f, h)
    PROVE  HistoryOK(e, f, IF f \in DOMAIN e.flows THEN h ELSE <<>>)
<1>1. CASE f \in DOMAIN e.flows
  <2>1. f \in DOMAIN r.flows /\ CompletedOf(e, f) = CompletedOf(r, f)
    BY <1>1 DEF FlowsFrom, CompletedOf
  <2>. QED
    BY <1>1, <2>1 DEF HistoryOK
<1>2. CASE f \notin DOMAIN e.flows
  BY <1>2, EmptyHistory
<1>. QED
  BY <1>1, <1>2

\* A flow that completed nothing keeps its history.
LEMMA SameHistory ==
    ASSUME NEW r, NEW s, NEW f \in DOMAIN s.flows, s.flows[f].completed = CompletedOf(r, f),
           NEW h, HistoryOK(r, f, h)
    PROVE  HistoryOK(s, f, h)
<1>1. CompletedOf(s, f) = CompletedOf(r, f)
  BY DEF CompletedOf
<1>. QED
  BY <1>1 DEF HistoryOK

\* A flow that completed a block has it in its history.
LEMMA DecodedHistory ==
    ASSUME NEW r, NEW now, FecOK(r, now), NEW s, NEW d \in FecDatagrams, BlockDecoded(s, r, d),
           NEW h, HistoryOK(r, d.flow, h)
    PROVE  HistoryOK(s, d.flow, Append(h, d.block))
<1>1. PICK c, b : c = CompletedOf(r, d.flow) /\ b = d.block
  OBVIOUS
<1>2. c \in Seq(FecBlocks)
  <2>1. CASE d.flow \in DOMAIN r.flows
    <3>1. r.flows[d.flow] \in FecFlow(now)
      BY <2>1 DEF FecOK, FecTypes
    <3>. QED
      BY <1>1, <2>1, <3>1 DEF CompletedOf, FecFlow
  <2>2. CASE d.flow \notin DOMAIN r.flows
    <3>1. c = <<>>
      BY <1>1, <2>2 DEF CompletedOf
    <3>. QED
      BY <3>1
  <2>. QED
    BY <2>1, <2>2
<1>3. b \in FecBlocks
  BY <1>1 DEF FecDatagrams
<1>4. b \notin Range(c) /\ d.flow \in DOMAIN s.flows /\ s.flows[d.flow].completed = MarkCompleted(c, b)
  BY <1>1 DEF BlockDecoded
<1>5. h \in Seq(FecBlocks) /\ SpacedDecodings(h) /\ Recent(c, h)
  BY <1>1 DEF HistoryOK
<1>6. /\ Recent(MarkCompleted(c, b), Append(h, b))
      /\ SpacedDecodings(Append(h, b)) /\ Append(h, b) \in Seq(FecBlocks)
  BY <1>2, <1>3, <1>4, <1>5, MarkKeepsRecent
<1>7. CompletedOf(s, d.flow) = MarkCompleted(c, b)
  BY <1>4 DEF CompletedOf
<1>. QED
  BY <1>1, <1>4, <1>6, <1>7 DEF HistoryOK

(***************************************************************************)
(* The scans.                                                              *)
(***************************************************************************)
\* The next scan is not further away than an interval, and no object that the
\* last one left will by then have been idle for a timeout and an interval.
ScansOK(r, now) ==
    /\ r.next_scan <= now + ScanGap
    /\ \A k \in DOMAIN r.objects : r.next_scan <= r.objects[k].last + ObjectTimeout + ScanGap

NoneOverdue(r, now) ==
    \A k \in DOMAIN r.objects : now - r.objects[k].last < ObjectTimeout + ScanEvery

\* A scan that is not due yet would find nothing overdue.
LEMMA ExpireIfDueKeepsOK ==
    ASSUME NEW r, NEW now \in Nat, FecOK(r, now), ScansOK(r, now), NEW s, s = FecExpireIfDue(r, now)
    PROVE  /\ FecOK(s, now) /\ ScansOK(s, now) /\ NoneOverdue(s, now)
           /\ FlowsFrom(s, r) /\ s.counters = r.counters
<1>1. r.next_scan \in Int /\ \A k \in DOMAIN r.objects : r.objects[k].last \in 0 .. now
  BY DEF FecOK, FecTypes, FecObject
<1>2. ObjectTimeout \in Nat /\ ScanEvery \in Nat /\ ScanGap \in Nat /\ ScanGap <= ScanEvery
  BY ScanGapType, FecAssumption
<1>3. CASE now < r.next_scan
  <2>1. s = r
    BY <1>3 DEF FecExpireIfDue
  <2>2. NoneOverdue(r, now)
    BY <1>1, <1>2, <1>3 DEF NoneOverdue, ScansOK
  <2>. QED
    BY <2>1, <2>2 DEF FlowsFrom
<1>4. CASE ~(now < r.next_scan)
  <2>1. s = FecExpire(r, now)
    BY <1>4 DEF FecExpireIfDue
  <2>2. /\ FecOK(s, now) /\ FlowsFrom(s, r)
        /\ s.counters = r.counters /\ s.next_scan = now + ScanGap
        /\ \A k \in DOMAIN s.objects : /\ k \in DOMAIN r.objects
                                       /\ s.objects[k] = r.objects[k]
                                       /\ now - s.objects[k].last < ObjectTimeout
    BY <2>1, ExpireKeepsOK
  <2>3. \A k \in DOMAIN s.objects : s.objects[k].last \in 0 .. now
    BY <1>1, <2>2
  <2>4. ScansOK(s, now)
    BY <1>2, <2>2, <2>3 DEF ScansOK
  <2>5. NoneOverdue(s, now)
    BY <1>2, <2>2, <2>3 DEF NoneOverdue
  <2>. QED
    BY <2>2, <2>4, <2>5
<1>. QED
  BY <1>3, <1>4

\* A datagram does not delay a scan.
LEMMA OutcomeKeepsScans ==
    ASSUME NEW r, NEW s, NEW now \in Nat, FecOK(r, now), ScansOK(r, now), ObjectsFrom(s, r, now),
           s.next_scan = r.next_scan
    PROVE  /\ ScansOK(s, now)
           /\ NoneOverdue(r, now) /\ ObjectTimeout + ScanEvery > 0 => NoneOverdue(s, now)
<1>1. r.next_scan \in Int /\ \A k \in DOMAIN r.objects : r.objects[k].last \in 0 .. now
  BY DEF FecOK, FecTypes, FecObject
<1>2. ObjectTimeout \in Nat /\ ScanEvery \in Nat /\ ScanGap \in Nat
  BY ScanGapType, FecAssumption
<1>3. ScansOK(s, now)
  BY <1>1, <1>2 DEF ScansOK, ObjectsFrom
<1>4. NoneOverdue(r, now) /\ ObjectTimeout + ScanEvery > 0 => NoneOverdue(s, now)
  BY <1>1, <1>2 DEF NoneOverdue, ObjectsFrom
<1>. QED
  BY <1>3, <1>4

(***************************************************************************)
(* The inductive invariant of the receiver and the theorems.               *)
(***************************************************************************)
FecHistories ==
    /\ decodings = [f \in FecFlows |-> decodings[f]]
    /\ \A f \in FecFlows : HistoryOK(rx, f, decodings[f])

FecInv ==
    /\ fec_now \in 0 .. FecTimeLimit
    /\ FecOK(rx, fec_now)
    /\ ScansOK(rx, fec_now)
    /\ FecHistories

\* The receiver starts empty.
LEMMA FecInitInv == FecInit => FecInv
<1>. SUFFICES ASSUME FecInit PROVE FecInv
  OBVIOUS
<1>0. FecTimeLimit \in Nat /\ MaxBufferedBytes \in Nat /\ MaxBufferedDatagrams \in Nat
      /\ MaxActiveObjects \in Nat /\ MaxFlows \in Nat /\ ObjectTimeout \in Nat
  BY FecAssumption
<1>1. /\ fec_now = 0 /\ decodings = [f \in FecFlows |-> <<>>]
      /\ rx = [flows |-> <<>>, objects |-> <<>>, bytes |-> 0, datagrams |-> 0,
               counters |-> NoFecCounters, last_error |-> "none", next_scan |-> -1]
  BY DEF FecInit
<1>2. /\ rx.flows = <<>> /\ rx.objects = <<>> /\ rx.bytes = 0 /\ rx.datagrams = 0
      /\ rx.counters = NoFecCounters /\ rx.next_scan = -1 /\ FecShape(rx)
  BY <1>1 DEF FecShape
<1>3. DOMAIN rx.flows = {} /\ DOMAIN rx.objects = {}
  BY <1>2
<1>4. IsFiniteSet({}) /\ Cardinality({}) = 0
  BY FS_EmptySet
<1>5. FecTypes(rx, fec_now)
  <2>1. NoFecCounters \in FecCounters
    BY DEF NoFecCounters, FecCounters
  <2>2. /\ rx.flows \in [DOMAIN rx.flows -> FecFlow(fec_now)]
        /\ rx.objects \in [DOMAIN rx.objects -> FecObject(fec_now)]
    BY <1>2
  <2>. QED
    BY <1>2, <1>3, <1>4, <2>1, <2>2 DEF FecTypes
<1>6. FecReserved(rx)
  <2>1. \A f : SumFunctionOnSet(f, {}) = 0
    BY <1>4, SumUnfolds
  <2>. QED
    BY <1>2, <1>3, <2>1 DEF FecReserved
<1>7. FecLimits(rx)
  BY <1>0, <1>2, <1>3, <1>4 DEF FecLimits
<1>8. ScansOK(rx, fec_now)
  BY <1>1, <1>2, <1>3, ScanGapType DEF ScansOK
<1>9. FecHistories
  BY <1>1, <1>3, EmptyHistory DEF FecHistories
<1>. QED
  BY <1>0, <1>1, <1>5, <1>6, <1>7, <1>8, <1>9 DEF FecInv, FecOK

\* Time alone changes no reservation.
LEMMA FecElapseKeeps ==
    ASSUME FecInv, FecElapse
    PROVE  FecInv'
<1>1. /\ fec_now' = fec_now + 1 /\ fec_now < FecTimeLimit /\ rx' = rx /\ decodings' = decodings
      /\ fec_now \in Nat /\ FecTimeLimit \in Nat
  BY FecAssumption DEF FecInv, FecElapse
<1>2. PICK now : now = fec_now + 1
  OBVIOUS
<1>3. FecTypes(rx, fec_now) /\ FecReserved(rx) /\ FecLimits(rx)
  BY DEF FecInv, FecOK
<1>4. 0 .. fec_now \subseteq 0 .. now /\ now \in Nat
  BY <1>1, <1>2
<1>5. FecTypes(rx, now)
  <2>1. \A x \in FecFlow(fec_now) : x \in FecFlow(now)
    BY <1>4 DEF FecFlow
  <2>2. \A x \in FecObject(fec_now) : x \in FecObject(now)
    BY <1>4 DEF FecObject
  <2>. QED
    BY <1>3, <2>1, <2>2 DEF FecTypes
<1>6. ScansOK(rx, now)
  BY <1>1, <1>2, <1>3, ScanGapType DEF FecInv, ScansOK, FecTypes
<1>8. fec_now' \in 0 .. FecTimeLimit
  BY <1>1
<1>9. FecHistories'
  BY <1>1 DEF FecInv, FecHistories
<1>10. FecOK(rx, fec_now)' /\ ScansOK(rx, fec_now)'
  BY <1>1, <1>2, <1>3, <1>5, <1>6 DEF FecOK, FecTypes, FecShape, FecFlow, FecObject, FecReserved, FecLimits, ScansOK, ReservedBytes, ReservedDatagrams, ObjectsOf, ScanGap
<1>. QED
  BY <1>8, <1>9, <1>10 DEF FecInv

\* The parts of the invariant after a step, put together.
LEMMA FecInvAfter ==
    ASSUME fec_now' \in 0 .. FecTimeLimit, FecOK(rx', fec_now'), ScansOK(rx', fec_now'),
           decodings' = [f \in FecFlows |-> decodings'[f]],
           \A f \in FecFlows : HistoryOK(rx', f, decodings'[f])
    PROVE  FecInv'
<1>1. FecOK(rx, fec_now)' /\ ScansOK(rx, fec_now)'
  BY DEF FecOK, FecTypes, FecShape, FecFlow, FecObject, FecReserved, FecLimits, ScansOK,
         ReservedBytes, ReservedDatagrams, ObjectsOf, ScanGap
<1>2. FecHistories'
  BY DEF FecHistories, HistoryOK, CompletedOf, Recent, SpacedDecodings
<1>. QED
  BY <1>1, <1>2 DEF FecInv

\* What a history becomes when a datagram is handed to the receiver.
HistoryAfter(h, f, r, e, s, d) ==
    IF f \notin DOMAIN s.flows THEN <<>>
    ELSE IF f = d.flow /\ s.counters.decoded > r.counters.decoded
         THEN Append(IF f \in DOMAIN e.flows THEN h ELSE <<>>, d.block)
         ELSE IF f \in DOMAIN e.flows THEN h ELSE <<>>

\* A datagram, behind the scan that may come before it.
LEMMA PushStep ==
    ASSUME NEW r, NEW now \in Nat, FecOK(r, now), ScansOK(r, now), NEW d \in FecDatagrams, NEW answer,
           NEW e, e = FecExpireIfDue(r, now),
           NEW s, s = FecPush(FecCount(e, "received"), d, answer, now)
    PROVE  /\ FecOK(s, now) /\ ScansOK(s, now)
           /\ ObjectTimeout + ScanEvery > 0 => NoneOverdue(s, now)
           /\ \A f, h : HistoryOK(r, f, h) => HistoryOK(s, f, HistoryAfter(h, f, r, e, s, d))
<1>1. /\ FecOK(e, now) /\ ScansOK(e, now) /\ NoneOverdue(e, now)
      /\ FlowsFrom(e, r) /\ e.counters = r.counters
  BY ExpireIfDueKeepsOK
<1>2. PICK c : c = FecCount(e, "received")
  OBVIOUS
<1>3. /\ FecOK(c, now) /\ SameState(c, e)
      /\ c.counters.decoded = e.counters.decoded /\ e.counters.decoded \in Nat
  <2>1. PICK field : field = "received"
    OBVIOUS
  <2>2. /\ FecOK(c, now) /\ SameState(c, e)
        /\ c.counters.decoded = e.counters.decoded + (IF field = "decoded" THEN 1 ELSE 0)
        /\ e.counters.decoded \in Nat
    BY <1>1, <1>2, <2>1, CountKeepsOK
  <2>. QED
    BY <2>1, <2>2
<1>4. Outcome(s, c, d, now)
  BY <1>2, <1>3, PushOutcome
<1>5. ScansOK(c, now) /\ NoneOverdue(c, now)
  BY <1>1, <1>3 DEF ScansOK, NoneOverdue, SameState
<1>6. /\ FecOK(s, now) /\ ObjectsFrom(s, c, now) /\ s.next_scan = c.next_scan
      /\ NothingDecoded(s, c) \/ BlockDecoded(s, c, d)
  BY <1>4 DEF Outcome
<1>7. ScansOK(s, now) /\ (ObjectTimeout + ScanEvery > 0 => NoneOverdue(s, now))
  BY <1>3, <1>5, <1>6, OutcomeKeepsScans
<1>8. ASSUME NEW f, NEW h, HistoryOK(r, f, h)
      PROVE  HistoryOK(s, f, HistoryAfter(h, f, r, e, s, d))
  <2>1. PICK kept : kept = IF f \in DOMAIN e.flows THEN h ELSE <<>>
    OBVIOUS
  <2>2. HistoryOK(e, f, kept)
    BY <1>1, <1>8, <2>1, KeptHistory
  <2>3. HistoryOK(c, f, kept)
    BY <1>3, <2>2 DEF HistoryOK, SameState, CompletedOf
  <2>4. CASE f \notin DOMAIN s.flows
    BY <2>4, EmptyHistory DEF HistoryAfter
  <2>5. CASE f \in DOMAIN s.flows /\ f = d.flow /\ s.counters.decoded > r.counters.decoded
    <3>1. BlockDecoded(s, c, d)
      BY <1>1, <1>3, <1>6, <2>5 DEF NothingDecoded
    <3>2. HistoryOK(s, d.flow, Append(kept, d.block))
      BY <1>3, <2>3, <2>5, <3>1, DecodedHistory
    <3>3. HistoryAfter(h, f, r, e, s, d) = Append(kept, d.block)
      BY <2>1, <2>5 DEF HistoryAfter
    <3>. QED
      BY <2>5, <3>2, <3>3
  <2>6. CASE f \in DOMAIN s.flows /\ ~(f = d.flow /\ s.counters.decoded > r.counters.decoded)
    <3>1. s.flows[f].completed = CompletedOf(c, f)
      <4>1. CASE NothingDecoded(s, c)
        BY <2>6, <4>1 DEF NothingDecoded
      <4>2. CASE BlockDecoded(s, c, d)
        <5>1. s.counters.decoded > r.counters.decoded
          BY <1>1, <1>3, <4>2 DEF BlockDecoded
        <5>. QED
          BY <2>6, <4>2, <5>1 DEF BlockDecoded
      <4>. QED
        BY <1>6, <4>1, <4>2
    <3>2. HistoryOK(s, f, kept)
      BY <2>3, <2>6, <3>1, SameHistory
    <3>3. HistoryAfter(h, f, r, e, s, d) = kept
      BY <2>1, <2>6 DEF HistoryAfter
    <3>. QED
      BY <3>2, <3>3
  <2>. QED
    BY <2>4, <2>5, <2>6
<1>. QED
  BY <1>6, <1>7, <1>8

\* try_push_payload of a well-formed datagram.
LEMMA TryPushPayloadKeeps ==
    ASSUME FecInv, NEW d \in FecDatagrams, NEW answer, TryPushPayload(d, answer)
    PROVE  FecInv' /\ (ObjectTimeout + ScanEvery > 0 => NoneOverdue(rx', fec_now))
<1>1. /\ fec_now \in Nat /\ FecOK(rx, fec_now) /\ ScansOK(rx, fec_now)
      /\ fec_now' = fec_now /\ fec_now \in 0 .. FecTimeLimit
      /\ decodings' = RecordDecodings(rx, rx', d)
      /\ rx' = FecPush(FecCount(FecExpireIfDue(rx, fec_now), "received"), d, answer, fec_now)
  BY FecAssumption DEF FecInv, TryPushPayload
<1>2. PICK r, s, now, e : r = rx /\ s = rx' /\ now = fec_now /\ e = FecExpireIfDue(r, now)
  OBVIOUS
<1>3. /\ now \in Nat /\ FecOK(r, now) /\ ScansOK(r, now) /\ e = FecExpireIfDue(r, now)
      /\ s = FecPush(FecCount(e, "received"), d, answer, now)
  BY <1>1, <1>2
<1>4. /\ FecOK(s, now) /\ ScansOK(s, now)
      /\ ObjectTimeout + ScanEvery > 0 => NoneOverdue(s, now)
      /\ \A f, h : HistoryOK(r, f, h) => HistoryOK(s, f, HistoryAfter(h, f, r, e, s, d))
  BY <1>3, PushStep
<1>5. decodings' = [f \in FecFlows |-> HistoryAfter(decodings[f], f, r, e, s, d)]
  BY <1>1, <1>2 DEF RecordDecodings, HistoryAfter
<1>6. \A f \in FecFlows : HistoryOK(r, f, decodings[f])
  BY <1>2 DEF FecInv, FecHistories
<1>7. \A f \in FecFlows : HistoryOK(s, f, decodings'[f])
  BY <1>4, <1>5, <1>6
<1>8. decodings' = [f \in FecFlows |-> decodings'[f]]
  BY <1>5
<1>9. /\ fec_now' \in 0 .. FecTimeLimit /\ FecOK(rx', fec_now') /\ ScansOK(rx', fec_now')
      /\ \A f \in FecFlows : HistoryOK(rx', f, decodings'[f])
      /\ ObjectTimeout + ScanEvery > 0 => NoneOverdue(rx', fec_now)
  BY <1>1, <1>2, <1>4, <1>7
<1>10. FecInv'
  BY <1>8, <1>9, FecInvAfter
<1>. QED
  BY <1>9, <1>10

\* Histories when no datagram is decoded: flows that went lose theirs.
LEMMA ScanHistories ==
    ASSUME FecInv, NEW s, FlowsFrom(s, rx),
           decodings' = [f \in FecFlows |-> IF f \in DOMAIN s.flows THEN decodings[f] ELSE <<>>]
    PROVE  /\ decodings' = [f \in FecFlows |-> decodings'[f]]
           /\ \A f \in FecFlows : HistoryOK(s, f, decodings'[f])
<1>1. \A f \in FecFlows : HistoryOK(rx, f, decodings[f])
  BY DEF FecInv, FecHistories
<1>2. \A f \in FecFlows : HistoryOK(s, f, IF f \in DOMAIN s.flows THEN decodings[f] ELSE <<>>)
  BY <1>1, KeptHistory
<1>. QED
  BY <1>2

\* try_push_payload of a datagram that is too large or malformed.
LEMMA TryPushUnparsableKeeps ==
    ASSUME FecInv, NEW error, TryPushUnparsable(error)
    PROVE  FecInv' /\ (ObjectTimeout + ScanEvery > 0 => NoneOverdue(rx', fec_now))
<1>1. /\ fec_now \in Nat /\ FecOK(rx, fec_now) /\ ScansOK(rx, fec_now)
      /\ fec_now' = fec_now /\ fec_now \in 0 .. FecTimeLimit
      /\ decodings' = [f \in FecFlows |-> IF f \in DOMAIN rx'.flows THEN decodings[f] ELSE <<>>]
      /\ rx' = FecReject(FecCount(FecExpireIfDue(rx, fec_now), "received"), error)
  BY FecAssumption DEF FecInv, TryPushUnparsable
<1>2. PICK r, s, now, e, field : /\ r = rx /\ s = rx' /\ now = fec_now
                                 /\ e = FecExpireIfDue(r, now) /\ field = "received"
  OBVIOUS
<1>3. PICK c : c = FecCount(e, field)
  OBVIOUS
<1>4. s = FecReject(c, error) /\ now \in Nat /\ FecOK(r, now) /\ ScansOK(r, now)
  BY <1>1, <1>2, <1>3
<1>5. /\ FecOK(e, now) /\ ScansOK(e, now) /\ NoneOverdue(e, now) /\ FlowsFrom(e, r)
  BY <1>2, <1>4, ExpireIfDueKeepsOK
<1>6. FecOK(c, now) /\ SameState(c, e)
  BY <1>2, <1>3, <1>5, CountKeepsOK
<1>7. FecOK(s, now) /\ SameState(s, c)
  BY <1>4, <1>6, RejectKeepsOK
<1>8. ScansOK(s, now) /\ NoneOverdue(s, now) /\ FlowsFrom(s, r)
  BY <1>5, <1>6, <1>7 DEF SameState, ScansOK, NoneOverdue, FlowsFrom
<1>9. /\ decodings' = [f \in FecFlows |-> decodings'[f]]
      /\ \A f \in FecFlows : HistoryOK(s, f, decodings'[f])
  BY <1>1, <1>2, <1>8, ScanHistories
<1>10. /\ fec_now' \in 0 .. FecTimeLimit /\ FecOK(rx', fec_now') /\ ScansOK(rx', fec_now')
       /\ \A f \in FecFlows : HistoryOK(rx', f, decodings'[f])
       /\ NoneOverdue(rx', fec_now)
  BY <1>1, <1>2, <1>7, <1>8, <1>9
<1>11. FecInv'
  BY <1>9, <1>10, FecInvAfter
<1>. QED
  BY <1>10, <1>11

\* expire_inactive from the ingest loop's tick.
LEMMA FecExpireInactiveKeeps ==
    ASSUME FecInv, FecExpireInactive
    PROVE  FecInv' /\ NoneOverdue(rx', fec_now)
<1>1. /\ fec_now \in Nat /\ FecOK(rx, fec_now)
      /\ fec_now' = fec_now /\ fec_now \in 0 .. FecTimeLimit
      /\ decodings' = [f \in FecFlows |-> IF f \in DOMAIN rx'.flows THEN decodings[f] ELSE <<>>]
      /\ rx' = FecExpire(rx, fec_now)
  BY FecAssumption DEF FecInv, FecExpireInactive
<1>2. PICK r, s, now : r = rx /\ s = rx' /\ now = fec_now
  OBVIOUS
<1>3. s = FecExpire(r, now) /\ now \in Nat /\ FecOK(r, now)
  BY <1>1, <1>2
<1>4. /\ FecOK(s, now) /\ FlowsFrom(s, r) /\ s.next_scan = now + ScanGap
      /\ \A k \in DOMAIN s.objects : /\ k \in DOMAIN r.objects
                                     /\ s.objects[k] = r.objects[k]
                                     /\ now - s.objects[k].last < ObjectTimeout
  BY <1>3, ExpireKeepsOK
<1>5. ScanGap \in Nat /\ ObjectTimeout \in Nat /\ ScanEvery \in Nat
  BY ScanGapType, FecAssumption
<1>6. \A k \in DOMAIN s.objects : s.objects[k].last \in 0 .. now
  BY <1>4 DEF FecOK, FecTypes, FecObject
<1>7. ScansOK(s, now) /\ NoneOverdue(s, now)
  BY <1>3, <1>4, <1>5, <1>6 DEF ScansOK, NoneOverdue
<1>8. /\ decodings' = [f \in FecFlows |-> decodings'[f]]
      /\ \A f \in FecFlows : HistoryOK(s, f, decodings'[f])
  BY <1>1, <1>2, <1>4, ScanHistories
<1>9. /\ fec_now' \in 0 .. FecTimeLimit /\ FecOK(rx', fec_now') /\ ScansOK(rx', fec_now')
      /\ \A f \in FecFlows : HistoryOK(rx', f, decodings'[f])
      /\ NoneOverdue(rx', fec_now)
  BY <1>1, <1>2, <1>4, <1>7, <1>8
<1>10. FecInv'
  BY <1>8, <1>9, FecInvAfter
<1>. QED
  BY <1>9, <1>10

\* The invariant of the UDP-FEC receiver (src/src/udp_fec.rs) holds in every
\* reachable state: reservations equal to what the objects in flight hold, every
\* limit kept, a completed set that is the end of its flow's history, and a next
\* scan that comes before any object can be overdue.
THEOREM FecInvariant == FecSpec => []FecInv
<1>1. ASSUME FecInv, [FecNext]_fecVars
      PROVE  FecInv'
  <2>1. ASSUME NEW d \in FecDatagrams, NEW answer, TryPushPayload(d, answer)
        PROVE  FecInv'
    BY <1>1, <2>1, TryPushPayloadKeeps
  <2>2. ASSUME NEW error, TryPushUnparsable(error)
        PROVE  FecInv'
    BY <1>1, <2>2, TryPushUnparsableKeeps
  <2>3. CASE FecExpireInactive
    BY <1>1, <2>3, FecExpireInactiveKeeps
  <2>4. CASE FecElapse
    BY <1>1, <2>4, FecElapseKeeps
  <2>5. CASE UNCHANGED fecVars
    <3>1. rx' = rx /\ fec_now' = fec_now /\ decodings' = decodings
      BY <2>5 DEF fecVars
    <3>2. FecOK(rx, fec_now) /\ ScansOK(rx, fec_now) /\ FecHistories /\ fec_now \in 0 .. FecTimeLimit
      BY <1>1 DEF FecInv
    <3>. QED
      BY <3>1, <3>2, FecInvAfter DEF FecHistories
  <2>. QED
    BY <1>1, <2>1, <2>2, <2>3, <2>4, <2>5 DEF FecNext
<1>. QED
  BY <1>1, FecInitInv, PTL DEF FecSpec

\* What the receiver promises: exact accounting within the limits, and no object
\* decoded again before MaxCompletedPerFlow others of its flow.
THEOREM FecCorrect == FecSpec => []FecSound
<1>1. ASSUME FecInv
      PROVE  FecSound
  <2>1. /\ FecTypes(rx, fec_now) /\ FecReserved(rx) /\ FecLimits(rx) /\ FecHistories
        /\ fec_now \in 0 .. FecTimeLimit
    BY <1>1 DEF FecInv, FecOK
  <2>2. rx.bytes \in Nat /\ rx.datagrams \in Nat
    BY <2>1, ReservedNat
  <2>3. FecTypeOK
    <3>1. \A f \in DOMAIN rx.flows : rx.flows[f] \in FecFlow(fec_now)
      BY <2>1 DEF FecTypes
    <3>2. \A k \in DOMAIN rx.objects : rx.objects[k] \in FecObject(fec_now)
      BY <2>1 DEF FecTypes
    <3>3. \A f \in DOMAIN rx.flows :
             /\ rx.flows[f].tracker \in Trackers
             /\ rx.flows[f].active \in Nat
             /\ rx.flows[f].completed \in Seq(FecBlocks)
             /\ rx.flows[f].last \in 0 .. fec_now
      BY <3>1 DEF FecFlow
    <3>. QED
      BY <2>1, <2>2, <3>2, <3>3 DEF FecTypeOK, FecTypes, FecObject
  <2>4. FecAccountingExact
    BY <2>1 DEF FecAccountingExact, FecReserved, FecLimits
  <2>5. NoEarlyRedelivery
    BY <2>1 DEF NoEarlyRedelivery, FecHistories, HistoryOK, SpacedDecodings
  <2>. QED
    BY <2>3, <2>4, <2>5 DEF FecSound
<1>. QED
  BY <1>1, FecInvariant, PTL

\* No step that touches the receiver leaves an object that has been idle for a
\* timeout and a scan interval.
THEOREM IdleReclaimed ==
    ASSUME ObjectTimeout + ScanEvery > 0
    PROVE  FecSpec => IdleObjectsReclaimed
<1>1. ASSUME FecInv, [FecNext]_fecVars
      PROVE  [\A k \in DOMAIN rx'.objects :
                 fec_now - rx'.objects[k].last < ObjectTimeout + ScanEvery]_rx
  <2>1. SUFFICES ASSUME rx' # rx PROVE NoneOverdue(rx', fec_now)
    BY DEF NoneOverdue
  <2>2. ASSUME NEW d \in FecDatagrams, NEW answer, TryPushPayload(d, answer)
        PROVE  NoneOverdue(rx', fec_now)
    BY <1>1, <2>2, TryPushPayloadKeeps
  <2>3. ASSUME NEW error, TryPushUnparsable(error)
        PROVE  NoneOverdue(rx', fec_now)
    BY <1>1, <2>3, TryPushUnparsableKeeps
  <2>4. CASE FecExpireInactive
    BY <1>1, <2>4, FecExpireInactiveKeeps
  <2>5. ~FecElapse /\ ~UNCHANGED fecVars
    BY <2>1 DEF FecElapse, fecVars
  <2>. QED
    BY <1>1, <2>2, <2>3, <2>4, <2>5 DEF FecNext
<1>. QED
  BY <1>1, FecInvariant, PTL DEF FecSpec, IdleObjectsReclaimed

(***************************************************************************)
(* The cache of a live stream.                                             *)
(***************************************************************************)
EpochOrNone == {NoEpoch} \cup Epochs

Part == [keyframe : BOOLEAN, segment : {None} \cup Nat, bytes : Nat]

\* The chunk cache and what the state says of it.
ChunksOK ==
  /\ DOMAIN slots \subseteq Seqs /\ IsFiniteSet(DOMAIN slots)
  /\ \A s \in DOMAIN slots : slots[s] \in Object /\ slots[s].epoch = epoch
  /\ head \in {None} \cup Seqs /\ version \in Nat
  /\ base \in {None} \cup Seqs /\ epoch \in EpochOrNone

InitsOK == cache_init \in EpochOrNone /\ init \in EpochOrNone

\* The retained parts p and their bytes.
PartsOK(p, segment, bytes) ==
  /\ DOMAIN p \subseteq Seqs /\ IsFiniteSet(DOMAIN p)
  /\ \A s \in DOMAIN p : p[s] \in Part
  /\ segment \in {None} \cup Nat
  /\ bytes = SumFunctionOnSet(PartBytes(p), DOMAIN p)
  /\ \A s, t \in DOMAIN p : s - t < Window

\* Where the ingest task stands.
IngestOK ==
  /\ i_pc \in {"idle", "zero", "activate", "observe", "init", "put", "record", "notify",
               "forget", "uncache"}
  /\ i_object \in Object \cup {NoObject}
  /\ i_pc \in {"zero", "activate"} => i_object \in Object /\ i_object.epoch > epoch
  /\ i_pc \in {"observe", "init", "put", "record", "notify"} =>
       i_object \in Object /\ i_object.epoch = epoch
  /\ i_pc = "record" => i_object.seq \in DOMAIN slots
  /\ i_pc \in {"activate", "forget"} => DOMAIN slots = {}
  /\ ObservedIsCached

\* Where a handler stands, and what it has collected.
ReaderOK ==
  /\ r_pc \in {"idle", "check", "wait", "position", "version", "cached", "collect", "remember",
               "remember_cache", "retain", "retain_cache", "init", "init_cache", "init_slots",
               "render", "store", "write"}
  /\ r_position \in Positions \cup {NoPosition}
  /\ r_last \in {None} \cup Seqs /\ r_next \in Nat
  /\ r_init \in EpochOrNone /\ r_epoch \in EpochOrNone
  /\ r_available \subseteq Seqs /\ r_body \subseteq PlaylistEntry
  /\ r_pc \in {"idle", "check", "wait", "position", "version", "cached"} => r_available = {}
  /\ r_pc \in {"store", "write"} => \A q \in r_body : q.seq \in r_available

\* What is stored, or about to be, was collected from the slots of its version.
VersionsOK ==
  /\ r_version \in {None} \cup Nat /\ r_version <= version
  /\ r_version = version => r_available \subseteq DOMAIN slots
  /\ playlist.version \in {None} \cup Nat /\ playlist.version <= version
  /\ playlist.parts \subseteq PlaylistEntry
  /\ playlist.version = version => \A q \in playlist.parts : q.seq \in DOMAIN slots

\* A waiting handler will be woken.
WakeOK ==
  /\ updates \in Nat /\ r_seen \in Nat /\ r_seen <= updates
  /\ NoLostWakeup

LiveInv ==
  /\ ChunksOK /\ InitsOK /\ PartsOK(parts, current_segment, retained_bytes)
  /\ IngestOK /\ ReaderOK /\ VersionsOK /\ WakeOK

-----------------------------------------------------------------------------
\* The window below the newest part, and the bytes that leave with the rest.
Trimmed(p, q) ==
  /\ DOMAIN q = WindowOf(DOMAIN p) /\ DOMAIN q \subseteq DOMAIN p
  /\ \A s \in DOMAIN q : q[s] = p[s]
  /\ \A s, t \in DOMAIN q : s - t < Window
  /\ SumFunctionOnSet(PartBytes(q), DOMAIN q)
       = SumFunctionOnSet(PartBytes(p), DOMAIN p)
           - SumFunctionOnSet(PartBytes(p), DOMAIN p \ WindowOf(DOMAIN p))

CountedParts(p) ==
  DOMAIN p \subseteq Seqs /\ IsFiniteSet(DOMAIN p) /\ \A s \in DOMAIN p : p[s] \in Part

TrimOf(p) == [s \in WindowOf(DOMAIN p) |-> p[s]]

LEMMA TrimFacts ==
    ASSUME NEW p, CountedParts(p), DOMAIN p # {}
    PROVE  Trimmed(p, TrimOf(p))
<1>1. PICK D, W, q : D = DOMAIN p /\ W = WindowOf(DOMAIN p) /\ q = TrimOf(p)
  OBVIOUS
<1>2. D \in SUBSET Nat /\ IsFiniteSet(D) /\ D # {} /\ Window \in Nat
  BY <1>1, LiveStreamAssumption DEF CountedParts
<1>3. PICK m : m = Max(D)
  OBVIOUS
<1>4. m \in Nat /\ \A k \in D : k <= m
  BY <1>2, <1>3, MaxOfFinite
<1>5. W = {s \in D : s > m - Window}
  BY <1>1, <1>3 DEF WindowOf
<1>6. DOMAIN q = W /\ W \in SUBSET D /\ \A s \in W : q[s] = p[s]
  BY <1>1, <1>5 DEF TrimOf
<1>7. ASSUME NEW s \in W, NEW t \in W
      PROVE  s - t < Window
  <2>1. s \in Nat /\ t \in Nat /\ s <= m /\ t > m - Window
    BY <1>2, <1>4, <1>5
  <2>. QED
    BY <1>2, <1>4, <2>1
<1>8. PICK f, g, K : f = PartBytes(p) /\ g = PartBytes(q) /\ K = D \ W
  OBVIOUS
<1>9. NatOn(f, D)
  BY <1>1, <1>8 DEF CountedParts, NatOn, PartBytes, Part
<1>10. SameOn(g, f, D \ K)
  BY <1>1, <1>6, <1>8 DEF SameOn, PartBytes
<1>11. D \ K = W /\ K \in SUBSET D
  BY <1>6, <1>8
<1>12. PICK a, b, c : /\ a = SumFunctionOnSet(g, D \ K) /\ b = SumFunctionOnSet(f, D)
                      /\ c = SumFunctionOnSet(f, K)
  OBVIOUS
<1>13. a = b - c
  <2>1. K \in SUBSET D
    BY <1>11
  <2>2. IsFiniteSet(D)
    BY <1>2
  <2>3. SumFunctionOnSet(g, D \ K) = SumFunctionOnSet(f, D) - SumFunctionOnSet(f, K)
    BY ONLY <1>9, <1>10, <2>1, <2>2, SumWithout
  <2>. QED
    BY <1>12, <2>3
<1>14. SumFunctionOnSet(g, W) = SumFunctionOnSet(f, D) - SumFunctionOnSet(f, K)
  BY <1>11, <1>12, <1>13
<1>. QED
  BY <1>1, <1>6, <1>7, <1>8, <1>14 DEF Trimmed

\* What trimming leaves is retained.
LEMMA TrimKeeps ==
    ASSUME NEW p, CountedParts(p), DOMAIN p # {}, NEW segment \in {None} \cup Nat
    PROVE  PartsOK(TrimOf(p), segment,
             SumFunctionOnSet(PartBytes(p), DOMAIN p)
               - SumFunctionOnSet(PartBytes(p), DOMAIN p \ WindowOf(DOMAIN p)))
<1>1. PICK q, n : /\ q = TrimOf(p)
                  /\ n = SumFunctionOnSet(PartBytes(p), DOMAIN p)
                           - SumFunctionOnSet(PartBytes(p), DOMAIN p \ WindowOf(DOMAIN p))
  OBVIOUS
<1>2. Trimmed(p, q)
  BY <1>1, TrimFacts
<1>3. DOMAIN q \in SUBSET (DOMAIN p)
  BY <1>2 DEF Trimmed
<1>4. IsFiniteSet(DOMAIN q)
  BY <1>3, FS_Subset DEF CountedParts
<1>5. PartsOK(q, segment, n)
  BY <1>1, <1>2, <1>3, <1>4 DEF Trimmed, CountedParts, PartsOK
<1>. QED
  BY <1>1, <1>5

\* A new part is counted.
LEMMA PartAdded ==
    ASSUME NEW p, CountedParts(p), NEW k \in Seqs, k \notin DOMAIN p, NEW x \in Part
    PROVE  /\ CountedParts(With(p, k, x)) /\ DOMAIN With(p, k, x) = DOMAIN p \cup {k}
           /\ SumFunctionOnSet(PartBytes(With(p, k, x)), DOMAIN With(p, k, x))
                = SumFunctionOnSet(PartBytes(p), DOMAIN p) + x.bytes
<1>1. PICK q, f, g, D, n : /\ q = With(p, k, x) /\ f = PartBytes(p) /\ g = PartBytes(q)
                           /\ D = DOMAIN p /\ n = x.bytes
  OBVIOUS
<1>2. DOMAIN q = D \cup {k} /\ q[k] = x /\ \A s \in D : q[s] = p[s]
  BY <1>1 DEF With
<1>3. IsFiniteSet(D) /\ IsFiniteSet(D \cup {k})
  BY <1>1, FS_AddElement DEF CountedParts
<1>4. CountedParts(q)
  BY <1>1, <1>2, <1>3 DEF CountedParts
<1>5. NatOn(f, D)
  BY <1>1 DEF CountedParts, NatOn, PartBytes, Part
<1>6. SameOn(g, f, D) /\ g[k] = n
  BY <1>1, <1>2 DEF SameOn, PartBytes
<1>7. n \in Nat
  BY <1>1 DEF Part
<1>8. SumFunctionOnSet(g, D \cup {k}) = SumFunctionOnSet(f, D) + n
  BY <1>1, <1>3, <1>5, <1>6, <1>7, SumWith
<1>. QED
  BY <1>1, <1>2, <1>4, <1>8

-----------------------------------------------------------------------------
LEMMA EpochTypes == \A e \in EpochOrNone : e \in Nat /\ (e \in Epochs => e > 0)
<1>1. Epochs \subseteq Nat \ {0}
  BY LiveStreamAssumption
<1>. QED
  BY <1>1 DEF EpochOrNone, NoEpoch

LEMMA ObjectTypes ==
    ASSUME NEW o \in Object
    PROVE  o.epoch \in Epochs /\ o.seq \in Seqs /\ o.epoch \in Nat /\ o.epoch > 0
           /\ o.epoch \in EpochOrNone
<1>1. o.epoch \in Epochs /\ o.seq \in Seqs
  BY DEF Object
<1>2. o.epoch \in EpochOrNone
  BY <1>1 DEF EpochOrNone
<1>. QED
  BY <1>1, <1>2, EpochTypes

\* A step that only a handler takes leaves the stream alone.
LEMMA StreamSame ==
    ASSUME LiveInv, slots' = slots, head' = head, version' = version, epoch' = epoch,
           base' = base, parts' = parts, current_segment' = current_segment,
           retained_bytes' = retained_bytes, i_pc' = i_pc, i_object' = i_object
    PROVE  ChunksOK' /\ PartsOK(parts, current_segment, retained_bytes)' /\ IngestOK'
<1>1. ChunksOK /\ PartsOK(parts, current_segment, retained_bytes) /\ IngestOK
  BY DEF LiveInv
<1>2. ChunksOK'
  BY <1>1 DEF ChunksOK
<1>3. PartsOK(parts, current_segment, retained_bytes)'
  BY <1>1
<1>4. IngestOK'
  BY <1>1 DEF IngestOK, ObservedIsCached
<1>. QED
  BY <1>2, <1>3, <1>4

\* A step of the ingest task leaves the handler alone.
LEMMA ReaderSame ==
    ASSUME LiveInv, UNCHANGED reader_vars
    PROVE  ReaderOK'
  BY DEF LiveInv, ReaderOK, reader_vars

LEMMA InitsSame ==
    ASSUME LiveInv, init' = init, cache_init' = cache_init
    PROVE  InitsOK'
  BY DEF LiveInv, InitsOK

LEMMA PartsSame ==
    ASSUME LiveInv, parts' = parts, current_segment' = current_segment,
           retained_bytes' = retained_bytes
    PROVE  PartsOK(parts, current_segment, retained_bytes)'
  BY DEF LiveInv

\* Neither slots nor the stored playlist change.
LEMMA VersionsSame ==
    ASSUME LiveInv, UNCHANGED <<slots, version, playlist, r_version, r_available>>
    PROVE  VersionsOK'
  BY DEF LiveInv, VersionsOK

\* A new version: nothing that was collected or stored is of it.
LEMMA VersionsPast ==
    ASSUME LiveInv, version' = version + 1, UNCHANGED <<playlist, r_version, r_available>>
    PROVE  VersionsOK'
<1>1. version \in Nat /\ VersionsOK
  BY DEF LiveInv, ChunksOK
<1>2. /\ r_version \in Int /\ playlist.version \in Int
      /\ r_version <= version /\ playlist.version <= version
  BY <1>1 DEF VersionsOK, None
<1>3. /\ r_version <= version + 1 /\ playlist.version <= version + 1
      /\ r_version # version + 1 /\ playlist.version # version + 1
  BY <1>1, <1>2
<1>. QED
  BY <1>1, <1>3 DEF VersionsOK

\* What a handler waits for stays as it is.
LEMMA WakeSame ==
    ASSUME LiveInv, i_pc # "notify" \/ i_pc' = "notify",
           UNCHANGED <<parts, updates, r_seen, r_pc, r_position>>
    PROVE  WakeOK'
<1>1. WakeOK
  BY DEF LiveInv
<1>2. Observed' = Observed
  BY DEF Observed
<1>3. PositionAvailable(r_position)' = PositionAvailable(r_position)
  BY <1>2 DEF PositionAvailable
<1>. QED
  BY <1>1, <1>3 DEF WakeOK, NoLostWakeup

\* Without parts no position is available.
LEMMA NothingToWake ==
    ASSUME LiveInv, DOMAIN parts' = {}, UNCHANGED <<updates, r_seen>>
    PROVE  WakeOK'
<1>1. WakeOK
  BY DEF LiveInv
<1>2. Observed' = {}
  BY DEF Observed
<1>3. SegmentsOf({}) = {}
  BY DEF SegmentsOf, Grouped
<1>4. ~PositionAvailable(r_position)'
  BY <1>2, <1>3 DEF PositionAvailable, PositionIn
<1>. QED
  BY <1>1, <1>4 DEF WakeOK, NoLostWakeup

LEMMA BeginCommitKeeps ==
    ASSUME LiveInv, NEW o \in Object, BeginCommit(o)
    PROVE  LiveInv'
<1>1. UNCHANGED <<cache_vars, state_vars, playlist, updates, reader_vars>>
  BY DEF BeginCommit
<1>2. ChunksOK' /\ InitsOK' /\ PartsOK(parts, current_segment, retained_bytes)'
  BY <1>1 DEF LiveInv, ChunksOK, InitsOK, cache_vars, state_vars
<1>3. ReaderOK'
  BY <1>1, ReaderSame
<1>4. VersionsOK'
  BY <1>1, VersionsSame DEF cache_vars, reader_vars
<1>5. i_pc = "idle" /\ i_object' = o /\ i_pc' = IF o.epoch = epoch THEN "observe" ELSE "zero"
  BY DEF BeginCommit
<1>6. WakeOK'
  BY <1>1, <1>5, WakeSame DEF state_vars, reader_vars
<1>7. o.epoch \in Nat /\ o.epoch > 0 /\ (epoch = 0 \/ o.epoch >= epoch)
  BY ObjectTypes DEF BeginCommit, NoEpoch
<1>8. epoch \in Nat
  BY EpochTypes DEF LiveInv, ChunksOK
<1>9. o.epoch # epoch => o.epoch > epoch
  BY <1>7, <1>8
<1>10. IngestOK'
  <2>1. ObservedIsCached'
    BY <1>1, <1>5 DEF LiveInv, IngestOK, ObservedIsCached, cache_vars, state_vars
  <2>2. epoch' = epoch /\ slots' = slots
    BY <1>1 DEF cache_vars, state_vars
  <2>. QED
    BY <1>5, <1>9, <2>1, <2>2 DEF IngestOK
<1>. QED
  BY <1>2, <1>3, <1>4, <1>6, <1>10 DEF LiveInv

\* The chunk cache of the stream is emptied.
LEMMA EmptiedChunks ==
    ASSUME LiveInv, slots' = EmptyMap, head' = None, version' = version + 1,
           base' = base, epoch' = epoch
    PROVE  ChunksOK' /\ DOMAIN slots' = {}
<1>1. DOMAIN slots' = {}
  BY DEF EmptyMap
<1>2. IsFiniteSet({})
  BY FS_EmptySet
<1>. QED
  BY <1>1, <1>2 DEF LiveInv, ChunksOK

LEMMA ZeroStreamKeeps ==
    ASSUME LiveInv, ZeroStream
    PROVE  LiveInv'
<1>1. /\ UNCHANGED <<state_vars, playlist, updates, i_object, reader_vars>>
      /\ i_pc = "zero" /\ i_pc' = "activate" /\ version' = version + 1 /\ cache_init' = NoEpoch
  BY DEF ZeroStream
<1>2. ChunksOK' /\ DOMAIN slots' = {}
  BY <1>1, EmptiedChunks DEF ZeroStream, state_vars
<1>3. InitsOK'
  BY <1>1 DEF LiveInv, InitsOK, EpochOrNone, state_vars
<1>4. PartsOK(parts, current_segment, retained_bytes)'
  BY <1>1, PartsSame DEF state_vars
<1>5. ReaderOK'
  BY <1>1, ReaderSame
<1>6. VersionsOK'
  BY <1>1, VersionsPast DEF reader_vars
<1>7. WakeOK'
  BY <1>1, WakeSame DEF state_vars, reader_vars
<1>8. IngestOK'
  BY <1>1, <1>2 DEF LiveInv, IngestOK, ObservedIsCached, state_vars
<1>. QED
  BY <1>2, <1>3, <1>4, <1>5, <1>6, <1>7, <1>8 DEF LiveInv

LEMMA RetireZeroKeeps ==
    ASSUME LiveInv, RetireZero
    PROVE  LiveInv'
<1>1. /\ UNCHANGED <<state_vars, playlist, updates, i_object, reader_vars>>
      /\ i_pc = "idle" /\ i_pc' = "forget" /\ version' = version + 1 /\ cache_init' = NoEpoch
  BY DEF RetireZero
<1>2. ChunksOK' /\ DOMAIN slots' = {}
  BY <1>1, EmptiedChunks DEF RetireZero, state_vars
<1>3. InitsOK'
  BY <1>1 DEF LiveInv, InitsOK, EpochOrNone, state_vars
<1>4. PartsOK(parts, current_segment, retained_bytes)'
  BY <1>1, PartsSame DEF state_vars
<1>5. ReaderOK'
  BY <1>1, ReaderSame
<1>6. VersionsOK'
  BY <1>1, VersionsPast DEF reader_vars
<1>7. WakeOK'
  BY <1>1, WakeSame DEF state_vars, reader_vars
<1>8. IngestOK'
  BY <1>1, <1>2 DEF LiveInv, IngestOK, ObservedIsCached, state_vars
<1>. QED
  BY <1>2, <1>3, <1>4, <1>5, <1>6, <1>7, <1>8 DEF LiveInv

\* Nothing is retained.
LEMMA NoParts ==
    ASSUME NEW p, DOMAIN p = {}
    PROVE  PartsOK(p, None, 0)
<1>1. IsFiniteSet({})
  BY FS_EmptySet
<1>2. SumFunctionOnSet(PartBytes(p), {}) = 0
  BY <1>1, SumUnfolds
<1>. QED
  BY <1>1, <1>2 DEF PartsOK

\* The state of the stream is reset, with or without an epoch to follow.
LEMMA ResetState ==
    ASSUME LiveInv, DOMAIN slots = {}, base' = None, parts' = EmptyMap, current_segment' = None,
           retained_bytes' = 0, init' = NoEpoch, epoch' \in EpochOrNone,
           UNCHANGED <<cache_vars, playlist, updates, reader_vars>>
    PROVE  /\ ChunksOK' /\ InitsOK' /\ PartsOK(parts, current_segment, retained_bytes)'
           /\ ReaderOK' /\ VersionsOK' /\ WakeOK' /\ DOMAIN parts' = {}
<1>1. DOMAIN parts' = {}
  BY DEF EmptyMap
<1>2. PartsOK(parts', None, 0)
  BY <1>1, NoParts
<1>3. ChunksOK'
  BY DEF LiveInv, ChunksOK, cache_vars
<1>4. InitsOK'
  BY DEF LiveInv, InitsOK, EpochOrNone, cache_vars
<1>5. ReaderOK'
  BY ReaderSame
<1>6. VersionsOK'
  BY VersionsSame DEF cache_vars, reader_vars
<1>7. WakeOK'
  BY <1>1, NothingToWake DEF reader_vars
<1>. QED
  BY <1>1, <1>2, <1>3, <1>4, <1>5, <1>6, <1>7

LEMMA ActivateEpochKeeps ==
    ASSUME LiveInv, ActivateEpoch
    PROVE  LiveInv'
<1>1. /\ i_pc = "activate" /\ i_pc' = "observe" /\ i_object' = i_object
      /\ epoch' = i_object.epoch /\ slots' = slots
  BY DEF ActivateEpoch, cache_vars
<1>2. i_object \in Object /\ DOMAIN slots = {}
  BY <1>1 DEF LiveInv, IngestOK
<1>3. epoch' \in EpochOrNone
  BY <1>1, <1>2, ObjectTypes
<1>4. /\ ChunksOK' /\ InitsOK' /\ PartsOK(parts, current_segment, retained_bytes)'
      /\ ReaderOK' /\ VersionsOK' /\ WakeOK' /\ DOMAIN parts' = {}
  BY <1>2, <1>3, ResetState DEF ActivateEpoch
<1>5. IngestOK'
  BY <1>1, <1>2, <1>4 DEF LiveInv, IngestOK, ObservedIsCached
<1>. QED
  BY <1>4, <1>5 DEF LiveInv

LEMMA ForgetStreamKeeps ==
    ASSUME LiveInv, ForgetStream
    PROVE  LiveInv'
<1>1. i_pc = "forget" /\ i_pc' = "uncache" /\ i_object' = i_object /\ slots' = slots
  BY DEF ForgetStream, cache_vars
<1>2. DOMAIN slots = {}
  BY <1>1 DEF LiveInv, IngestOK
<1>3. epoch' \in EpochOrNone
  BY DEF ForgetStream, EpochOrNone
<1>4. /\ ChunksOK' /\ InitsOK' /\ PartsOK(parts, current_segment, retained_bytes)'
      /\ ReaderOK' /\ VersionsOK' /\ WakeOK' /\ DOMAIN parts' = {}
  BY <1>2, <1>3, ResetState DEF ForgetStream
<1>5. IngestOK'
  BY <1>1, <1>2, <1>4 DEF LiveInv, IngestOK, ObservedIsCached
<1>. QED
  BY <1>4, <1>5 DEF LiveInv

LEMMA ObserveObjectKeeps ==
    ASSUME LiveInv, ObserveObject
    PROVE  LiveInv'
<1>1. /\ UNCHANGED <<cache_vars, epoch, base, parts, current_segment, retained_bytes,
                     playlist, updates, i_object, reader_vars>>
      /\ i_pc = "observe" /\ i_pc' \in {"init", "put"}
  BY DEF ObserveObject
<1>2. i_object \in Object /\ i_object.epoch = epoch
  BY <1>1 DEF LiveInv, IngestOK
<1>3. InitsOK'
  <2>1. init' = i_object.epoch \/ init' = init
    BY DEF ObserveObject
  <2>2. i_object.epoch \in EpochOrNone
    BY <1>2, ObjectTypes
  <2>. QED
    BY <1>1, <2>1, <2>2 DEF LiveInv, InitsOK, cache_vars
<1>4. ChunksOK'
  BY <1>1 DEF LiveInv, ChunksOK, cache_vars
<1>5. PartsOK(parts, current_segment, retained_bytes)'
  BY <1>1, PartsSame
<1>6. ReaderOK'
  BY <1>1, ReaderSame
<1>7. VersionsOK'
  BY <1>1, VersionsSame DEF cache_vars, reader_vars
<1>8. WakeOK'
  BY <1>1, WakeSame DEF reader_vars
<1>9. IngestOK'
  <2>1. slots' = slots
    BY <1>1 DEF cache_vars
  <2>. QED
    BY <1>1, <1>2, <2>1 DEF LiveInv, IngestOK, ObservedIsCached
<1>. QED
  BY <1>3, <1>4, <1>5, <1>6, <1>7, <1>8, <1>9 DEF LiveInv

LEMMA SetInitializationKeeps ==
    ASSUME LiveInv, SetInitialization
    PROVE  LiveInv'
<1>1. /\ UNCHANGED <<slots, head, version, state_vars, playlist, updates, reader_vars>>
      /\ i_pc = "init" /\ cache_init' = i_object.epoch
      /\ \/ i_pc' = "put" /\ i_object' = i_object
         \/ i_pc' = "idle" /\ i_object' = NoObject
  BY DEF SetInitialization
<1>2. i_object \in Object /\ i_object.epoch = epoch
  BY <1>1 DEF LiveInv, IngestOK
<1>3. InitsOK'
  <2>1. i_object.epoch \in EpochOrNone
    BY <1>2, ObjectTypes
  <2>. QED
    BY <1>1, <2>1 DEF LiveInv, InitsOK, state_vars
<1>4. ChunksOK'
  BY <1>1 DEF LiveInv, ChunksOK, state_vars
<1>5. PartsOK(parts, current_segment, retained_bytes)'
  BY <1>1, PartsSame DEF state_vars
<1>6. ReaderOK'
  BY <1>1, ReaderSame
<1>7. VersionsOK'
  BY <1>1, VersionsSame DEF reader_vars
<1>8. WakeOK'
  BY <1>1, WakeSame DEF reader_vars, state_vars
<1>9. IngestOK'
  BY <1>1, <1>2 DEF LiveInv, IngestOK, ObservedIsCached, state_vars
<1>. QED
  BY <1>3, <1>4, <1>5, <1>6, <1>7, <1>8, <1>9 DEF LiveInv

\* The end of a run of slots is a slot.
LEMMA HeadIsSlot ==
    ASSUME NEW table, DOMAIN table \subseteq Seqs, IsFiniteSet(DOMAIN table), NEW from \in Seqs
    PROVE  ContiguousHead(table, from) \in {None} \cup Seqs
<1>1. Seqs \subseteq Nat
  BY LiveStreamAssumption
<1>2. CASE from \notin DOMAIN table
  BY <1>2 DEF ContiguousHead
<1>3. CASE from \in DOMAIN table
  <2>1. PICK S : S = {s \in DOMAIN table : s >= from /\ \A t \in from..s : t \in DOMAIN table}
    OBVIOUS
  <2>2. S \in SUBSET Nat /\ S \in SUBSET (DOMAIN table)
    BY <1>1, <2>1
  <2>3. IsFiniteSet(S)
    BY <2>2, FS_Subset
  <2>4. from \in S
    <3>1. from \in Nat /\ from >= from /\ \A t \in from..from : t = from
      BY <1>1
    <3>. QED
      BY <1>3, <2>1, <3>1
  <2>5. Max(S) \in S
    BY <2>2, <2>3, <2>4, MaxOfFinite
  <2>6. ContiguousHead(table, from) = Max(S)
    BY <1>3, <2>1 DEF ContiguousHead
  <2>. QED
    BY <2>2, <2>5, <2>6
<1>. QED
  BY <1>2, <1>3

\* The table of slots with the object o.
SlotsWith(o) == IF o.seq \in DOMAIN slots THEN slots ELSE With(slots, o.seq, o)

LEMMA SlotsGrow ==
    ASSUME LiveInv, NEW o \in Object, o.epoch = epoch
    PROVE  /\ DOMAIN SlotsWith(o) = DOMAIN slots \cup {o.seq}
           /\ DOMAIN SlotsWith(o) \subseteq Seqs /\ IsFiniteSet(DOMAIN SlotsWith(o))
           /\ \A s \in DOMAIN SlotsWith(o) :
                 SlotsWith(o)[s] \in Object /\ SlotsWith(o)[s].epoch = epoch
<1>1. PICK D, t : D = DOMAIN slots /\ t = SlotsWith(o)
  OBVIOUS
<1>2. D \subseteq Seqs /\ IsFiniteSet(D) /\ \A s \in D : slots[s] \in Object /\ slots[s].epoch = epoch
  BY <1>1 DEF LiveInv, ChunksOK
<1>3. o.seq \in Seqs /\ IsFiniteSet(D \cup {o.seq})
  BY <1>2, ObjectTypes, FS_AddElement
<1>4. DOMAIN t = D \cup {o.seq} /\ \A s \in DOMAIN t : t[s] = o \/ (s \in D /\ t[s] = slots[s])
  BY <1>1 DEF SlotsWith, With
<1>. QED
  BY <1>1, <1>2, <1>3, <1>4

LEMMA PutSlotKeeps ==
    ASSUME LiveInv, PutSlot
    PROVE  LiveInv'
<1>1. /\ UNCHANGED <<cache_init, state_vars, playlist, updates, reader_vars>>
      /\ i_pc = "put"
      /\ \/ i_pc' = "idle" /\ i_object' = NoObject
         \/ i_pc' = "record" /\ i_object' = i_object
  BY DEF PutSlot
<1>2. PICK o, from : o = i_object /\ from = IF base = None THEN i_object.seq ELSE base
  OBVIOUS
<1>3. o \in Object /\ o.epoch = epoch
  BY <1>1, <1>2 DEF LiveInv, IngestOK
<1>4. slots' = SlotsWith(o) /\ head' = ContiguousHead(SlotsWith(o), from)
      /\ version' = (IF o.seq \in DOMAIN slots THEN version ELSE version + 1)
  BY <1>2 DEF PutSlot, SlotsWith
<1>5. /\ DOMAIN slots' = DOMAIN slots \cup {o.seq}
      /\ DOMAIN slots' \subseteq Seqs /\ IsFiniteSet(DOMAIN slots')
      /\ \A s \in DOMAIN slots' : slots'[s] \in Object /\ slots'[s].epoch = epoch
  BY <1>3, <1>4, SlotsGrow, Zenon
<1>6. head' \in {None} \cup Seqs
  <2>1. from \in Seqs
    BY <1>2, <1>3, ObjectTypes DEF LiveInv, ChunksOK
  <2>2. ContiguousHead(slots', from) \in {None} \cup Seqs
    BY <1>5, <2>1, HeadIsSlot
  <2>. QED
    BY <1>4, <2>2
<1>7. ChunksOK'
  <2>1. version' \in Nat
    BY <1>4 DEF LiveInv, ChunksOK
  <2>2. base' = base /\ epoch' = epoch /\ base \in {None} \cup Seqs /\ epoch \in EpochOrNone
    BY <1>1 DEF LiveInv, ChunksOK, state_vars
  <2>. QED
    BY <1>5, <1>6, <2>1, <2>2 DEF ChunksOK
<1>8. InitsOK'
  BY <1>1, InitsSame DEF state_vars
<1>9. PartsOK(parts, current_segment, retained_bytes)'
  BY <1>1, PartsSame DEF state_vars
<1>10. ReaderOK'
  BY <1>1, ReaderSame
<1>11. VersionsOK'
  <2>1. CASE o.seq \in DOMAIN slots
    <3>1. slots' = slots /\ version' = version
      BY <1>4, <2>1 DEF SlotsWith
    <3>. QED
      BY <1>1, <3>1, VersionsSame DEF reader_vars
  <2>2. CASE o.seq \notin DOMAIN slots
    BY <1>1, <1>4, <2>2, VersionsPast DEF reader_vars
  <2>. QED
    BY <2>1, <2>2
<1>12. WakeOK'
  BY <1>1, WakeSame DEF reader_vars, state_vars
<1>13. IngestOK'
  <2>1. DOMAIN parts' \subseteq DOMAIN slots'
    BY <1>1, <1>5 DEF LiveInv, IngestOK, ObservedIsCached, state_vars
  <2>2. epoch' = epoch
    BY <1>1 DEF state_vars
  <2>. QED
    BY <1>1, <1>2, <1>3, <1>5, <2>1, <2>2 DEF IngestOK, ObservedIsCached
<1>. QED
  BY <1>7, <1>8, <1>9, <1>10, <1>11, <1>12, <1>13 DEF LiveInv

\* record_part_available keeps the window and the bytes of what is in it.
LEMMA RecordPartKeeps ==
    ASSUME LiveInv, NEW o \in Object, RecordPart(o)
    PROVE  /\ PartsOK(parts', current_segment', retained_bytes')
           /\ DOMAIN parts' \subseteq DOMAIN parts \cup {o.seq}
<1>1. PICK x, all, seg, sum, gone :
         /\ x = [keyframe |-> IsKeyframe(o), segment |-> SegmentFor(o), bytes |-> BytesOf(o)]
         /\ all = (IF o.seq \in DOMAIN parts THEN parts ELSE With(parts, o.seq, x))
         /\ seg = current_segment'
         /\ sum = SumFunctionOnSet(PartBytes(all), DOMAIN all)
         /\ gone = SumFunctionOnSet(PartBytes(all), DOMAIN all \ WindowOf(DOMAIN all))
  OBVIOUS
<1>2. /\ parts' = TrimOf(all)
      /\ seg = (IF o.seq \in DOMAIN parts THEN current_segment ELSE SegmentFor(o))
      /\ retained_bytes' = retained_bytes + (IF o.seq \in DOMAIN parts THEN 0 ELSE BytesOf(o)) - gone
  BY <1>1 DEF RecordPart, TrimOf
<1>3. /\ CountedParts(parts) /\ current_segment \in {None} \cup Nat
      /\ retained_bytes = SumFunctionOnSet(PartBytes(parts), DOMAIN parts)
  BY DEF LiveInv, PartsOK, CountedParts
<1>4. SegmentFor(o) \in {None} \cup Nat
  BY <1>3 DEF SegmentFor, None
<1>5. BytesOf(o) \in Nat
  BY DEF BytesOf
<1>6. x \in Part /\ x.bytes = BytesOf(o)
  <2>1. IsKeyframe(o) \in BOOLEAN
    BY DEF IsKeyframe
  <2>. QED
    BY <1>1, <1>4, <1>5, <2>1 DEF Part
<1>7. o.seq \in Seqs
  BY ObjectTypes
<1>8. /\ CountedParts(all) /\ DOMAIN all = DOMAIN parts \cup {o.seq}
      /\ sum = retained_bytes + (IF o.seq \in DOMAIN parts THEN 0 ELSE BytesOf(o))
  <2>1. CASE o.seq \in DOMAIN parts
    <3>1. all = parts /\ DOMAIN parts = DOMAIN parts \cup {o.seq}
      BY <1>1, <2>1
    <3>2. retained_bytes \in Nat
      <4>1. NatOn(PartBytes(parts), DOMAIN parts) /\ IsFiniteSet(DOMAIN parts)
        BY <1>3 DEF CountedParts, NatOn, PartBytes, Part
      <4>. QED
        BY <1>3, <4>1, SumPart
    <3>. QED
      BY <1>1, <1>3, <2>1, <3>1, <3>2
  <2>2. CASE o.seq \notin DOMAIN parts
    <3>1. all = With(parts, o.seq, x)
      BY <1>1, <2>2
    <3>2. /\ CountedParts(With(parts, o.seq, x))
          /\ DOMAIN With(parts, o.seq, x) = DOMAIN parts \cup {o.seq}
          /\ SumFunctionOnSet(PartBytes(With(parts, o.seq, x)), DOMAIN With(parts, o.seq, x))
               = SumFunctionOnSet(PartBytes(parts), DOMAIN parts) + x.bytes
      BY <1>3, <1>6, <1>7, <2>2, PartAdded
    <3>. QED
      BY <1>1, <1>3, <1>6, <2>2, <3>1, <3>2
  <2>. QED
    BY <2>1, <2>2
<1>9. seg \in {None} \cup Nat
  BY <1>2, <1>3, <1>4
<1>10. DOMAIN all # {}
  BY <1>8
<1>11. PartsOK(TrimOf(all), seg, sum - gone) /\ Trimmed(all, TrimOf(all))
  <2>1. PartsOK(TrimOf(all), seg,
          SumFunctionOnSet(PartBytes(all), DOMAIN all)
            - SumFunctionOnSet(PartBytes(all), DOMAIN all \ WindowOf(DOMAIN all)))
    BY ONLY <1>8, <1>9, <1>10, TrimKeeps
  <2>2. Trimmed(all, TrimOf(all))
    BY ONLY <1>8, <1>10, TrimFacts
  <2>3. /\ sum = SumFunctionOnSet(PartBytes(all), DOMAIN all)
        /\ gone = SumFunctionOnSet(PartBytes(all), DOMAIN all \ WindowOf(DOMAIN all))
    BY <1>1
  <2>4. PartsOK(TrimOf(all), seg, sum - gone)
    BY ONLY <2>1, <2>3
  <2>. QED
    BY ONLY <2>2, <2>4
<1>12. retained_bytes' = sum - gone
  <2>1. PICK more : more = IF o.seq \in DOMAIN parts THEN 0 ELSE BytesOf(o)
    OBVIOUS
  <2>2. retained_bytes' = retained_bytes + more - gone
    BY <1>2, <2>1
  <2>3. sum = retained_bytes + more
    BY <1>8, <2>1
  <2>4. more \in Nat
    BY <1>5, <2>1
  <2>5. retained_bytes \in Nat
    <3>1. NatOn(PartBytes(parts), DOMAIN parts) /\ IsFiniteSet(DOMAIN parts)
      BY <1>3 DEF CountedParts, NatOn, PartBytes, Part
    <3>. QED
      BY <1>3, <3>1, SumPart
  <2>6. gone \in Nat
    <3>1. PICK f, D, E : f = PartBytes(all) /\ D = DOMAIN all /\ E = DOMAIN all \ WindowOf(DOMAIN all)
      OBVIOUS
    <3>2. NatOn(f, D) /\ IsFiniteSet(D) /\ E \in SUBSET D
      BY <1>8, <3>1 DEF CountedParts, NatOn, PartBytes, Part
    <3>3. SumFunctionOnSet(f, E) \in Nat
      BY ONLY <3>2, SumPart
    <3>. QED
      BY <1>1, <3>1, <3>3
  <2>. QED
    BY ONLY <2>2, <2>3, <2>4, <2>5, <2>6
<1>. QED
  BY <1>1, <1>2, <1>8, <1>11, <1>12 DEF Trimmed

LEMMA RecordObjectKeeps ==
    ASSUME LiveInv, RecordObject
    PROVE  LiveInv'
<1>1. /\ UNCHANGED <<cache_vars, epoch, init, playlist, updates, i_object, reader_vars>>
      /\ i_pc = "record" /\ i_pc' = "notify" /\ RecordPart(i_object)
      /\ base' = (IF base = None THEN i_object.seq ELSE base)
  BY DEF RecordObject
<1>2. i_object \in Object /\ i_object.epoch = epoch /\ i_object.seq \in DOMAIN slots
  BY <1>1 DEF LiveInv, IngestOK
<1>3. /\ PartsOK(parts', current_segment', retained_bytes')
      /\ DOMAIN parts' \subseteq DOMAIN parts \cup {i_object.seq}
  BY <1>1, <1>2, RecordPartKeeps
<1>4. ChunksOK'
  <2>1. base' \in {None} \cup Seqs
    BY <1>1, <1>2, ObjectTypes DEF LiveInv, ChunksOK
  <2>. QED
    BY <1>1, <2>1 DEF LiveInv, ChunksOK, cache_vars
<1>5. InitsOK'
  BY <1>1, InitsSame DEF cache_vars
<1>6. ReaderOK'
  BY <1>1, ReaderSame
<1>7. VersionsOK'
  BY <1>1, VersionsSame DEF cache_vars, reader_vars
<1>8. WakeOK'
  BY <1>1 DEF LiveInv, WakeOK, NoLostWakeup, reader_vars
<1>9. IngestOK'
  <2>1. slots' = slots /\ DOMAIN parts' \subseteq DOMAIN slots
    BY <1>1, <1>2, <1>3 DEF LiveInv, IngestOK, ObservedIsCached, cache_vars
  <2>. QED
    BY <1>1, <1>2, <2>1 DEF LiveInv, IngestOK, ObservedIsCached
<1>. QED
  BY <1>3, <1>4, <1>5, <1>6, <1>7, <1>8, <1>9 DEF LiveInv

LEMMA NotifyKeeps ==
    ASSUME LiveInv, Notify
    PROVE  LiveInv'
<1>1. /\ UNCHANGED <<cache_vars, state_vars, playlist, reader_vars>>
      /\ i_pc = "notify" /\ i_pc' = "idle" /\ i_object' = NoObject /\ updates' = updates + 1
  BY DEF Notify
<1>2. ChunksOK' /\ InitsOK' /\ PartsOK(parts, current_segment, retained_bytes)'
  BY <1>1 DEF LiveInv, ChunksOK, InitsOK, cache_vars, state_vars
<1>3. ReaderOK'
  BY <1>1, ReaderSame
<1>4. VersionsOK'
  BY <1>1, VersionsSame DEF cache_vars, reader_vars
<1>5. WakeOK'
  <2>1. /\ updates \in Nat /\ r_seen \in Nat /\ r_seen <= updates /\ r_seen' = r_seen
    BY <1>1 DEF LiveInv, WakeOK, reader_vars
  <2>2. updates' \in Nat /\ r_seen' \in Nat /\ r_seen' <= updates' /\ updates' # r_seen'
    BY <1>1, <2>1
  <2>. QED
    BY <2>2 DEF WakeOK, NoLostWakeup
<1>6. IngestOK'
  BY <1>1 DEF LiveInv, IngestOK, ObservedIsCached, cache_vars, state_vars
<1>. QED
  BY <1>2, <1>3, <1>4, <1>5, <1>6 DEF LiveInv

LEMMA UncachePlaylistKeeps ==
    ASSUME LiveInv, UncachePlaylist
    PROVE  LiveInv'
<1>1. /\ UNCHANGED <<cache_vars, state_vars, updates, i_object, reader_vars>>
      /\ i_pc = "uncache" /\ i_pc' = "idle" /\ playlist' = [version |-> None, parts |-> {}]
  BY DEF UncachePlaylist
<1>2. ChunksOK' /\ InitsOK' /\ PartsOK(parts, current_segment, retained_bytes)'
  BY <1>1 DEF LiveInv, ChunksOK, InitsOK, cache_vars, state_vars
<1>3. ReaderOK'
  BY <1>1, ReaderSame
<1>4. VersionsOK'
  <2>1. playlist'.version = -1 /\ playlist'.parts = {}
    BY <1>1 DEF None
  <2>2. version \in Nat /\ version' = version /\ slots' = slots
    BY <1>1 DEF LiveInv, ChunksOK, cache_vars
  <2>3. r_version' = r_version /\ r_available' = r_available
    BY <1>1 DEF reader_vars
  <2>4. -1 <= version
    BY <2>2
  <2>. QED
    BY <2>1, <2>2, <2>3, <2>4 DEF LiveInv, VersionsOK, None
<1>5. WakeOK'
  BY <1>1, WakeSame DEF reader_vars, state_vars
<1>6. IngestOK'
  BY <1>1 DEF LiveInv, IngestOK, ObservedIsCached, cache_vars, state_vars
<1>. QED
  BY <1>2, <1>3, <1>4, <1>5, <1>6 DEF LiveInv

-----------------------------------------------------------------------------
stream_vars == <<slots, head, version, epoch, base, parts, current_segment,
                 retained_bytes, i_pc, i_object>>

\* What is left to show of a step of the handler.
LEMMA HandlerKeeps ==
    ASSUME LiveInv, UNCHANGED stream_vars, InitsOK', ReaderOK', VersionsOK', WakeOK'
    PROVE  LiveInv'
<1>1. ChunksOK' /\ PartsOK(parts, current_segment, retained_bytes)' /\ IngestOK'
  BY StreamSame DEF stream_vars
<1>. QED
  BY <1>1 DEF LiveInv

\* A handler that does not wait cannot miss its wakeup.
LEMMA AwakeKeeps ==
    ASSUME LiveInv, r_pc' # "wait", updates' = updates, r_seen' \in {r_seen, updates}
    PROVE  WakeOK'
<1>1. updates \in Nat /\ r_seen \in Nat /\ r_seen <= updates
  BY DEF LiveInv, WakeOK
<1>2. updates' \in Nat /\ r_seen' \in Nat /\ r_seen' <= updates'
  BY <1>1
<1>. QED
  BY <1>2 DEF WakeOK, NoLostWakeup

\* The answer leaves.
LEMMA ReplyKeeps ==
    ASSUME LiveInv, NEW body \in SUBSET PlaylistEntry, Reply(body),
           r_position' = r_position, r_epoch' = r_epoch, r_seen' = r_seen,
           UNCHANGED <<slots, version, updates>>,
           playlist' = playlist \/ (playlist' = [version |-> r_version, parts |-> body]
                                    /\ \A q \in body : q.seq \in r_available)
    PROVE  ReaderOK' /\ VersionsOK' /\ WakeOK'
<1>1. /\ r_body' = body /\ r_pc' = "idle" /\ r_last' = None /\ r_version' = None
      /\ r_next' = 0 /\ r_available' = {} /\ r_init' = NoEpoch
  BY DEF Reply
<1>2. ReaderOK'
  BY <1>1 DEF LiveInv, ReaderOK, EpochOrNone
<1>3. WakeOK'
  BY <1>1, AwakeKeeps
<1>4. version \in Nat /\ VersionsOK
  BY DEF LiveInv, ChunksOK
<1>5. -1 <= version
  BY <1>4
<1>6. VersionsOK'
  <2>1. CASE playlist' = playlist
    BY <1>1, <1>4, <1>5, <2>1 DEF VersionsOK, None
  <2>2. CASE /\ playlist' = [version |-> r_version, parts |-> body]
             /\ \A q \in body : q.seq \in r_available
    <3>1. /\ playlist'.version = r_version /\ playlist'.parts = body
          /\ r_version = version => \A q \in body : q.seq \in DOMAIN slots
      BY <1>4, <2>2 DEF VersionsOK
    <3>. QED
      BY <1>1, <1>4, <1>5, <3>1 DEF VersionsOK, None
  <2>. QED
    BY <2>1, <2>2
<1>. QED
  BY <1>2, <1>3, <1>6

LEMMA RequestKeeps ==
    ASSUME LiveInv, NEW p \in Positions \cup {NoPosition}, Request(p)
    PROVE  LiveInv'
<1>1. /\ UNCHANGED <<cache_vars, state_vars, playlist, updates, ingest_vars,
                     r_last, r_version, r_next, r_available, r_init, r_epoch>>
      /\ r_pc = "idle" /\ r_pc' \in {"position", "check"} /\ r_seen' = updates
      /\ r_position' = p /\ r_body' = {}
  BY DEF Request
<1>2. UNCHANGED stream_vars
  BY <1>1 DEF stream_vars, cache_vars, state_vars, ingest_vars
<1>3. InitsOK'
  BY <1>1, InitsSame DEF cache_vars, state_vars
<1>4. ReaderOK'
  BY <1>1 DEF LiveInv, ReaderOK
<1>5. VersionsOK'
  BY <1>1, VersionsSame DEF cache_vars
<1>6. WakeOK'
  BY <1>1, AwakeKeeps
<1>. QED
  BY <1>2, <1>3, <1>4, <1>5, <1>6, HandlerKeeps

LEMMA CheckPositionKeeps ==
    ASSUME LiveInv, CheckPosition
    PROVE  LiveInv'
<1>1. /\ UNCHANGED <<cache_vars, state_vars, playlist, updates, ingest_vars, r_position, r_seen,
                     r_last, r_version, r_next, r_available, r_init, r_body>>
      /\ r_pc = "check"
      /\ r_pc' = (IF PositionAvailable(r_position) THEN "position" ELSE "wait")
      /\ r_epoch' = (IF PositionAvailable(r_position) THEN epoch ELSE NoEpoch)
  BY DEF CheckPosition
<1>2. UNCHANGED stream_vars
  BY <1>1 DEF stream_vars, cache_vars, state_vars, ingest_vars
<1>3. InitsOK'
  BY <1>1, InitsSame DEF cache_vars, state_vars
<1>4. ReaderOK'
  <2>1. r_epoch' \in EpochOrNone
    BY <1>1 DEF LiveInv, ChunksOK, EpochOrNone
  <2>. QED
    BY <1>1, <2>1 DEF LiveInv, ReaderOK
<1>5. VersionsOK'
  BY <1>1, VersionsSame DEF cache_vars
<1>6. WakeOK'
  <2>1. CASE PositionAvailable(r_position)
    BY <1>1, <2>1, AwakeKeeps
  <2>2. CASE ~PositionAvailable(r_position)
    <3>1. Observed' = Observed
      BY <1>1 DEF Observed, state_vars
    <3>2. ~PositionAvailable(r_position)'
      BY <1>1, <2>2, <3>1 DEF PositionAvailable
    <3>. QED
      BY <1>1, <3>2 DEF LiveInv, WakeOK, NoLostWakeup
  <2>. QED
    BY <2>1, <2>2
<1>. QED
  BY <1>2, <1>3, <1>4, <1>5, <1>6, HandlerKeeps

LEMMA WakeKeeps ==
    ASSUME LiveInv, Wake
    PROVE  LiveInv'
<1>1. /\ UNCHANGED <<cache_vars, state_vars, playlist, updates, ingest_vars, r_position, r_last,
                     r_version, r_next, r_available, r_init, r_body, r_epoch>>
      /\ r_pc = "wait" /\ r_pc' = "check" /\ r_seen' = updates
  BY DEF Wake
<1>2. UNCHANGED stream_vars
  BY <1>1 DEF stream_vars, cache_vars, state_vars, ingest_vars
<1>3. InitsOK'
  BY <1>1, InitsSame DEF cache_vars, state_vars
<1>4. ReaderOK'
  BY <1>1 DEF LiveInv, ReaderOK
<1>5. VersionsOK'
  BY <1>1, VersionsSame DEF cache_vars
<1>6. WakeOK'
  BY <1>1, AwakeKeeps
<1>. QED
  BY <1>2, <1>3, <1>4, <1>5, <1>6, HandlerKeeps

LEMMA WaitTimeoutKeeps ==
    ASSUME LiveInv, WaitTimeout
    PROVE  LiveInv'
<1>1. /\ UNCHANGED <<cache_vars, state_vars, playlist, updates, ingest_vars, r_seen, r_last,
                     r_version, r_next, r_available, r_init, r_body, r_epoch>>
      /\ r_pc = "wait" /\ r_pc' = "position" /\ r_position' = NoPosition
  BY DEF WaitTimeout
<1>2. UNCHANGED stream_vars
  BY <1>1 DEF stream_vars, cache_vars, state_vars, ingest_vars
<1>3. InitsOK'
  BY <1>1, InitsSame DEF cache_vars, state_vars
<1>4. ReaderOK'
  BY <1>1 DEF LiveInv, ReaderOK
<1>5. VersionsOK'
  BY <1>1, VersionsSame DEF cache_vars
<1>6. WakeOK'
  BY <1>1, AwakeKeeps
<1>. QED
  BY <1>2, <1>3, <1>4, <1>5, <1>6, HandlerKeeps

LEMMA ReadPositionKeeps ==
    ASSUME LiveInv, ReadPosition
    PROVE  LiveInv'
<1>1. /\ UNCHANGED <<cache_vars, state_vars, playlist, updates, ingest_vars, r_position, r_seen,
                     r_version, r_next, r_available, r_init, r_body, r_epoch>>
      /\ r_pc = "position" /\ r_pc' \in {"init", "version"} /\ r_last' = head
  BY DEF ReadPosition
<1>2. UNCHANGED stream_vars
  BY <1>1 DEF stream_vars, cache_vars, state_vars, ingest_vars
<1>3. InitsOK'
  BY <1>1, InitsSame DEF cache_vars, state_vars
<1>4. ReaderOK'
  BY <1>1 DEF LiveInv, ChunksOK, ReaderOK
<1>5. VersionsOK'
  BY <1>1, VersionsSame DEF cache_vars
<1>6. WakeOK'
  BY <1>1, AwakeKeeps
<1>. QED
  BY <1>2, <1>3, <1>4, <1>5, <1>6, HandlerKeeps

LEMMA ReadVersionKeeps ==
    ASSUME LiveInv, ReadVersion
    PROVE  LiveInv'
<1>1. /\ UNCHANGED <<cache_vars, state_vars, playlist, updates, ingest_vars, r_position, r_seen,
                     r_last, r_next, r_available, r_init, r_body, r_epoch>>
      /\ r_pc = "version" /\ r_version' = version /\ r_pc' = "cached"
  BY DEF ReadVersion
<1>2. UNCHANGED stream_vars
  BY <1>1 DEF stream_vars, cache_vars, state_vars, ingest_vars
<1>3. InitsOK'
  BY <1>1, InitsSame DEF cache_vars, state_vars
<1>4. version \in Nat /\ r_available = {}
  BY <1>1 DEF LiveInv, ChunksOK, ReaderOK
<1>5. ReaderOK'
  BY <1>1, <1>4 DEF LiveInv, ReaderOK
<1>6. VersionsOK'
  <2>1. version' = version /\ slots' = slots /\ playlist' = playlist /\ version <= version
    BY <1>1, <1>4 DEF cache_vars
  <2>. QED
    BY <1>1, <1>4, <2>1 DEF LiveInv, VersionsOK
<1>7. WakeOK'
  BY <1>1, AwakeKeeps
<1>. QED
  BY <1>2, <1>3, <1>5, <1>6, <1>7, HandlerKeeps

LEMMA ServeCachedKeeps ==
    ASSUME LiveInv, ServeCached
    PROVE  LiveInv'
<1>1. /\ UNCHANGED <<cache_vars, state_vars, playlist, updates, ingest_vars, r_position, r_seen,
                     r_epoch>>
      /\ r_pc = "cached"
  BY DEF ServeCached
<1>2. UNCHANGED stream_vars
  BY <1>1 DEF stream_vars, cache_vars, state_vars, ingest_vars
<1>3. InitsOK'
  BY <1>1, InitsSame DEF cache_vars, state_vars
<1>4. ReaderOK' /\ VersionsOK' /\ WakeOK'
  <2>1. CASE playlist.version = r_version
    <3>1. Reply(playlist.parts)
      BY <2>1 DEF ServeCached
    <3>2. playlist.parts \in SUBSET PlaylistEntry
      BY DEF LiveInv, VersionsOK
    <3>. QED
      BY <1>1, <3>1, <3>2, ReplyKeeps DEF cache_vars
  <2>2. CASE playlist.version # r_version
    <3>1. /\ r_pc' = "collect"
          /\ r_next' = (IF r_last >= Window THEN r_last - Window + 1 ELSE 0)
          /\ UNCHANGED <<r_last, r_version, r_available, r_init, r_body>>
      BY <2>2 DEF ServeCached
    <3>2. r_last \in Int
      BY LiveStreamAssumption DEF LiveInv, ReaderOK, None
    <3>3. r_next' \in Nat
      BY <3>1, <3>2, LiveStreamAssumption
    <3>4. ReaderOK'
      BY <1>1, <3>1, <3>3 DEF LiveInv, ReaderOK
    <3>5. VersionsOK'
      BY <1>1, <3>1, VersionsSame DEF cache_vars
    <3>6. WakeOK'
      BY <1>1, <3>1, AwakeKeeps
    <3>. QED
      BY <3>4, <3>5, <3>6
  <2>. QED
    BY <2>1, <2>2
<1>. QED
  BY <1>2, <1>3, <1>4, HandlerKeeps

LEMMA CollectSlotKeeps ==
    ASSUME LiveInv, CollectSlot
    PROVE  LiveInv'
<1>1. /\ UNCHANGED <<cache_vars, state_vars, playlist, updates, ingest_vars, r_pc, r_position,
                     r_seen, r_last, r_version, r_body, r_epoch>>
      /\ r_pc = "collect" /\ r_next' = r_next + 1
      /\ r_available' = (IF r_next \in DOMAIN slots THEN r_available \cup {r_next} ELSE r_available)
      /\ r_init' = (IF r_next \in DOMAIN slots /\ SlotInit(slots[r_next])
                      THEN slots[r_next].epoch ELSE r_init)
  BY DEF CollectSlot
<1>2. UNCHANGED stream_vars
  BY <1>1 DEF stream_vars, cache_vars, state_vars, ingest_vars
<1>3. InitsOK'
  BY <1>1, InitsSame DEF cache_vars, state_vars
<1>4. ReaderOK'
  <2>1. r_next \in DOMAIN slots => r_next \in Seqs /\ slots[r_next].epoch \in EpochOrNone
    BY ObjectTypes DEF LiveInv, ChunksOK
  <2>2. r_init' \in EpochOrNone /\ r_available' \subseteq Seqs
    BY <1>1, <2>1 DEF LiveInv, ReaderOK
  <2>3. r_next' \in Nat
    BY <1>1 DEF LiveInv, ReaderOK
  <2>. QED
    BY <1>1, <2>2, <2>3 DEF LiveInv, ReaderOK
<1>5. VersionsOK'
  <2>1. r_available \subseteq DOMAIN slots => r_available' \subseteq DOMAIN slots
    BY <1>1
  <2>. QED
    BY <1>1, <2>1 DEF LiveInv, VersionsOK, cache_vars
<1>6. WakeOK'
  BY <1>1, AwakeKeeps
<1>. QED
  BY <1>2, <1>3, <1>4, <1>5, <1>6, HandlerKeeps

LEMMA CollectedKeeps ==
    ASSUME LiveInv, Collected
    PROVE  LiveInv'
<1>1. /\ UNCHANGED <<cache_vars, state_vars, playlist, updates, ingest_vars, r_position, r_seen,
                     r_last, r_version, r_next, r_available, r_init, r_body, r_epoch>>
      /\ r_pc = "collect" /\ r_pc' \in {"remember", "init"}
  BY DEF Collected
<1>2. UNCHANGED stream_vars
  BY <1>1 DEF stream_vars, cache_vars, state_vars, ingest_vars
<1>3. InitsOK'
  BY <1>1, InitsSame DEF cache_vars, state_vars
<1>4. ReaderOK'
  BY <1>1 DEF LiveInv, ReaderOK
<1>5. VersionsOK'
  BY <1>1, VersionsSame DEF cache_vars
<1>6. WakeOK'
  BY <1>1, AwakeKeeps
<1>. QED
  BY <1>2, <1>3, <1>4, <1>5, <1>6, HandlerKeeps

LEMMA RememberInitKeeps ==
    ASSUME LiveInv, RememberInit
    PROVE  LiveInv'
<1>1. /\ UNCHANGED <<cache_vars, epoch, base, parts, current_segment, retained_bytes, playlist,
                     updates, ingest_vars, r_position, r_seen, r_last, r_version, r_next,
                     r_available, r_init, r_body, r_epoch>>
      /\ r_pc \in {"remember", "retain"} /\ r_pc' \in {"remember_cache", "retain_cache"}
      /\ init' = r_init
  BY DEF RememberInit
<1>2. UNCHANGED stream_vars
  BY <1>1 DEF stream_vars, cache_vars, ingest_vars
<1>3. InitsOK'
  BY <1>1 DEF LiveInv, InitsOK, ReaderOK, cache_vars
<1>4. ReaderOK'
  BY <1>1 DEF LiveInv, ReaderOK
<1>5. VersionsOK'
  BY <1>1, VersionsSame DEF cache_vars
<1>6. WakeOK'
  BY <1>1, AwakeKeeps
<1>. QED
  BY <1>2, <1>3, <1>4, <1>5, <1>6, HandlerKeeps

LEMMA RememberCacheInitKeeps ==
    ASSUME LiveInv, RememberCacheInit
    PROVE  LiveInv'
<1>1. /\ UNCHANGED <<slots, head, version, state_vars, playlist, updates, ingest_vars,
                     r_position, r_seen, r_last, r_version, r_next, r_available, r_init,
                     r_body, r_epoch>>
      /\ r_pc \in {"remember_cache", "retain_cache"} /\ r_pc' \in {"init", "render"}
      /\ cache_init' = r_init
  BY DEF RememberCacheInit
<1>2. UNCHANGED stream_vars
  BY <1>1 DEF stream_vars, state_vars, ingest_vars
<1>3. InitsOK'
  BY <1>1 DEF LiveInv, InitsOK, ReaderOK, state_vars
<1>4. ReaderOK'
  BY <1>1 DEF LiveInv, ReaderOK
<1>5. VersionsOK'
  BY <1>1, VersionsSame
<1>6. WakeOK'
  BY <1>1, AwakeKeeps
<1>. QED
  BY <1>2, <1>3, <1>4, <1>5, <1>6, HandlerKeeps

LEMMA FindInitKeeps ==
    ASSUME LiveInv, FindInit \/ FindCacheInit \/ FindSlotInit
    PROVE  LiveInv'
<1>1. /\ UNCHANGED <<cache_vars, state_vars, playlist, updates, ingest_vars, r_position, r_seen,
                     r_last, r_version, r_next, r_available, r_body, r_epoch>>
      /\ r_pc \in {"init", "init_cache", "init_slots"}
      /\ r_pc' \in {"init_cache", "init_slots", "retain", "render"}
      /\ \/ r_init' \in {init, cache_init, NoEpoch}
         \/ SlotsWithInit # {} /\ r_init' = slots[Max(SlotsWithInit)].epoch
  BY DEF FindInit, FindCacheInit, FindSlotInit
<1>2. UNCHANGED stream_vars
  BY <1>1 DEF stream_vars, cache_vars, state_vars, ingest_vars
<1>3. InitsOK'
  BY <1>1, InitsSame DEF cache_vars, state_vars
<1>4. r_init' \in EpochOrNone
  <2>1. CASE r_init' \in {init, cache_init, NoEpoch}
    BY <2>1 DEF LiveInv, InitsOK, EpochOrNone
  <2>2. CASE SlotsWithInit # {} /\ r_init' = slots[Max(SlotsWithInit)].epoch
    <3>1. /\ SlotsWithInit \in SUBSET (DOMAIN slots) /\ IsFiniteSet(DOMAIN slots)
          /\ DOMAIN slots \subseteq Seqs /\ \A s \in DOMAIN slots : slots[s] \in Object
      BY DEF SlotsWithInit, LiveInv, ChunksOK
    <3>2. SlotsWithInit \in SUBSET Nat /\ IsFiniteSet(SlotsWithInit)
      BY <3>1, FS_Subset, LiveStreamAssumption
    <3>3. Max(SlotsWithInit) \in SlotsWithInit
      BY <2>2, <3>2, MaxOfFinite
    <3>4. PICK s \in DOMAIN slots : r_init' = slots[s].epoch
      BY <2>2, <3>1, <3>3
    <3>. QED
      BY <3>1, <3>4, ObjectTypes
  <2>. QED
    BY <1>1, <2>1, <2>2
<1>5. ReaderOK'
  BY <1>1, <1>4 DEF LiveInv, ReaderOK
<1>6. VersionsOK'
  BY <1>1, VersionsSame DEF cache_vars
<1>7. WakeOK'
  BY <1>1, AwakeKeeps
<1>. QED
  BY <1>2, <1>3, <1>5, <1>6, <1>7, HandlerKeeps

\* Only parts that were collected are listed.
LEMMA RenderedFacts ==
    ASSUME LiveInv
    PROVE  /\ Rendered \subseteq PlaylistEntry
           /\ \A q \in Rendered : q.seq \in r_available
<1>1. Rendered \subseteq Entries
  BY DEF Rendered, Grouped
<1>2. ASSUME NEW q \in Entries
      PROVE  q \in PlaylistEntry /\ q.seq \in r_available
  <2>1. PICK s \in r_available :
           q = [seq |-> s,
                keyframe |-> s \in DOMAIN parts /\ parts[s].keyframe,
                segment |-> IF s \in DOMAIN parts THEN parts[s].segment ELSE None]
    BY <1>2 DEF Entries
  <2>2. s \in Seqs
    BY DEF LiveInv, ReaderOK
  <2>3. s \in DOMAIN parts => parts[s] \in Part
    BY DEF LiveInv, PartsOK
  <2>4. PICK g : g = (IF s \in DOMAIN parts THEN parts[s].segment ELSE None)
    OBVIOUS
  <2>5. g \in {None} \cup Nat
    BY <2>3, <2>4 DEF Part
  <2>6. (s \in DOMAIN parts /\ parts[s].keyframe) \in BOOLEAN
    BY <2>3 DEF Part
  <2>. QED
    BY <2>1, <2>2, <2>4, <2>5, <2>6 DEF PlaylistEntry
<1>. QED
  BY <1>1, <1>2

LEMMA RenderPlaylistKeeps ==
    ASSUME LiveInv, RenderPlaylist
    PROVE  LiveInv'
<1>1. /\ UNCHANGED <<cache_vars, state_vars, playlist, updates, ingest_vars, r_position, r_seen,
                     r_last, r_version, r_next, r_available, r_init, r_epoch>>
      /\ r_pc = "render" /\ r_pc' = "store" /\ r_body' = Rendered
  BY DEF RenderPlaylist
<1>2. UNCHANGED stream_vars
  BY <1>1 DEF stream_vars, cache_vars, state_vars, ingest_vars
<1>3. InitsOK'
  BY <1>1, InitsSame DEF cache_vars, state_vars
<1>4. ReaderOK'
  BY <1>1, RenderedFacts DEF LiveInv, ReaderOK
<1>5. VersionsOK'
  BY <1>1, VersionsSame DEF cache_vars
<1>6. WakeOK'
  BY <1>1, AwakeKeeps
<1>. QED
  BY <1>2, <1>3, <1>4, <1>5, <1>6, HandlerKeeps

LEMMA CheckVersionKeeps ==
    ASSUME LiveInv, CheckVersion
    PROVE  LiveInv'
<1>1. /\ UNCHANGED <<cache_vars, state_vars, playlist, updates, ingest_vars, r_position, r_seen,
                     r_epoch>>
      /\ r_pc = "store"
  BY DEF CheckVersion
<1>2. UNCHANGED stream_vars
  BY <1>1 DEF stream_vars, cache_vars, state_vars, ingest_vars
<1>3. InitsOK'
  BY <1>1, InitsSame DEF cache_vars, state_vars
<1>4. ReaderOK' /\ VersionsOK' /\ WakeOK'
  <2>1. CASE version # r_version
    <3>1. Reply(r_body)
      BY <2>1 DEF CheckVersion
    <3>2. r_body \in SUBSET PlaylistEntry
      BY DEF LiveInv, ReaderOK
    <3>. QED
      BY <1>1, <3>1, <3>2, ReplyKeeps DEF cache_vars
  <2>2. CASE version = r_version
    <3>1. r_pc' = "write" /\ UNCHANGED <<r_last, r_version, r_next, r_available, r_init, r_body>>
      BY <2>2 DEF CheckVersion
    <3>2. ReaderOK'
      BY <1>1, <3>1 DEF LiveInv, ReaderOK
    <3>3. VersionsOK'
      BY <1>1, <3>1, VersionsSame DEF cache_vars
    <3>4. WakeOK'
      BY <1>1, <3>1, AwakeKeeps
    <3>. QED
      BY <3>2, <3>3, <3>4
  <2>. QED
    BY <2>1, <2>2
<1>. QED
  BY <1>2, <1>3, <1>4, HandlerKeeps

LEMMA StorePlaylistKeeps ==
    ASSUME LiveInv, StorePlaylist
    PROVE  LiveInv'
<1>1. /\ UNCHANGED <<cache_vars, state_vars, updates, ingest_vars, r_position, r_seen, r_epoch>>
      /\ r_pc = "write" /\ playlist' = [version |-> r_version, parts |-> r_body]
      /\ Reply(r_body)
  BY DEF StorePlaylist
<1>2. UNCHANGED stream_vars
  BY <1>1 DEF stream_vars, cache_vars, state_vars, ingest_vars
<1>3. InitsOK'
  BY <1>1, InitsSame DEF cache_vars, state_vars
<1>4. r_body \in SUBSET PlaylistEntry /\ \A q \in r_body : q.seq \in r_available
  BY <1>1 DEF LiveInv, ReaderOK
<1>5. ReaderOK' /\ VersionsOK' /\ WakeOK'
  BY <1>1, <1>4, ReplyKeeps DEF cache_vars
<1>. QED
  BY <1>2, <1>3, <1>5, HandlerKeeps

-----------------------------------------------------------------------------
LEMMA LiveInit == Init => LiveInv
<1>. SUFFICES ASSUME Init
              PROVE  LiveInv
  OBVIOUS
<1>. USE DEF Init
<1>1. DOMAIN slots = {} /\ DOMAIN parts = {} /\ IsFiniteSet({})
  BY FS_EmptySet DEF EmptyMap
<1>2. ChunksOK
  BY <1>1 DEF ChunksOK, EpochOrNone
<1>3. InitsOK
  BY DEF InitsOK, EpochOrNone
<1>4. PartsOK(parts, current_segment, retained_bytes)
  BY <1>1, NoParts
<1>5. IngestOK
  BY <1>1 DEF IngestOK, ObservedIsCached
<1>6. ReaderOK
  BY DEF ReaderOK, EpochOrNone
<1>7. VersionsOK
  BY DEF VersionsOK, None
<1>8. WakeOK
  BY DEF WakeOK, NoLostWakeup
<1>. QED
  BY <1>2, <1>3, <1>4, <1>5, <1>6, <1>7, <1>8 DEF LiveInv

LEMMA LiveUnchanged ==
    ASSUME LiveInv, UNCHANGED vars
    PROVE  LiveInv'
<1>1. UNCHANGED <<cache_vars, state_vars, playlist, updates, ingest_vars, reader_vars>>
  BY DEF vars
<1>2. UNCHANGED stream_vars
  BY <1>1 DEF stream_vars, cache_vars, state_vars, ingest_vars
<1>3. InitsOK'
  BY <1>1, InitsSame DEF cache_vars, state_vars
<1>4. ReaderOK'
  BY <1>1, ReaderSame
<1>5. VersionsOK'
  BY <1>1, VersionsSame DEF cache_vars, reader_vars
<1>6. WakeOK'
  BY <1>1, WakeSame DEF state_vars, ingest_vars, reader_vars
<1>. QED
  BY <1>2, <1>3, <1>4, <1>5, <1>6, HandlerKeeps

LEMMA LiveStep == LiveInv /\ [Next]_vars => LiveInv'
<1>. SUFFICES ASSUME LiveInv, [Next]_vars
              PROVE  LiveInv'
  OBVIOUS
<1>1. ASSUME NEW o \in Object, BeginCommit(o) PROVE LiveInv'
  BY <1>1, BeginCommitKeeps
<1>2. CASE ZeroStream
  BY <1>2, ZeroStreamKeeps
<1>3. CASE ActivateEpoch
  BY <1>3, ActivateEpochKeeps
<1>4. CASE ObserveObject
  BY <1>4, ObserveObjectKeeps
<1>5. CASE SetInitialization
  BY <1>5, SetInitializationKeeps
<1>6. CASE PutSlot
  BY <1>6, PutSlotKeeps
<1>7. CASE RecordObject
  BY <1>7, RecordObjectKeeps
<1>8. CASE Notify
  BY <1>8, NotifyKeeps
<1>9. CASE RetireZero
  BY <1>9, RetireZeroKeeps
<1>10. CASE ForgetStream
  BY <1>10, ForgetStreamKeeps
<1>11. CASE UncachePlaylist
  BY <1>11, UncachePlaylistKeeps
<1>12. ASSUME NEW p \in Positions \cup {NoPosition}, Request(p) PROVE LiveInv'
  BY <1>12, RequestKeeps
<1>13. CASE CheckPosition
  BY <1>13, CheckPositionKeeps
<1>14. CASE Wake
  BY <1>14, WakeKeeps
<1>15. CASE WaitTimeout
  BY <1>15, WaitTimeoutKeeps
<1>16. CASE ReadPosition
  BY <1>16, ReadPositionKeeps
<1>17. CASE ReadVersion
  BY <1>17, ReadVersionKeeps
<1>29. CASE ServeCached
  BY <1>29, ServeCachedKeeps
<1>18. CASE CollectSlot
  BY <1>18, CollectSlotKeeps
<1>19. CASE Collected
  BY <1>19, CollectedKeeps
<1>20. CASE RememberInit
  BY <1>20, RememberInitKeeps
<1>21. CASE RememberCacheInit
  BY <1>21, RememberCacheInitKeeps
<1>22. CASE FindInit \/ FindCacheInit \/ FindSlotInit
  BY <1>22, FindInitKeeps
<1>23. CASE RenderPlaylist
  BY <1>23, RenderPlaylistKeeps
<1>24. CASE CheckVersion
  BY <1>24, CheckVersionKeeps
<1>25. CASE StorePlaylist
  BY <1>25, StorePlaylistKeeps
<1>26. CASE UNCHANGED vars
  BY <1>26, LiveUnchanged
<1>27. CASE CommitNext
  BY <1>1, <1>2, <1>3, <1>4, <1>5, <1>6, <1>7, <1>8, <1>9, <1>10, <1>11, <1>27, Zenon
    DEF CommitNext
<1>28. CASE ReaderNext
  BY <1>12, <1>13, <1>14, <1>15, <1>16, <1>17, <1>18, <1>19, <1>20, <1>21, <1>22, <1>23,
     <1>24, <1>25, <1>28, <1>29, Zenon DEF ReaderNext
<1>. QED
  BY <1>26, <1>27, <1>28 DEF Next

\* The stream's cache, its state, its stored playlist and a handler agree at
\* every step of either task (main.rs:4410-4770, 4869-5180, 5405-5470): whatever was
\* collected or stored for the current version is still cached, the object
\* under way is of the epoch it is committed to or opens a newer one, and a
\* handler has seen no update that has not been sent.
THEOREM LiveInvariant == Spec => []LiveInv
<1>1. Init => LiveInv
  BY LiveInit
<1>2. LiveInv /\ [Next]_vars => LiveInv'
  BY LiveStep
<1>. QED
  BY <1>1, <1>2, PTL DEF Spec

\* CacheSound of a live stream (main.rs:4410-4770, 4869-5180, 5405-5470), for any
\* window, segment length, sequence numbers and epochs: slots are of the
\* stream's epoch, the observed parts are cached, the retained bytes are exact,
\* a stored playlist that would be served lists only cached parts, and a
\* blocked reload is never left asleep.
THEOREM CacheCorrect == Spec => []CacheSound
<1>1. LiveInv => CacheSound
  <2>. SUFFICES ASSUME LiveInv
                PROVE  CacheSound
    OBVIOUS
  <2>1. /\ ChunksOK /\ InitsOK /\ PartsOK(parts, current_segment, retained_bytes)
        /\ IngestOK /\ ReaderOK /\ VersionsOK /\ WakeOK
    BY DEF LiveInv
  <2>2. retained_bytes \in Nat
    <3>1. /\ NatOn(PartBytes(parts), DOMAIN parts) /\ IsFiniteSet(DOMAIN parts)
          /\ retained_bytes = SumFunctionOnSet(PartBytes(parts), DOMAIN parts)
      BY <2>1 DEF PartsOK, NatOn, PartBytes, Part
    <3>. QED
      BY <3>1, SumPart
  <2>3. TypeOK
    <3>1. {cache_init, epoch, init, r_init, r_epoch} \subseteq {NoEpoch} \cup Epochs
      BY <2>1 DEF ChunksOK, InitsOK, ReaderOK, EpochOrNone
    <3>2. /\ DOMAIN slots \subseteq Seqs /\ \A s \in DOMAIN slots : slots[s] \in Object
          /\ head \in {None} \cup Seqs /\ version \in Nat /\ base \in {None} \cup Seqs
      BY <2>1 DEF ChunksOK
    <3>3. /\ DOMAIN parts \subseteq Seqs
          /\ \A s \in DOMAIN parts :
               parts[s] \in [keyframe : BOOLEAN, segment : {None} \cup Nat, bytes : Nat]
          /\ current_segment \in {None} \cup Nat
      BY <2>1 DEF PartsOK, Part
    <3>. QED
      BY <2>1, <2>2, <3>1, <3>2, <3>3 DEF TypeOK, IngestOK, ReaderOK, VersionsOK, WakeOK
  <2>4. SlotsOfEpoch /\ ObservedIsCached
    BY <2>1 DEF ChunksOK, IngestOK, SlotsOfEpoch
  <2>5. RetentionExact
    BY <2>1 DEF PartsOK, RetentionExact
  <2>6. StoredPlaylistServable /\ NoLostWakeup
    BY <2>1 DEF VersionsOK, WakeOK, StoredPlaylistServable
  <2>. QED
    BY <2>3, <2>4, <2>5, <2>6 DEF CacheSound
<1>. QED
  BY <1>1, LiveInvariant, PTL

\* EpochAdvances: an epoch is only followed by a newer one until the stream is
\* retired (commit_stream_payload_inner, main.rs:4425-4475), because the object that
\* opens one was newer when its commit began, and nothing but its own commit
\* changes the epoch in between.
THEOREM EpochsAdvance == Spec => EpochAdvances
<1>1. ASSUME LiveInv, Next
      PROVE  epoch' # epoch => epoch' > epoch \/ i_pc = "forget"
  <2>1. CASE ActivateEpoch
    BY <1>1, <2>1 DEF ActivateEpoch, LiveInv, IngestOK
  <2>2. CASE ForgetStream
    BY <2>2 DEF ForgetStream
  <2>3. CASE ~ActivateEpoch /\ ~ForgetStream
    <3>1. epoch' = epoch
      BY <1>1, <2>3 DEF Next, CommitNext, ReaderNext, BeginCommit, ZeroStream, ObserveObject,
         SetInitialization, PutSlot, RecordObject, Notify, RetireZero, UncachePlaylist,
         Request, CheckPosition, Wake, WaitTimeout, ReadPosition, ReadVersion, ServeCached,
         CollectSlot,
         Collected, RememberInit, RememberCacheInit, FindInit, FindCacheInit, FindSlotInit,
         RenderPlaylist, CheckVersion,
         StorePlaylist, state_vars
    <3>. QED
      BY <3>1
  <2>. QED
    BY <2>1, <2>2, <2>3
<1>2. LiveInv /\ [Next]_vars => [epoch' # epoch => epoch' > epoch \/ i_pc = "forget"]_vars
  BY <1>1
<1>. QED
  BY <1>2, LiveInvariant, PTL DEF Spec, EpochAdvances

(***************************************************************************)
(* Tail reads.                                                             *)
(***************************************************************************)
TailRead == [kind : {"bundle", "batch", "stream"}, start : Nat, count : Nat \ {0},
             found : BOOLEAN, index : Nat, sent : Nat]

\* The parts got are those from some part up to the cursor.
GotUpTo(got, cursor) ==
    got = {} \/ \E a \in Nat : a < cursor /\ got = a .. (cursor - 1)

\* A request in progress, and what its client got.
ReadOK(d, got) ==
    /\ d \in TailRead
    /\ d.kind # "stream" => d.sent = 0
    /\ d.kind = "stream" => d.found /\ GotUpTo(got, d.start)

Busy == {r \in TailReaders : tail_readers[r] # NoRead}

\* The guards that are held and the bytes that were counted.
LoadOK ==
    /\ IsFiniteSet(Busy) /\ active_readers = Cardinality(Busy)
    /\ bytes_served \in Nat /\ bytes_sent = bytes_served

ReadersOK ==
    /\ tail_readers \in [TailReaders -> {NoRead} \cup TailRead]
    /\ DOMAIN tail_sent = TailReaders
    /\ tail_sent = [r \in TailReaders |-> tail_sent[r]]
    /\ \A r \in TailReaders : tail_readers[r] # NoRead => ReadOK(tail_readers[r], tail_sent[r])

\* The inductive invariant of the tail reads.
TailInv ==
    /\ tail_parts \in [TailStreamSet -> SUBSET (1 .. TailPartLimit)]
    /\ ReadersOK /\ LoadOK

-----------------------------------------------------------------------------
\* A request is none, or it has a kind.
LEMMA ReadIsNot ==
    ASSUME NEW d \in TailRead
    PROVE  d # NoRead
<1>1. d.kind # "none" /\ NoRead.kind = "none"
  BY DEF TailRead, NoRead
<1>. QED
  BY <1>1

LEMMA BytesOfRangeType ==
    ASSUME NEW d \in TailRead
    PROVE  BytesOfRange(d) \in Nat
<1>1. TailStreams \in Seq(STRING) /\ Len(TailStreams) \in Nat /\ Len(TailStreams) > 0
  BY TailAssumption
<1>2. Len(StreamsOf(d.kind)) \in Nat
  <2>1. SubSeq(TailStreams, 1, 1) \in Seq(STRING)
    BY <1>1
  <2>2. StreamsOf(d.kind) \in Seq(STRING)
    BY <1>1, <2>1 DEF StreamsOf
  <2>. QED
    BY <2>2
<1>3. d.count \in Nat
  BY DEF TailRead
<1>. QED
  BY <1>2, <1>3, TimesMonotone DEF BytesOfRange

\* What finish counts beyond what was counted before.
LEMMA FinishedCounts ==
    ASSUME TailInv, NEW d \in TailRead, NEW bytes \in Nat, bytes >= d.sent
    PROVE  Finished(bytes, d) = bytes_served + (bytes - d.sent)
<1>1. d.sent \in Nat
  BY DEF TailRead
<1>2. PICK n : n = bytes - d.sent
  OBVIOUS
<1>3. n \in Int /\ n >= 0 /\ 0 \in Int
  BY <1>1, <1>2
<1>4. Max({n, 0}) = n
  BY <1>3, MaxOfTwo
<1>. QED
  BY <1>2, <1>4 DEF Finished

\* One reader goes from one request to another and its client's parts with it.
Moves(r, d, got) ==
    /\ tail_readers' = [tail_readers EXCEPT ![r] = d]
    /\ tail_sent' = [tail_sent EXCEPT ![r] = got]

LEMMA ReaderMoves ==
    ASSUME TailInv, NEW r \in TailReaders, NEW d \in {NoRead} \cup TailRead, NEW got,
           Moves(r, d, got), d # NoRead => ReadOK(d, got)
    PROVE  /\ ReadersOK' /\ tail_readers'[r] = d
           /\ \A q \in TailReaders : q # r => tail_readers'[q] = tail_readers[q]
<1>1. /\ tail_readers \in [TailReaders -> {NoRead} \cup TailRead] /\ DOMAIN tail_sent = TailReaders
      /\ \A q \in TailReaders : tail_readers[q] # NoRead => ReadOK(tail_readers[q], tail_sent[q])
  BY DEF TailInv, ReadersOK
<1>2. tail_readers' \in [TailReaders -> {NoRead} \cup TailRead] /\ tail_readers'[r] = d
  BY <1>1 DEF Moves
<1>3. DOMAIN tail_sent' = TailReaders /\ tail_sent'[r] = got
  BY <1>1 DEF Moves
<1>4. tail_sent' = [q \in TailReaders |-> tail_sent'[q]]
  BY <1>1 DEF Moves
<1>5. ASSUME NEW q \in TailReaders, q # r
      PROVE  tail_readers'[q] = tail_readers[q] /\ tail_sent'[q] = tail_sent[q]
  BY <1>1, <1>5 DEF Moves
<1>6. ASSUME NEW q \in TailReaders, tail_readers'[q] # NoRead
      PROVE  ReadOK(tail_readers'[q], tail_sent'[q])
  <2>1. CASE q = r
    BY <1>2, <1>3, <1>6, <2>1
  <2>2. CASE q # r
    BY <1>1, <1>5, <1>6, <2>2
  <2>. QED
    BY <2>1, <2>2
<1>. QED
  BY <1>2, <1>3, <1>4, <1>5, <1>6 DEF ReadersOK

\* Nothing but the request changes: the client has what it had.
LEMMA MovesAlone ==
    ASSUME TailInv, NEW r \in TailReaders, NEW d, tail_sent' = tail_sent,
           tail_readers' = [tail_readers EXCEPT ![r] = d]
    PROVE  Moves(r, d, tail_sent[r])
<1>1. tail_sent = [q \in TailReaders |-> tail_sent[q]]
  BY DEF TailInv, ReadersOK
<1>2. tail_sent = [tail_sent EXCEPT ![r] = tail_sent[r]]
  BY <1>1
<1>. QED
  BY <1>2 DEF Moves

LEMMA ReaderOf ==
    ASSUME TailInv, NEW r \in TailReaders, tail_readers[r] # NoRead
    PROVE  tail_readers[r] \in TailRead /\ ReadOK(tail_readers[r], tail_sent[r])
  BY DEF TailInv, ReadersOK

\* A request goes on.
LEMMA RequestGoesOn ==
    ASSUME TailInv, NEW r \in TailReaders, NEW d \in TailRead, NEW got, NEW n \in Nat,
           tail_readers[r] # NoRead, Moves(r, d, got), ReadOK(d, got),
           active_readers' = active_readers,
           bytes_served' = bytes_served + n, bytes_sent' = bytes_sent + n,
           tail_parts' = tail_parts
    PROVE  TailInv'
<1>1. d \in {NoRead} \cup TailRead
  OBVIOUS
<1>2. /\ ReadersOK' /\ tail_readers'[r] = d
      /\ \A q \in TailReaders : q # r => tail_readers'[q] = tail_readers[q]
  BY <1>1, ReaderMoves
<1>3. d # NoRead
  BY ReadIsNot
<1>4. Busy' = Busy
  BY <1>2, <1>3 DEF Busy
<1>5. LoadOK
  BY DEF TailInv
<1>6. bytes_served' \in Nat /\ bytes_sent' = bytes_served'
  BY <1>5 DEF LoadOK
<1>7. LoadOK'
  BY <1>4, <1>5, <1>6 DEF LoadOK
<1>. QED
  BY <1>2, <1>7 DEF TailInv

\* A request begins, and takes a guard.
LEMMA BeginsKeeps ==
    ASSUME TailInv, NEW r \in TailReaders, NEW kind \in {"bundle", "batch", "stream"},
           NEW start \in {NoCursor} \cup 1 .. TailPartLimit, NEW count \in 1 .. MaxTailParts,
           Begins(r, kind, start, count)
    PROVE  TailInv'
<1>1. PICK d : d = [kind |-> kind, start |-> start, count |-> count, found |-> kind # "batch",
                    index |-> 1, sent |-> 0]
  OBVIOUS
<1>2. start \in Nat /\ count \in Nat \ {0}
  BY TailAssumption DEF NoCursor
<1>3. d \in TailRead /\ d.sent = 0
  <2>1. (kind # "batch") \in BOOLEAN
    OBVIOUS
  <2>. QED
    BY <1>1, <1>2, <2>1 DEF TailRead
<1>4. /\ Moves(r, d, {}) /\ tail_readers[r] = NoRead /\ active_readers' = active_readers + 1
      /\ UNCHANGED <<tail_parts, bytes_served, bytes_sent>>
  BY <1>1 DEF Begins, Moves
<1>5. ReadOK(d, {})
  <2>1. d.kind = "stream" => d.found
    BY <1>1
  <2>. QED
    BY <1>3, <2>1 DEF ReadOK, GotUpTo
<1>6. d \in {NoRead} \cup TailRead /\ d # NoRead
  BY <1>3, ReadIsNot
<1>7. /\ ReadersOK' /\ tail_readers'[r] = d
      /\ \A q \in TailReaders : q # r => tail_readers'[q] = tail_readers[q]
  BY <1>4, <1>5, <1>6, ReaderMoves
<1>8. Busy' = Busy \cup {r} /\ r \notin Busy
  BY <1>4, <1>6, <1>7 DEF Busy
<1>9. LoadOK
  BY DEF TailInv
<1>10. IsFiniteSet(Busy \cup {r}) /\ Cardinality(Busy \cup {r}) = Cardinality(Busy) + 1
  BY <1>8, <1>9, FS_AddElement DEF LoadOK
<1>11. LoadOK'
  BY <1>4, <1>8, <1>9, <1>10 DEF LoadOK
<1>. QED
  BY <1>4, <1>7, <1>11 DEF TailInv

\* A request ends, and its guard is dropped.
LEMMA EndsKeeps ==
    ASSUME TailInv, NEW r \in TailReaders, NEW got, NEW n \in Nat, tail_readers[r] # NoRead,
           Moves(r, NoRead, got), active_readers' = active_readers - 1,
           bytes_served' = bytes_served + n, bytes_sent' = bytes_sent + n,
           tail_parts' = tail_parts
    PROVE  TailInv'
<1>1. PICK d : d = NoRead
  OBVIOUS
<1>2. d \in {NoRead} \cup TailRead /\ Moves(r, d, got) /\ (d # NoRead => ReadOK(d, got))
  BY <1>1
<1>3. /\ ReadersOK' /\ tail_readers'[r] = d
      /\ \A q \in TailReaders : q # r => tail_readers'[q] = tail_readers[q]
  BY <1>2, ReaderMoves
<1>4. Busy' = Busy \ {r} /\ r \in Busy
  BY <1>1, <1>3 DEF Busy
<1>5. LoadOK
  BY DEF TailInv
<1>6. IsFiniteSet(Busy \ {r}) /\ Cardinality(Busy \ {r}) = Cardinality(Busy) - 1
  BY <1>4, <1>5, FS_RemoveElement DEF LoadOK
<1>7. bytes_served' \in Nat /\ bytes_sent' = bytes_served'
  BY <1>5 DEF LoadOK
<1>8. LoadOK'
  BY <1>4, <1>5, <1>6, <1>7 DEF LoadOK
<1>. QED
  BY <1>3, <1>8 DEF TailInv

LEMMA PartArrivesKeeps ==
    ASSUME TailInv, NEW s \in TailStreamSet, NEW q \in 1 .. TailPartLimit, PartArrives(s, q)
    PROVE  TailInv'
<1>1. UNCHANGED <<tail_readers, active_readers, bytes_served, tail_sent, bytes_sent>>
  BY DEF PartArrives
<1>2. ReadersOK' /\ LoadOK'
  BY <1>1 DEF TailInv, ReadersOK, LoadOK, Busy
<1>3. tail_parts' \in [TailStreamSet -> SUBSET (1 .. TailPartLimit)]
  BY DEF TailInv, PartArrives
<1>. QED
  BY <1>2, <1>3 DEF TailInv

LEMMA FindFirstKeeps ==
    ASSUME TailInv, NEW r \in TailReaders, FindFirst(r)
    PROVE  TailInv'
<1>1. PICK d, ahead : d = tail_readers[r] /\ ahead = {q \in tail_parts[TailStreams[1]] : q >= d.start}
  OBVIOUS
<1>2. /\ d # NoRead /\ ~d.found
      /\ \E q \in ahead :
            tail_readers' = [tail_readers EXCEPT ![r].start = q, ![r].found = TRUE]
      /\ UNCHANGED <<tail_parts, active_readers, bytes_served, tail_sent, bytes_sent>>
  BY <1>1 DEF FindFirst
<1>3. d \in TailRead /\ ReadOK(d, tail_sent[r])
  BY <1>1, <1>2, ReaderOf
<1>4. ahead \in SUBSET Nat
  <2>1. TailStreams[1] \in TailStreamSet
    BY TailAssumption DEF TailStreamSet
  <2>2. tail_parts[TailStreams[1]] \in SUBSET (1 .. TailPartLimit)
    BY <2>1 DEF TailInv
  <2>. QED
    BY <1>1, <2>2
<1>5. PICK m \in Nat : tail_readers' = [tail_readers EXCEPT ![r].start = m, ![r].found = TRUE]
  BY <1>2, <1>4
<1>6. PICK e : e = [d EXCEPT !.start = m, !.found = TRUE]
  OBVIOUS
<1>7. e \in TailRead /\ e.kind = d.kind /\ e.sent = d.sent
  BY <1>3, <1>6 DEF TailRead
<1>8. tail_readers' = [tail_readers EXCEPT ![r] = e]
  BY <1>1, <1>2, <1>5, <1>6 DEF TailInv, ReadersOK
<1>9. Moves(r, e, tail_sent[r])
  BY <1>2, <1>8, MovesAlone
<1>10. d.kind # "stream"
  BY <1>2, <1>3 DEF ReadOK
<1>11. ReadOK(e, tail_sent[r])
  BY <1>3, <1>7, <1>10 DEF ReadOK
<1>12. bytes_served' = bytes_served + 0 /\ bytes_sent' = bytes_sent + 0
  BY <1>2 DEF TailInv, LoadOK
<1>. QED
  BY <1>1, <1>2, <1>7, <1>9, <1>11, <1>12, RequestGoesOn

\* The next stream of the same request, or the same stream again.
LEMMA IndexMoves ==
    ASSUME TailInv, NEW r \in TailReaders, NEW i \in Nat, tail_readers[r] # NoRead,
           tail_readers' = [tail_readers EXCEPT ![r].index = i],
           UNCHANGED <<tail_parts, active_readers, bytes_served, tail_sent, bytes_sent>>
    PROVE  TailInv'
<1>1. PICK d : d = tail_readers[r]
  OBVIOUS
<1>2. d \in TailRead /\ ReadOK(d, tail_sent[r])
  BY <1>1, ReaderOf
<1>3. PICK e : e = [d EXCEPT !.index = i]
  OBVIOUS
<1>4. /\ e \in TailRead /\ e.kind = d.kind /\ e.sent = d.sent /\ e.found = d.found
      /\ e.start = d.start
  BY <1>2, <1>3 DEF TailRead
<1>5. tail_readers' = [tail_readers EXCEPT ![r] = e]
  BY <1>1, <1>3 DEF TailInv, ReadersOK
<1>6. Moves(r, e, tail_sent[r])
  BY <1>5, MovesAlone
<1>7. ReadOK(e, tail_sent[r])
  BY <1>2, <1>4 DEF ReadOK
<1>8. bytes_served' = bytes_served + 0 /\ bytes_sent' = bytes_sent + 0
  BY DEF TailInv, LoadOK
<1>. QED
  BY <1>4, <1>6, <1>7, <1>8, RequestGoesOn

LEMMA ReadRangeKeeps ==
    ASSUME TailInv, NEW r \in TailReaders, ReadRange(r)
    PROVE  TailInv'
<1>1. PICK d, i : d = tail_readers[r] /\ i = d.index + 1
  OBVIOUS
<1>2. /\ d # NoRead /\ tail_readers' = [tail_readers EXCEPT ![r].index = i]
      /\ UNCHANGED <<tail_parts, active_readers, bytes_served, tail_sent, bytes_sent>>
  BY <1>1 DEF ReadRange, Reading
<1>3. i \in Nat
  BY <1>1, <1>2, ReaderOf DEF TailRead
<1>. QED
  BY <1>1, <1>2, <1>3, IndexMoves

LEMMA NothingReadKeeps ==
    ASSUME TailInv, NEW r \in TailReaders, NothingRead(r)
    PROVE  TailInv'
<1>1. PICK d : d = tail_readers[r]
  OBVIOUS
<1>2. /\ d # NoRead
      /\ IF d.kind = "stream"
         THEN /\ tail_readers' = [tail_readers EXCEPT ![r] = Restarted(d)]
              /\ UNCHANGED active_readers
         ELSE Ends(r)
      /\ bytes_served' = IF d.kind = "stream" THEN bytes_served ELSE Finished(0, d)
      /\ UNCHANGED <<tail_parts, tail_sent, bytes_sent>>
  BY <1>1 DEF NothingRead
<1>3. d \in TailRead /\ ReadOK(d, tail_sent[r])
  BY <1>1, <1>2, ReaderOf
<1>4. CASE d.kind = "stream"
  <2>1. tail_readers' = [tail_readers EXCEPT ![r].index = 1]
    BY <1>1, <1>2, <1>4 DEF Restarted, TailInv, ReadersOK
  <2>. QED
    BY <1>1, <1>2, <1>4, <2>1, IndexMoves
<1>5. CASE d.kind # "stream"
  <2>1. d.sent = 0
    BY <1>3, <1>5 DEF ReadOK
  <2>2. Finished(0, d) = bytes_served + (0 - d.sent)
    BY <1>3, <2>1, FinishedCounts
  <2>3. bytes_served' = bytes_served + 0 /\ bytes_sent' = bytes_sent + 0
    BY <1>2, <1>5, <2>1, <2>2 DEF TailInv, LoadOK
  <2>4. Moves(r, NoRead, tail_sent[r]) /\ active_readers' = active_readers - 1
    BY <1>2, <1>5, MovesAlone DEF Ends
  <2>. QED
    BY <1>1, <1>2, <2>3, <2>4, EndsKeeps
<1>. QED
  BY <1>4, <1>5

LEMMA RespondKeeps ==
    ASSUME TailInv, NEW r \in TailReaders, Respond(r)
    PROVE  TailInv'
<1>1. PICK d, n : d = tail_readers[r] /\ n = BytesOfRange(d)
  OBVIOUS
<1>2. /\ d # NoRead /\ d.kind # "stream" /\ bytes_served' = Finished(n, d)
      /\ tail_sent' = [tail_sent EXCEPT ![r] = RangeOf(d)]
      /\ bytes_sent' = bytes_sent + n /\ Ends(r) /\ tail_parts' = tail_parts
  BY <1>1 DEF Respond, Complete
<1>3. d \in TailRead /\ ReadOK(d, tail_sent[r])
  BY <1>1, <1>2, ReaderOf
<1>4. n \in Nat
  BY <1>1, <1>3, BytesOfRangeType
<1>5. d.sent = 0
  BY <1>2, <1>3 DEF ReadOK
<1>6. Finished(n, d) = bytes_served + (n - d.sent)
  BY <1>3, <1>4, <1>5, FinishedCounts
<1>7. bytes_served' = bytes_served + n
  BY <1>2, <1>4, <1>5, <1>6 DEF TailInv, LoadOK
<1>8. Moves(r, NoRead, RangeOf(d)) /\ active_readers' = active_readers - 1
  BY <1>2 DEF Ends, Moves
<1>. QED
  BY <1>1, <1>2, <1>4, <1>7, <1>8, EndsKeeps

LEMMA SendFrameKeeps ==
    ASSUME TailInv, NEW r \in TailReaders, SendFrame(r)
    PROVE  TailInv'
<1>1. PICK d, n, got, e :
         /\ d = tail_readers[r] /\ n = BytesOfRange(d) /\ got = tail_sent[r] \cup RangeOf(d)
         /\ e = [d EXCEPT !.index = 1, !.start = @ + d.count, !.sent = @ + BytesOfRange(d)]
  OBVIOUS
<1>2. /\ d # NoRead /\ d.kind = "stream" /\ bytes_served' = bytes_served + n
      /\ tail_sent' = [tail_sent EXCEPT ![r] = got] /\ bytes_sent' = bytes_sent + n
      /\ tail_readers' = [tail_readers EXCEPT ![r] = e]
      /\ UNCHANGED <<tail_parts, active_readers>>
  BY <1>1 DEF SendFrame, Complete, TailInv, ReadersOK
<1>3. d \in TailRead /\ ReadOK(d, tail_sent[r])
  BY <1>1, <1>2, ReaderOf
<1>4. n \in Nat
  BY <1>1, <1>3, BytesOfRangeType
<1>5. /\ d.start \in Nat /\ d.count \in Nat /\ d.count > 0 /\ d.sent \in Nat
      /\ d.start + d.count \in Nat /\ d.sent + n \in Nat
  BY <1>3, <1>4 DEF TailRead
<1>6. e \in TailRead /\ e.kind = d.kind /\ e.found = d.found /\ e.start = d.start + d.count
  BY <1>1, <1>3, <1>5 DEF TailRead
<1>7. GotUpTo(got, d.start + d.count)
  <2>1. PICK a, c : a = d.start /\ c = d.count
    OBVIOUS
  <2>2. got = tail_sent[r] \cup (a .. (a + c - 1)) /\ GotUpTo(tail_sent[r], a)
    BY <1>1, <1>2, <1>3, <2>1 DEF RangeOf, ReadOK
  <2>3. a \in Nat /\ c \in Nat /\ c > 0
    BY <1>5, <2>1
  <2>4. CASE tail_sent[r] = {}
    <3>1. got = a .. (a + c - 1) /\ a < a + c
      BY <2>2, <2>3, <2>4
    <3>. QED
      BY <2>1, <2>3, <3>1 DEF GotUpTo
  <2>5. CASE tail_sent[r] # {}
    <3>1. PICK b \in Nat : b < a /\ tail_sent[r] = b .. (a - 1)
      BY <2>2, <2>5 DEF GotUpTo
    <3>2. (b .. (a - 1)) \cup (a .. (a + c - 1)) = b .. (a + c - 1) /\ b < a + c
      BY <2>3, <3>1
    <3>3. got = b .. (a + c - 1)
      BY <2>2, <3>1, <3>2
    <3>4. PICK k : k = d.start + d.count
      OBVIOUS
    <3>5. k = a + c
      BY <2>1, <3>4
    <3>6. k - 1 = a + c - 1 /\ b < k
      BY <2>3, <3>2, <3>5
    <3>7. got = b .. (k - 1)
      BY <3>3, <3>6
    <3>8. GotUpTo(got, k)
      BY <3>6, <3>7 DEF GotUpTo
    <3>. QED
      BY <3>4, <3>8
  <2>. QED
    BY <2>4, <2>5
<1>8. ReadOK(e, got)
  BY <1>2, <1>3, <1>6, <1>7 DEF ReadOK
<1>9. Moves(r, e, got)
  BY <1>2 DEF Moves
<1>. QED
  BY <1>1, <1>2, <1>4, <1>6, <1>8, <1>9, RequestGoesOn

LEMMA SendFailsKeeps ==
    ASSUME TailInv, NEW r \in TailReaders, SendFails(r)
    PROVE  TailInv'
<1>1. PICK d : d = tail_readers[r]
  OBVIOUS
<1>2. /\ d # NoRead /\ bytes_served' = Finished(d.sent, d) /\ Ends(r)
      /\ UNCHANGED <<tail_parts, tail_sent, bytes_sent>>
  BY <1>1 DEF SendFails, Complete
<1>3. d \in TailRead /\ d.sent \in Nat /\ d.sent >= d.sent
  BY <1>1, <1>2, ReaderOf DEF TailRead
<1>4. Finished(d.sent, d) = bytes_served + (d.sent - d.sent)
  BY <1>3, FinishedCounts
<1>5. bytes_served' = bytes_served + 0 /\ bytes_sent' = bytes_sent + 0
  BY <1>2, <1>3, <1>4 DEF TailInv, LoadOK
<1>6. Moves(r, NoRead, tail_sent[r]) /\ active_readers' = active_readers - 1
  BY <1>2, MovesAlone DEF Ends
<1>. QED
  BY <1>1, <1>2, <1>5, <1>6, EndsKeeps

LEMMA CancelReadKeeps ==
    ASSUME TailInv, NEW r \in TailReaders, CancelRead(r)
    PROVE  TailInv'
<1>1. /\ tail_readers[r] # NoRead /\ Ends(r)
      /\ UNCHANGED <<tail_parts, bytes_served, tail_sent, bytes_sent>>
  BY DEF CancelRead
<1>2. bytes_served' = bytes_served + 0 /\ bytes_sent' = bytes_sent + 0
  BY <1>1 DEF TailInv, LoadOK
<1>3. Moves(r, NoRead, tail_sent[r]) /\ active_readers' = active_readers - 1
  BY <1>1, MovesAlone DEF Ends
<1>. QED
  BY <1>1, <1>2, <1>3, EndsKeeps

LEMMA TailInitOK == TailInit => TailInv
<1>. SUFFICES ASSUME TailInit
              PROVE  TailInv
  OBVIOUS
<1>1. ReadersOK
  BY DEF TailInit, ReadersOK
<1>2. Busy = {}
  BY DEF TailInit, Busy
<1>3. LoadOK
  BY <1>2, FS_EmptySet DEF TailInit, LoadOK
<1>. QED
  BY <1>1, <1>3 DEF TailInv, TailInit

LEMMA TailStep == TailInv /\ [TailNext]_tailVars => TailInv'
<1>. SUFFICES ASSUME TailInv, [TailNext]_tailVars
              PROVE  TailInv'
  OBVIOUS
<1>1. ASSUME NEW s \in TailStreamSet, NEW q \in 1 .. TailPartLimit, PartArrives(s, q)
      PROVE  TailInv'
  BY <1>1, PartArrivesKeeps
<1>2. ASSUME NEW r \in TailReaders, NEW start \in {NoCursor} \cup 1 .. TailPartLimit,
             NEW count \in 1 .. MaxTailParts, NEW kind \in {"bundle", "batch"},
             BeginRead(r, kind, start, count)
      PROVE  TailInv'
  BY <1>2, BeginsKeeps DEF BeginRead
<1>3. ASSUME NEW r \in TailReaders, NEW start \in 1 .. TailPartLimit,
             NEW count \in 1 .. MaxTailParts, BeginStream(r, start, count)
      PROVE  TailInv'
  BY <1>3, BeginsKeeps DEF BeginStream
<1>4. ASSUME NEW r \in TailReaders,
             \/ FindFirst(r) \/ ReadRange(r) \/ NothingRead(r) \/ Respond(r)
             \/ SendFrame(r) \/ SendFails(r) \/ CancelRead(r)
      PROVE  TailInv'
  BY <1>4, FindFirstKeeps, ReadRangeKeeps, NothingReadKeeps, RespondKeeps, SendFrameKeeps,
     SendFailsKeeps, CancelReadKeeps
<1>5. CASE UNCHANGED tailVars
  <2>1. UNCHANGED <<tail_parts, tail_readers, active_readers, bytes_served, tail_sent, bytes_sent>>
    BY <1>5 DEF tailVars
  <2>. QED
    BY <2>1 DEF TailInv, ReadersOK, LoadOK, Busy
<1>. QED
  BY <1>1, <1>2, <1>3, <1>4, <1>5, Zenon DEF TailNext

\* The requests in progress hold the guards that are counted, the bytes counted
\* are those sent, and a stream's client has every part from its first up to the
\* cursor (main.rs:7482-7495, 7629-7660, 12830-12868).
THEOREM TailInvariant == TailSpec => []TailInv
<1>. QED
  BY TailInitOK, TailStep, PTL DEF TailSpec

\* TailSound (main.rs:7482-7495, 7629-7660, 12365-12390, 12830-12868) for any streams,
\* readers, window and limits: wherever a request ends, its guard is dropped and its
\* bytes are counted once, and no client of a bundle stream misses a part.
THEOREM TailCorrect == TailSpec => []TailSound
<1>1. TailInv => TailSound
  <2>. SUFFICES ASSUME TailInv
                PROVE  TailSound
    OBVIOUS
  <2>1. TailTypeOK
    <3>1. active_readers \in Nat /\ bytes_served \in Nat
      BY FS_CardinalityType DEF TailInv, LoadOK
    <3>2. \A r \in TailReaders : tail_readers[r].kind \in {"none", "bundle", "batch", "stream"}
      BY DEF TailInv, ReadersOK, TailRead, NoRead
    <3>. QED
      BY <3>1, <3>2 DEF TailInv, TailTypeOK
  <2>2. LoadCountsExact
    BY DEF TailInv, LoadOK, Busy, LoadCountsExact
  <2>3. StreamHasNoHole
    <3>. SUFFICES ASSUME NEW r \in TailReaders, tail_readers[r].kind = "stream", tail_sent[r] # {}
                  PROVE  tail_sent[r] = Min(tail_sent[r]) .. (tail_readers[r].start - 1)
      BY DEF StreamHasNoHole
    <3>1. tail_readers[r] # NoRead
      BY DEF NoRead
    <3>2. PICK n, got : n = tail_readers[r].start /\ got = tail_sent[r]
      OBVIOUS
    <3>3. n \in Nat /\ GotUpTo(got, n) /\ got # {}
      BY <3>1, <3>2, ReaderOf DEF ReadOK, TailRead
    <3>4. PICK a \in Nat : a < n /\ got = a .. (n - 1)
      BY <3>3 DEF GotUpTo
    <3>5. got \in SUBSET Nat /\ a \in got /\ \A k \in got : a <= k
      BY <3>3, <3>4
    <3>6. Min(got) \in got /\ Min(got) <= a
      BY <3>3, <3>5, MinOfNat
    <3>7. PICK m : m = Min(got)
      OBVIOUS
    <3>8. m \in Nat /\ m <= a /\ a <= m
      BY <3>5, <3>6, <3>7
    <3>9. m = a
      BY <3>8
    <3>. QED
      BY <3>2, <3>4, <3>7, <3>9
  <2>. QED
    BY <2>1, <2>2, <2>3 DEF TailSound
<1>. QED
  BY <1>1, TailInvariant, PTL

(***************************************************************************)
(* Byte parts.                                                             *)
(***************************************************************************)
PendingPart == [step : {"write", "record"}, stream : PartStreams, seq : Nat, data : Seq(Nat),
                origin : {"push", "tick", "shutdown"}]

PartRequest == [step : {"lookup", "register", "recheck", "wait", "served"}, stream : PartStreams,
                seq : Nat, end : Nat, body : Seq(Nat), notified : BOOLEAN]

SlotsOK(table) ==
    /\ DOMAIN table \subseteq Nat /\ IsFiniteSet(DOMAIN table)
    /\ \A q \in DOMAIN table : table[q] \in Seq(Nat)

PartTypes ==
    /\ gathered \in Seq(Nat) /\ Len(gathered) < MaxPartBytes
    /\ next_seq \in [PartStreams -> Nat] /\ bytes_received \in [PartStreams -> Nat]
    /\ bytes_lost \in Nat /\ last_committed \in Nat \cup {NoPart}
    /\ DOMAIN part_cache = PartStreams /\ (\A s \in PartStreams : SlotsOK(part_cache[s]))
    /\ recorded \in [PartStreams -> SUBSET Nat]
    /\ committer \in PendingPart \cup {NoCommit}
    /\ ingest_ended \in {"no", "shutdown", "failed"}
    /\ part_readers \in [PartReaders -> PartRequest \cup {NoRequest}]

\* What is cached is older than the next part and than the one being written,
\* which is the one before the next.
PartsOrdered ==
    /\ \A s \in PartStreams : \A q \in DOMAIN part_cache[s] : q < next_seq[s]
    /\ committer # NoCommit => committer.seq + 1 = next_seq[committer.stream]
    /\ committer.step = "write" =>
          \A q \in DOMAIN part_cache[committer.stream] : q < committer.seq

\* While a part waits to be recorded, what its record will keep is cached.
RecordsCached ==
    \A s \in PartStreams :
        IF committer.step = "record" /\ committer.stream = s
        THEN /\ committer.seq \in DOMAIN part_cache[s]
             /\ \A o \in recorded[s] : /\ o < committer.seq
                                       /\ committer.seq - o < PartWindow => o \in DOMAIN part_cache[s]
        ELSE recorded[s] \subseteq DOMAIN part_cache[s]

\* The bytes after a up to b.
Run(data, a, b) == Len(data) = b - a /\ \A i \in 1 .. Len(data) : data[i] = a + i

Consecutive(body) == \A i \in 1 .. Len(body) - 1 : body[i + 1] = body[i] + 1

\* A body that is not complete ends where the part that comes next begins.
ReadsRun(d, start, next) ==
    d.stream = ByteStream =>
        /\ Consecutive(d.body)
        /\ d.step # "served" /\ Len(d.body) > 0 =>
              d.seq <= next /\ d.body[Len(d.body)] = start[d.seq]

\* start[q] bytes of the configured stream came before the part with sequence q,
\* whether that was written or not.
PartsAreRuns(start) ==
    /\ start \in [Nat -> Nat]
    /\ \A q \in DOMAIN part_cache[ByteStream] :
          Run(part_cache[ByteStream][q], start[q], start[q + 1])
    /\ committer.step = "write" /\ committer.stream = ByteStream =>
          Run(committer.data, start[committer.seq], start[committer.seq + 1])
    /\ Run(gathered, start[next_seq[ByteStream]], bytes_received[ByteStream])
    /\ \A r \in PartReaders : part_readers[r] # NoRequest =>
          ReadsRun(part_readers[r], start, next_seq[ByteStream])

\* The inductive invariant of the byte parts.
PartsInv ==
    /\ PartTypes /\ PartsOrdered /\ RecordsCached /\ BytesConserved /\ NoMissedPart
    /\ \E start : PartsAreRuns(start)

-----------------------------------------------------------------------------
LEMMA PartConstants ==
    /\ PartWindow \in Nat /\ PartWindow >= 1 /\ MaxPartBytes \in Nat /\ MaxPartBytes >= 1
    /\ SegmentParts \in Nat /\ SegmentParts >= 1 /\ ByteLimit \in Nat
    /\ ByteStream \in PartStreams /\ IsFiniteSet(PartStreams)
<1>1. /\ PartWindow \in Nat \ {0} /\ MaxPartBytes \in Nat \ {0} /\ SegmentParts \in Nat \ {0}
      /\ ByteLimit \in Nat
  BY BytePartsAssumption
<1>2. IsFiniteSet(PrefixedStreams) /\ PartStreams = PrefixedStreams \cup {ByteStream}
  BY BytePartsAssumption DEF PartStreams
<1>3. IsFiniteSet(PartStreams)
  BY <1>2, FS_AddElement
<1>. QED
  BY <1>1, <1>2, <1>3

\* The idle task and the idle reader are no parts and no requests.
LEMMA IdleIsNot ==
    /\ NoCommit.step = "idle" /\ NoRequest.step = "idle"
    /\ \A c \in PendingPart : c # NoCommit /\ c.step \in {"write", "record"}
    /\ \A d \in PartRequest : d # NoRequest
    /\ \A c \in PendingPart \cup {NoCommit} : c # NoCommit <=> c.step \in {"write", "record"}
<1>1. NoCommit.step = "idle" /\ NoRequest.step = "idle"
  BY DEF NoCommit, NoRequest
<1>2. ASSUME NEW c \in PendingPart
      PROVE  c.step \in {"write", "record"}
  BY DEF PendingPart
<1>3. ASSUME NEW d \in PartRequest
      PROVE  d.step # "idle"
  BY DEF PartRequest
<1>. QED
  BY <1>1, <1>2, <1>3

\* Sums of bytes are numbers.
LEMMA BytesAreNumbers ==
    ASSUME NEW table, SlotsOK(table)
    PROVE  BytesIn(table) \in Nat
<1>1. PICK f, D : f = [q \in DOMAIN table |-> Len(table[q])] /\ D = DOMAIN table
  OBVIOUS
<1>2. IsFiniteSet(D) /\ \A q \in D : f[q] \in Nat
  BY <1>1 DEF SlotsOK
<1>3. SumFunctionOnSet(f, D) \in Nat
  BY <1>2, SumRemove
<1>. QED
  BY <1>1, <1>3 DEF BytesIn

LEMMA SumsAreNumbers ==
    ASSUME PartTypes
    PROVE  BytesReceived \in Nat /\ CachedBytes \in Nat /\ Committing \in Nat
<1>1. \A s \in PartStreams : bytes_received[s] \in Nat
  BY DEF PartTypes
<1>2. BytesReceived \in Nat
  BY <1>1, PartConstants, SumRemove DEF BytesReceived
<1>3. PICK f : f = [s \in PartStreams |-> BytesIn(part_cache[s])]
  OBVIOUS
<1>4. \A s \in PartStreams : f[s] \in Nat
  BY <1>3, BytesAreNumbers DEF PartTypes
<1>5. SumFunctionOnSet(f, PartStreams) \in Nat
  BY <1>4, PartConstants, SumRemove
<1>6. CachedBytes \in Nat
  BY <1>3, <1>5 DEF CachedBytes
<1>7. Committing \in Nat
  <2>1. CASE committer.step = "write"
    <3>1. committer \in PendingPart
      BY <2>1, IdleIsNot DEF PartTypes
    <3>2. committer.data \in Seq(Nat)
      BY <3>1 DEF PendingPart
    <3>. QED
      BY <2>1, <3>2 DEF Committing
  <2>2. CASE committer.step # "write"
    BY <2>2 DEF Committing
  <2>. QED
    BY <2>1, <2>2
<1>. QED
  BY <1>2, <1>6, <1>7

\* One byte more for the stream s.
LEMMA OneMoreReceived ==
    ASSUME NEW f \in [PartStreams -> Nat], NEW s \in PartStreams, NEW g,
           g = [f EXCEPT ![s] = f[s] + 1]
    PROVE  SumFunctionOnSet(g, PartStreams) = SumFunctionOnSet(f, PartStreams) + 1
<1>1. IsFiniteSet(PartStreams) /\ NatOn(f, PartStreams)
  BY PartConstants DEF NatOn
<1>2. PICK h, n : h = [f EXCEPT ![s] = f[s] + 1] /\ n = 1
  OBVIOUS
<1>3. SameOn(h, f, PartStreams \ {s}) /\ h[s] = f[s] + n /\ n \in Nat
  BY <1>2 DEF SameOn
<1>4. SumFunctionOnSet(h, PartStreams) = SumFunctionOnSet(f, PartStreams) + n
  BY <1>1, <1>3, SumUpdate
<1>. QED
  BY <1>2, <1>4

\* The sum with one more number.
LEMMA SumWithOne ==
    ASSUME NEW S, IsFiniteSet(S), NEW h, NatOn(h, S), NEW k, k \notin S, NEW g, SameOn(g, h, S),
           g[k] \in Nat
    PROVE  SumFunctionOnSet(g, S \cup {k}) = SumFunctionOnSet(h, S) + g[k]
<1>1. IsFiniteSet(S \cup {k})
  BY FS_AddElement
<1>2. \A x \in S : h[x] \in Nat /\ g[x] = h[x]
  BY DEF NatOn, SameOn
<1>3. \A x \in S \cup {k} : g[x] \in Nat
  BY <1>2
<1>4. SumFunctionOnSet(g, S \cup {k}) = g[k] + SumFunctionOnSet(g, (S \cup {k}) \ {k})
  BY <1>1, <1>3, SumRemove
<1>5. (S \cup {k}) \ {k} = S
  OBVIOUS
<1>6. SumFunctionOnSet(g, S) = SumFunctionOnSet(h, S)
  BY <1>2, SumSame
<1>7. SumFunctionOnSet(h, S) \in Nat
  <2>1. \A x \in S : h[x] \in Nat
    BY <1>2
  <2>. QED
    BY <2>1, SumRemove
<1>8. SumFunctionOnSet(g, S \cup {k}) = g[k] + SumFunctionOnSet(h, S)
  BY <1>4, <1>5, <1>6
<1>. QED
  BY <1>7, <1>8

\* A slot is written and those a window behind it are gone: their bytes with them.
LEMMA WrittenFacts ==
    ASSUME NEW table, SlotsOK(table), NEW q \in Nat, NEW data \in Seq(Nat),
           \A o \in DOMAIN table : o < q
    PROVE  /\ SlotsOK(Written(table, q, data))
           /\ DOMAIN Written(table, q, data) = {o \in DOMAIN table : q - o < PartWindow} \cup {q}
           /\ Written(table, q, data)[q] = data
           /\ \A o \in DOMAIN table : q - o < PartWindow => Written(table, q, data)[o] = table[o]
           /\ BytesIn(Written(table, q, data)) <= BytesIn(table) + Len(data)
           /\ q < PartWindow => BytesIn(Written(table, q, data)) = BytesIn(table) + Len(data)
<1>1. PICK D, S, K, w : /\ D = DOMAIN table /\ S = {o \in D : q - o < PartWindow} /\ K = D \ S
                        /\ w = Written(table, q, data)
  OBVIOUS
<1>2. /\ D \subseteq Nat /\ IsFiniteSet(D) /\ S \subseteq D /\ K \subseteq D
      /\ \A o \in D : table[o] \in Seq(Nat)
  BY <1>1 DEF SlotsOK
<1>3. w = [o \in S \cup {q} |-> IF o = q THEN data ELSE table[o]]
  BY <1>1 DEF Written
<1>4. q \notin D
  BY <1>1, <1>2
<1>5. DOMAIN w = S \cup {q} /\ w[q] = data /\ \A o \in S : w[o] = table[o]
  BY <1>2, <1>3, <1>4
<1>6. IsFiniteSet(S) /\ IsFiniteSet(S \cup {q})
  <2>1. IsFiniteSet(S)
    BY <1>2, FS_Subset
  <2>. QED
    BY <2>1, FS_AddElement
<1>7. SlotsOK(w)
  <2>1. S \cup {q} \subseteq Nat
    BY <1>2
  <2>2. ASSUME NEW o \in S \cup {q}
        PROVE  w[o] \in Seq(Nat)
    BY <1>2, <1>5
  <2>. QED
    BY <1>5, <1>6, <2>1, <2>2 DEF SlotsOK
<1>8. PICK f, h, g : /\ f = [o \in D |-> Len(table[o])] /\ h = [o \in S |-> Len(table[o])]
                     /\ g = [o \in S \cup {q} |-> Len(w[o])]
  OBVIOUS
<1>9. BytesIn(table) = SumFunctionOnSet(f, D) /\ BytesIn(w) = SumFunctionOnSet(g, S \cup {q})
  BY <1>1, <1>5, <1>8 DEF BytesIn
<1>10. NatOn(f, D) /\ NatOn(h, S) /\ Len(data) \in Nat
  BY <1>2, <1>8 DEF NatOn
<1>11. PICK a, b, c : /\ a = SumFunctionOnSet(f, D) /\ b = SumFunctionOnSet(h, S)
                      /\ c = SumFunctionOnSet(f, K)
  OBVIOUS
<1>12. b = a - c /\ a \in Nat /\ b \in Nat /\ c \in Nat
  <2>1. D \ K = S
    BY <1>1, <1>2
  <2>2. SameOn(h, f, D \ K)
    BY <1>2, <1>8, <2>1 DEF SameOn
  <2>3. K \in SUBSET D
    BY <1>2
  <2>. QED
    <3>1. /\ SumFunctionOnSet(h, D \ K) = SumFunctionOnSet(f, D) - SumFunctionOnSet(f, K)
          /\ SumFunctionOnSet(h, D \ K) \in Nat
          /\ SumFunctionOnSet(f, K) \in Nat
          /\ SumFunctionOnSet(f, D) \in Nat
      BY <1>2, <1>10, <2>2, <2>3, SumWithout
    <3>. QED
      BY <1>11, <2>1, <3>1
<1>13. SumFunctionOnSet(g, S \cup {q}) = b + Len(data)
  <2>1. SameOn(g, h, S)
    BY <1>5, <1>8 DEF SameOn
  <2>3. g[q] = Len(data)
    BY <1>5, <1>8
  <2>2. q \notin S
    BY <1>2, <1>4
  <2>. QED
    <3>1. PICK k : k = q
      OBVIOUS
    <3>2. IsFiniteSet(S) /\ NatOn(h, S) /\ k \notin S /\ SameOn(g, h, S) /\ g[k] \in Nat
      BY <1>6, <1>10, <2>1, <2>2, <2>3, <3>1
    <3>3. SumFunctionOnSet(g, S \cup {k}) = SumFunctionOnSet(h, S) + g[k]
      BY <3>2, SumWithOne
    <3>. QED
      BY <1>11, <2>3, <3>1, <3>3
<1>14. PICK n : n = Len(data)
  OBVIOUS
<1>15. b + n <= a + n
  BY <1>10, <1>12, <1>14
<1>16. q < PartWindow => b + n = a + n
  <2>1. SUFFICES ASSUME q < PartWindow
                 PROVE  b = a
    BY <1>10, <1>12, <1>14
  <2>2. \A o \in D : q - o < PartWindow
    BY <1>2, <2>1, PartConstants
  <2>3. S = D
    BY <1>1, <2>2
  <2>4. f = h
    BY <1>8, <2>3
  <2>. QED
    BY <1>11, <2>3, <2>4
<1>17. BytesIn(table) = a /\ BytesIn(w) = b + n
  BY <1>9, <1>11, <1>13, <1>14
<1>18. BytesIn(w) <= BytesIn(table) + n /\ (q < PartWindow => BytesIn(w) = BytesIn(table) + n)
  BY <1>15, <1>16, <1>17
<1>. QED
  BY <1>1, <1>5, <1>7, <1>14, <1>18

-----------------------------------------------------------------------------
\* Nothing but readers has changed.
PartsUntouched ==
    UNCHANGED <<gathered, next_seq, bytes_received, last_committed, part_cache, recorded,
                committer, ingest_ended, bytes_lost>>

LEMMA ReaderStep ==
    ASSUME PartsInv, PartsUntouched, NEW r \in PartReaders,
           NEW d2 \in PartRequest \cup {NoRequest}, part_readers' = [part_readers EXCEPT ![r] = d2],
           d2.step = "wait" /\ d2.seq \in DOMAIN part_cache[d2.stream] => d2.notified,
           \A start : PartsAreRuns(start) /\ d2 # NoRequest =>
               ReadsRun(d2, start, next_seq[ByteStream])
    PROVE  PartsInv'
<1>1. /\ gathered' = gathered /\ next_seq' = next_seq /\ bytes_received' = bytes_received
      /\ last_committed' = last_committed /\ part_cache' = part_cache /\ recorded' = recorded
      /\ committer' = committer /\ ingest_ended' = ingest_ended /\ bytes_lost' = bytes_lost
  BY DEF PartsUntouched
<1>2. /\ DOMAIN part_readers = PartReaders /\ part_readers'[r] = d2
      /\ \A x \in PartReaders : x # r => part_readers'[x] = part_readers[x]
      /\ part_readers' \in [PartReaders -> PartRequest \cup {NoRequest}]
  BY DEF PartsInv, PartTypes
<1>3. PartTypes'
  BY <1>1, <1>2 DEF PartsInv, PartTypes, SlotsOK
<1>4. PartsOrdered' /\ RecordsCached'
  BY <1>1 DEF PartsInv, PartsOrdered, RecordsCached
<1>5. BytesConserved'
  BY <1>1 DEF PartsInv, BytesConserved, Committing, CachedBytes, BytesIn, BytesReceived
<1>6. NoMissedPart'
  <2>1. SUFFICES ASSUME NEW x \in PartReaders, part_readers'[x].step = "wait",
                        part_readers'[x].seq \in DOMAIN part_cache[part_readers'[x].stream]
                 PROVE  part_readers'[x].notified
    BY <1>1 DEF NoMissedPart, Available
  <2>2. CASE x = r
    BY <1>2, <2>1, <2>2
  <2>3. CASE x # r
    BY <1>2, <2>1, <2>3 DEF PartsInv, NoMissedPart, Available
  <2>. QED
    BY <2>2, <2>3
<1>7. PICK start : PartsAreRuns(start)
  BY DEF PartsInv
<1>8. PartsAreRuns(start)'
  <2>1. ASSUME NEW x \in PartReaders, part_readers'[x] # NoRequest
        PROVE  ReadsRun(part_readers'[x], start, next_seq[ByteStream])
    <3>1. CASE x = r
      BY <1>2, <1>7, <2>1, <3>1
    <3>2. CASE x # r
      BY <1>2, <1>7, <2>1, <3>2 DEF PartsAreRuns
    <3>. QED
      BY <3>1, <3>2
  <2>. QED
    BY <1>1, <1>7, <2>1 DEF PartsAreRuns
<1>. QED
  BY <1>3, <1>4, <1>5, <1>6, <1>8 DEF PartsInv

\* A body goes on with the part that begins where it ends.
LEMMA JoinedRuns ==
    ASSUME NEW body \in Seq(Nat), NEW data \in Seq(Nat), NEW a \in Nat, NEW b \in Nat,
           Consecutive(body), Len(body) > 0 => body[Len(body)] = a, Run(data, a, b)
    PROVE  /\ body \o data \in Seq(Nat) /\ Consecutive(body \o data)
           /\ Len(body \o data) > 0 => (body \o data)[Len(body \o data)] = b
<1>1. PICK m, n, j : m = Len(body) /\ n = Len(data) /\ j = body \o data
  OBVIOUS
<1>2. /\ m \in Nat /\ n \in Nat /\ j \in Seq(Nat) /\ Len(j) = m + n
      /\ \A i \in 1 .. m : j[i] = body[i]
      /\ \A i \in 1 .. n : j[m + i] = data[i]
  BY <1>1
<1>3. n = b - a /\ \A i \in 1 .. n : data[i] = a + i
  BY <1>1 DEF Run
<1>4. \A i \in 1 .. n : j[m + i] = a + i
  BY <1>2, <1>3
<1>5. \A i \in 1 .. m - 1 : body[i + 1] = body[i] + 1
  BY <1>1 DEF Consecutive
<1>6. m > 0 => j[m] = a
  BY <1>1, <1>2
<1>7. ASSUME NEW i \in 1 .. (m + n) - 1
      PROVE  j[i + 1] = j[i] + 1
  <2>1. CASE i < m
    BY <1>2, <1>5, <2>1
  <2>2. CASE i = m
    <3>1. 1 \in 1 .. n /\ m > 0
      BY <1>2, <2>2
    <3>. QED
      BY <1>2, <1>4, <1>6, <2>2, <3>1
  <2>3. CASE i > m
    <3>1. PICK k \in Nat : k = i - m
      BY <1>2, <2>3
    <3>2. k \in 1 .. n /\ k + 1 \in 1 .. n /\ i = m + k /\ i + 1 = m + (k + 1)
      BY <1>2, <2>3, <3>1
    <3>3. j[m + k] = a + k /\ j[m + (k + 1)] = a + (k + 1)
      BY <1>4, <3>2
    <3>. QED
      BY <3>2, <3>3
  <2>. QED
    BY <1>2, <2>1, <2>2, <2>3
<1>8. ASSUME m + n > 0
      PROVE  j[m + n] = b
  <2>1. CASE n = 0
    BY <1>2, <1>3, <1>6, <1>8, <2>1
  <2>2. CASE n # 0
    <3>1. n \in 1 .. n
      BY <1>2, <2>2
    <3>. QED
      BY <1>3, <1>4, <3>1
  <2>. QED
    BY <2>1, <2>2
<1>9. Consecutive(j)
  BY <1>2, <1>7 DEF Consecutive
<1>10. Len(j) > 0 => j[Len(j)] = b
  BY <1>2, <1>8
<1>. QED
  BY <1>1, <1>2, <1>9, <1>10

\* A request that takes its part.
LEMMA TakenFacts ==
    ASSUME PartsInv, NEW d \in PartRequest, Available(d)
    PROVE  /\ Taken(d) \in PartRequest /\ Taken(d).step # "wait"
           /\ \A start : PartsAreRuns(start) /\ ReadsRun(d, start, next_seq[ByteStream])
                           /\ d.step # "served" =>
                 ReadsRun(Taken(d), start, next_seq[ByteStream])
<1>1. /\ d.step \in {"lookup", "register", "recheck", "wait", "served"}
      /\ d.stream \in PartStreams /\ d.seq \in Nat /\ d.end \in Nat /\ d.body \in Seq(Nat)
      /\ d.notified \in BOOLEAN
  BY DEF PartRequest
<1>2. PICK data : data = part_cache[d.stream][d.seq]
  OBVIOUS
<1>3. data \in Seq(Nat) /\ d.seq < next_seq[d.stream] /\ next_seq[d.stream] \in Nat
  BY <1>1, <1>2 DEF PartsInv, PartTypes, PartsOrdered, SlotsOK, Available
<1>4. PICK t : t = Taken(d)
  OBVIOUS
<1>5. /\ t.body = d.body \o data /\ t.stream = d.stream /\ t.end = d.end /\ t.notified = FALSE
      /\ t.seq = (IF d.seq = d.end THEN d.seq ELSE d.seq + 1)
      /\ t.step = (IF d.seq = d.end THEN "served" ELSE "lookup")
  BY <1>2, <1>4 DEF Taken, PartRequest
<1>6. t \in PartRequest
  <2>1. d.body \o data \in Seq(Nat)
    BY <1>1, <1>3
  <2>2. PICK x, y, z : /\ x = d.body \o data /\ y = (IF d.seq = d.end THEN d.seq ELSE d.seq + 1)
                       /\ z = (IF d.seq = d.end THEN "served" ELSE "lookup")
    OBVIOUS
  <2>3. x \in Seq(Nat) /\ y \in Nat /\ z \in {"served", "lookup"}
    BY <1>1, <2>1, <2>2
  <2>4. t = [d EXCEPT !.body = x, !.seq = y, !.step = z, !.notified = FALSE]
    BY <1>2, <1>4, <2>2 DEF Taken, PartRequest
  <2>. QED
    BY <2>3, <2>4 DEF PartRequest
<1>7. ASSUME NEW start, PartsAreRuns(start), ReadsRun(d, start, next_seq[ByteStream]),
             d.step # "served"
      PROVE  ReadsRun(t, start, next_seq[ByteStream])
  <2>1. SUFFICES ASSUME d.stream = ByteStream
                 PROVE  /\ Consecutive(t.body)
                        /\ t.step # "served" /\ Len(t.body) > 0 =>
                              t.seq <= next_seq[ByteStream] /\ t.body[Len(t.body)] = start[t.seq]
    BY <1>5 DEF ReadsRun
  <2>2. PICK a, b : a = start[d.seq] /\ b = start[d.seq + 1]
    OBVIOUS
  <2>3. a \in Nat /\ b \in Nat /\ Run(data, a, b)
    <3>1. start \in [Nat -> Nat] /\ d.seq \in DOMAIN part_cache[ByteStream]
      BY <1>7, <2>1 DEF PartsAreRuns, Available
    <3>2. Run(part_cache[ByteStream][d.seq], start[d.seq], start[d.seq + 1])
      BY <1>7, <3>1 DEF PartsAreRuns
    <3>3. \A n \in Nat : start[n] \in Nat
      BY <3>1
    <3>4. start[d.seq] \in Nat /\ start[d.seq + 1] \in Nat
      <4>1. d.seq \in Nat /\ d.seq + 1 \in Nat
        BY <1>1
      <4>. QED
        BY <3>3, <4>1
    <3>. QED
      BY <1>2, <2>1, <2>2, <3>2, <3>4
  <2>4. Consecutive(d.body) /\ (Len(d.body) > 0 => d.body[Len(d.body)] = a)
    BY <1>7, <2>1, <2>2 DEF ReadsRun
  <2>5. PICK body, j : body = d.body /\ j = t.body
    OBVIOUS
  <2>6. Consecutive(j) /\ (Len(j) > 0 => j[Len(j)] = b)
    <3>1. body \in Seq(Nat) /\ Consecutive(body) /\ (Len(body) > 0 => body[Len(body)] = a)
      BY <1>1, <2>4, <2>5
    <3>2. Consecutive(body \o data)
      BY <1>3, <2>3, <3>1, JoinedRuns
    <3>3. Len(body \o data) > 0 => (body \o data)[Len(body \o data)] = b
      BY <1>3, <2>3, <3>1, JoinedRuns
    <3>. QED
      BY <1>5, <2>5, <3>2, <3>3
  <2>7. t.step # "served" => t.seq = d.seq + 1
    BY <1>5
  <2>. QED
    BY <1>1, <1>3, <2>1, <2>2, <2>5, <2>6, <2>7
<1>. QED
  BY <1>4, <1>5, <1>6, <1>7

LEMMA ReaderOfPart ==
    ASSUME PartsInv, NEW r \in PartReaders, part_readers[r].step # "idle"
    PROVE  part_readers[r] \in PartRequest /\ part_readers[r] # NoRequest
  BY IdleIsNot DEF PartsInv, PartTypes

LEMMA RequestPartKeeps ==
    ASSUME PartsInv, NEW r \in PartReaders, NEW s \in PartStreams, NEW q \in 0 .. ByteLimit,
           RequestPart(r, s, q)
    PROVE  PartsInv'
<1>1. PICK d2 : d2 = [step |-> "lookup", stream |-> s, seq |-> q, end |-> q, body |-> <<>>,
                      notified |-> FALSE]
  OBVIOUS
<1>2. d2 \in PartRequest
  <2>1. q \in Nat
    BY PartConstants
  <2>. QED
    BY <1>1, <2>1 DEF PartRequest
<1>3. d2.step # "wait" /\ d2.body = <<>>
  BY <1>1
<1>4. \A start : ReadsRun(d2, start, next_seq[ByteStream])
  BY <1>3 DEF ReadsRun, Consecutive
<1>5. part_readers' = [part_readers EXCEPT ![r] = d2] /\ PartsUntouched
  BY <1>1 DEF RequestPart, PartsUntouched
<1>. QED
  BY <1>2, <1>3, <1>4, <1>5, ReaderStep

LEMMA RequestSegmentKeeps ==
    ASSUME PartsInv, NEW r \in PartReaders, NEW s \in PartStreams,
           NEW g \in 0 .. ByteLimit \div SegmentParts, RequestSegment(r, s, g)
    PROVE  PartsInv'
<1>1. PICK a, b : a = g * SegmentParts /\ b = (g + 1) * SegmentParts - 1
  OBVIOUS
<1>2. a \in Nat /\ b \in Nat
  <2>1. g \in Nat /\ SegmentParts \in Nat /\ SegmentParts >= 1
    BY PartConstants
  <2>2. g * SegmentParts \in Nat /\ (g + 1) * SegmentParts = g * SegmentParts + SegmentParts
    BY <2>1
  <2>. QED
    BY <1>1, <2>1, <2>2
<1>3. PICK d2 : d2 = [step |-> "lookup", stream |-> s, seq |-> a, end |-> b, body |-> <<>>,
                      notified |-> FALSE]
  OBVIOUS
<1>4. d2 \in PartRequest
  BY <1>2, <1>3 DEF PartRequest
<1>5. d2.step # "wait" /\ d2.body = <<>>
  BY <1>3
<1>6. \A start : ReadsRun(d2, start, next_seq[ByteStream])
  BY <1>5 DEF ReadsRun, Consecutive
<1>7. part_readers' = [part_readers EXCEPT ![r] = d2] /\ PartsUntouched
  BY <1>1, <1>3 DEF RequestSegment, PartsUntouched
<1>. QED
  BY <1>4, <1>5, <1>6, <1>7, ReaderStep

\* A request whose body stays what it is.
Moved(d, p, n) == [d EXCEPT !.step = p, !.notified = n]

LEMMA StepsOn ==
    ASSUME NEW d \in PartRequest, d.step # "served",
           NEW p \in {"lookup", "register", "recheck", "wait"}, NEW n \in BOOLEAN
    PROVE  /\ Moved(d, p, n) \in PartRequest /\ Moved(d, p, n).step = p
           /\ Moved(d, p, n).notified = n
           /\ Moved(d, p, n).seq = d.seq /\ Moved(d, p, n).stream = d.stream
           /\ \A start, next : ReadsRun(d, start, next) => ReadsRun(Moved(d, p, n), start, next)
<1>1. PICK d2 : d2 = Moved(d, p, n)
  OBVIOUS
<1>2. /\ d2 \in PartRequest /\ d2.step = p /\ d2.notified = n
      /\ d2.seq = d.seq /\ d2.stream = d.stream /\ d2.body = d.body
  BY <1>1 DEF PartRequest, Moved
<1>3. \A start, next : ReadsRun(d, start, next) => ReadsRun(d2, start, next)
  BY <1>2 DEF ReadsRun
<1>. QED
  BY <1>1, <1>2, <1>3

\* A lookup: the part, or the request goes on without it.
LEMMA LooksUp ==
    ASSUME PartsInv, PartsUntouched, NEW r \in PartReaders, NEW d, d = part_readers[r],
           d.step \in {"lookup", "recheck"}, NEW p \in {"register", "wait"},
           part_readers' = [part_readers EXCEPT ![r] =
               IF Available(d) THEN Taken(d) ELSE [d EXCEPT !.step = p]]
    PROVE  PartsInv'
<1>1. d \in PartRequest /\ d # NoRequest /\ d.step # "served"
  BY ReaderOfPart
<1>2. \A start : PartsAreRuns(start) => ReadsRun(d, start, next_seq[ByteStream])
  BY <1>1 DEF PartsAreRuns
<1>3. CASE Available(d)
  <2>1. PICK d2 : d2 = Taken(d)
    OBVIOUS
  <2>2. d2 \in PartRequest /\ d2.step # "wait"
    BY <1>1, <1>3, <2>1, TakenFacts
  <2>3. \A start : PartsAreRuns(start) => ReadsRun(d2, start, next_seq[ByteStream])
    BY <1>1, <1>2, <1>3, <2>1, TakenFacts
  <2>4. part_readers' = [part_readers EXCEPT ![r] = d2]
    BY <1>3, <2>1
  <2>. QED
    BY <2>2, <2>3, <2>4, ReaderStep
<1>4. CASE ~ Available(d)
  <2>1. PICK d2, n : d2 = Moved(d, p, n) /\ n = d.notified
    OBVIOUS
  <2>2. n \in BOOLEAN
    BY <1>1, <2>1 DEF PartRequest
  <2>3. /\ d2 \in PartRequest /\ d2.seq = d.seq /\ d2.stream = d.stream
        /\ \A start, next : ReadsRun(d, start, next) => ReadsRun(d2, start, next)
    BY <1>1, <2>1, <2>2, StepsOn
  <2>4. \A start : PartsAreRuns(start) => ReadsRun(d2, start, next_seq[ByteStream])
    BY <1>2, <2>3
  <2>5. d2.seq \notin DOMAIN part_cache[d2.stream]
    BY <1>4, <2>3 DEF Available
  <2>6. part_readers' = [part_readers EXCEPT ![r] = d2]
    BY <1>1, <1>4, <2>1 DEF PartRequest, Moved
  <2>. QED
    BY <2>3, <2>4, <2>5, <2>6, ReaderStep
<1>. QED
  BY <1>3, <1>4

LEMMA LookUpKeeps ==
    ASSUME PartsInv, NEW r \in PartReaders, LookUpPart(r) \/ RecheckPart(r)
    PROVE  PartsInv'
<1>1. PICK d : d = part_readers[r]
  OBVIOUS
<1>2. CASE LookUpPart(r)
  <2>1. /\ d.step \in {"lookup", "recheck"} /\ PartsUntouched
        /\ part_readers' = [part_readers EXCEPT ![r] =
              IF Available(d) THEN Taken(d) ELSE [d EXCEPT !.step = "register"]]
    BY <1>1, <1>2 DEF LookUpPart, PartsUntouched
  <2>. QED
    BY <1>1, <2>1, LooksUp
<1>3. CASE RecheckPart(r)
  <2>1. /\ d.step \in {"lookup", "recheck"} /\ PartsUntouched
        /\ part_readers' = [part_readers EXCEPT ![r] =
              IF Available(d) THEN Taken(d) ELSE [d EXCEPT !.step = "wait"]]
    BY <1>1, <1>3 DEF RecheckPart, PartsUntouched
  <2>. QED
    BY <1>1, <2>1, LooksUp
<1>. QED
  BY <1>2, <1>3

\* A request that ends.
LEMMA ReaderEnds ==
    ASSUME PartsInv, PartsUntouched, NEW r \in PartReaders,
           part_readers' = [part_readers EXCEPT ![r] = NoRequest]
    PROVE  PartsInv'
<1>1. NoRequest.step # "wait"
  BY IdleIsNot
<1>. QED
  BY <1>1, ReaderStep

\* A request that goes on with the body it has, and does not sleep.
LEMMA ReaderGoesOn ==
    ASSUME PartsInv, PartsUntouched, NEW r \in PartReaders, NEW d, d = part_readers[r],
           d.step \in {"register", "wait"}, NEW p \in {"lookup", "recheck"},
           part_readers' = [part_readers EXCEPT ![r] = [d EXCEPT !.step = p, !.notified = FALSE]]
    PROVE  PartsInv'
<1>1. d \in PartRequest /\ d # NoRequest /\ d.step # "served"
  BY ReaderOfPart
<1>2. \A start : PartsAreRuns(start) => ReadsRun(d, start, next_seq[ByteStream])
  BY <1>1 DEF PartsAreRuns
<1>3. PICK d2, n : n \in BOOLEAN /\ n = FALSE /\ d2 = Moved(d, p, n)
  OBVIOUS
<1>4. /\ d2 \in PartRequest /\ d2.step = p
      /\ \A start, next : ReadsRun(d, start, next) => ReadsRun(d2, start, next)
  BY <1>1, <1>3, StepsOn
<1>5. \A start : PartsAreRuns(start) => ReadsRun(d2, start, next_seq[ByteStream])
  BY <1>2, <1>4
<1>6. d2.step # "wait" /\ part_readers' = [part_readers EXCEPT ![r] = d2]
  BY <1>3, <1>4 DEF Moved
<1>. QED
  BY <1>4, <1>5, <1>6, ReaderStep

LEMMA WaiterKeeps ==
    ASSUME PartsInv, NEW r \in PartReaders, NEW b \in BOOLEAN,
           RegisterWaiter(r, b) \/ WakeOrGiveUp(r, b) \/ ServePart(r)
    PROVE  PartsInv'
<1>1. PICK d : d = part_readers[r]
  OBVIOUS
<1>2. PartsUntouched
  BY DEF RegisterWaiter, WakeOrGiveUp, ServePart, PartsUntouched
<1>3. CASE RegisterWaiter(r, b)
  <2>1. CASE b
    BY <1>1, <1>2, <1>3, <2>1, ReaderGoesOn DEF RegisterWaiter, Registered
  <2>2. CASE ~ b
    BY <1>2, <1>3, <2>2, ReaderEnds DEF RegisterWaiter
  <2>. QED
    BY <2>1, <2>2
<1>4. CASE WakeOrGiveUp(r, b)
  <2>1. CASE b
    BY <1>1, <1>2, <1>4, <2>1, ReaderGoesOn DEF WakeOrGiveUp
  <2>2. CASE ~ b
    BY <1>2, <1>4, <2>2, ReaderEnds DEF WakeOrGiveUp
  <2>. QED
    BY <2>1, <2>2
<1>5. CASE ServePart(r)
  BY <1>2, <1>5, ReaderEnds DEF ServePart
<1>. QED
  BY <1>3, <1>4, <1>5

-----------------------------------------------------------------------------
\* The bytes that BytesConserved counts.
KeptBytes == Len(gathered) + Committing + CachedBytes + bytes_lost
WithinWindow == \A s \in PartStreams : next_seq[s] <= PartWindow

KeptOK ==
    /\ KeptBytes \in Nat /\ BytesReceived \in Nat
    /\ BytesConserved <=> /\ KeptBytes <= BytesReceived
                          /\ WithinWindow => KeptBytes = BytesReceived

LEMMA KeptFacts == PartTypes => KeptOK
<1>. SUFFICES ASSUME PartTypes
              PROVE  KeptOK
  OBVIOUS
<1>1. Len(gathered) \in Nat /\ bytes_lost \in Nat
  BY DEF PartTypes
<1>2. BytesReceived \in Nat /\ CachedBytes \in Nat /\ Committing \in Nat
  BY SumsAreNumbers
<1>3. KeptBytes \in Nat
  BY <1>1, <1>2 DEF KeptBytes
<1>. QED
  BY <1>2, <1>3 DEF BytesConserved, KeptBytes, WithinWindow, KeptOK

\* What a step receives, it keeps, and it gives no byte twice.
LEMMA BytesMoved ==
    ASSUME PartsInv, PartTypes', NEW n \in Nat, BytesReceived' = BytesReceived + n,
           \A s \in PartStreams : next_seq[s] <= next_seq'[s],
           KeptBytes' <= KeptBytes + n, WithinWindow' => KeptBytes' = KeptBytes + n
    PROVE  BytesConserved'
<1>1. /\ KeptBytes \in Nat /\ BytesReceived \in Nat
      /\ KeptBytes <= BytesReceived /\ (WithinWindow => KeptBytes = BytesReceived)
  BY KeptFacts DEF PartsInv, KeptOK
<1>2. WithinWindow' => WithinWindow
  <2>1. next_seq \in [PartStreams -> Nat] /\ next_seq' \in [PartStreams -> Nat]
    BY DEF PartsInv, PartTypes
  <2>2. ASSUME WithinWindow', NEW s \in PartStreams
        PROVE  next_seq[s] <= PartWindow
    <3>1. next_seq'[s] <= PartWindow
      BY <2>2 DEF WithinWindow
    <3>2. next_seq[s] \in Nat /\ next_seq'[s] \in Nat /\ PartWindow \in Nat
      BY <2>1, PartConstants
    <3>3. next_seq[s] <= next_seq'[s]
      OBVIOUS
    <3>. QED
      BY <3>1, <3>2, <3>3
  <2>. QED
    BY <2>2 DEF WithinWindow
<1>3. /\ KeptBytes' \in Nat /\ BytesReceived' \in Nat
      /\ BytesConserved' <=> /\ KeptBytes' <= BytesReceived'
                             /\ WithinWindow' => KeptBytes' = BytesReceived'
  <2>1. KeptOK'
    BY KeptFacts, PTL
  <2>. QED
    BY <2>1 DEF KeptOK
<1>4. KeptBytes' <= BytesReceived'
  BY <1>1, <1>3
<1>5. WithinWindow' => KeptBytes' = BytesReceived'
  BY <1>1, <1>2, <1>3
<1>. QED
  BY <1>3, <1>4, <1>5

\* The idle task.
LEMMA IdleTask ==
    ASSUME PartsInv, TaskIdle
    PROVE  /\ committer = NoCommit /\ committer.step # "write" /\ committer.step # "record"
           /\ Committing = 0 /\ \A s \in PartStreams : recorded[s] \subseteq DOMAIN part_cache[s]
<1>1. committer = NoCommit /\ committer.step = "idle"
  BY IdleIsNot DEF TaskIdle
<1>. QED
  BY <1>1 DEF PartsInv, RecordsCached, Committing

\* A part of n bytes more than were gathered is taken: the part after it begins
\* where the bytes received end.
LEMMA TakeStep ==
    ASSUME PartsInv, TaskIdle, NEW bytes \in Seq(Nat), NEW origin \in {"push", "tick", "shutdown"},
           TakeCurrent(bytes, origin), NEW n \in Nat, Len(bytes) = Len(gathered) + n,
           bytes_received' \in [PartStreams -> Nat], BytesReceived' = BytesReceived + n,
           \A start : PartsAreRuns(start) =>
               Run(bytes, start[next_seq[ByteStream]], bytes_received'[ByteStream]),
           ingest_ended' \in {"no", "shutdown", "failed"},
           UNCHANGED <<last_committed, part_cache, recorded, part_readers, bytes_lost>>
    PROVE  PartsInv'
<1>1. PICK q, c : q = next_seq[ByteStream] /\ c = committer'
  OBVIOUS
<1>2. /\ c = [step |-> "write", stream |-> ByteStream, seq |-> q, data |-> bytes, origin |-> origin]
      /\ next_seq' = [next_seq EXCEPT ![ByteStream] = q + 1] /\ gathered' = <<>>
  BY <1>1 DEF TakeCurrent
<1>3. q \in Nat /\ next_seq \in [PartStreams -> Nat] /\ ByteStream \in PartStreams
  BY <1>1, PartConstants DEF PartsInv, PartTypes
<1>4. /\ next_seq' \in [PartStreams -> Nat] /\ next_seq'[ByteStream] = q + 1
      /\ \A s \in PartStreams : next_seq[s] <= next_seq'[s]
  <2>1. ASSUME NEW s \in PartStreams
        PROVE  next_seq'[s] \in Nat /\ next_seq[s] <= next_seq'[s]
    <3>1. next_seq'[s] = (IF s = ByteStream THEN q + 1 ELSE next_seq[s]) /\ next_seq[s] \in Nat
      BY <1>2, <1>3
    <3>. QED
      BY <1>1, <1>3, <3>1
  <2>. QED
    BY <1>2, <1>3, <2>1
<1>5. /\ c \in PendingPart /\ c # NoCommit /\ c.step = "write" /\ c.stream = ByteStream
      /\ c.seq = q /\ c.data = bytes
  <2>1. c \in PendingPart
    BY <1>2, <1>3 DEF PendingPart
  <2>. QED
    BY <1>2, <2>1, IdleIsNot
<1>6. PartTypes'
  <2>1. /\ gathered' \in Seq(Nat) /\ Len(gathered') < MaxPartBytes
        /\ committer' \in PendingPart \cup {NoCommit}
    BY <1>1, <1>2, <1>5, PartConstants
  <2>. QED
    BY <1>4, <2>1 DEF PartsInv, PartTypes, SlotsOK
<1>7. PartsOrdered'
  <2>1. ASSUME NEW s \in PartStreams, NEW o \in DOMAIN part_cache[s]
        PROVE  o < next_seq'[s] /\ (s = ByteStream => o < q)
    <3>1. o < next_seq[s] /\ next_seq[s] \in Nat /\ next_seq'[s] \in Nat /\ o \in Nat
      BY <1>3, <1>4 DEF PartsInv, PartsOrdered, PartTypes, SlotsOK
    <3>2. next_seq[s] <= next_seq'[s]
      BY <1>4
    <3>. QED
      BY <1>1, <3>1, <3>2
  <2>. QED
    BY <1>1, <1>3, <1>4, <1>5, <2>1 DEF PartsOrdered
<1>8. RecordsCached'
  BY <1>1, <1>5, IdleTask DEF RecordsCached
<1>9. BytesConserved'
  <2>1. CachedBytes' = CachedBytes
    BY DEF CachedBytes, BytesIn
  <2>2. Committing' = Len(bytes) /\ Committing = 0 /\ Len(gathered') = 0
    BY <1>1, <1>2, <1>5, IdleTask DEF Committing
  <2>3. CachedBytes \in Nat /\ bytes_lost \in Nat /\ Len(gathered) \in Nat
    BY SumsAreNumbers DEF PartsInv, PartTypes
  <2>4. KeptBytes' = KeptBytes + n
    <3>1. KeptBytes = Len(gathered) + 0 + CachedBytes + bytes_lost
      BY <2>2 DEF KeptBytes
    <3>2. KeptBytes' = 0 + Len(bytes) + CachedBytes + bytes_lost
      BY <2>1, <2>2 DEF KeptBytes
    <3>. QED
      BY <2>3, <3>1, <3>2
  <2>5. KeptBytes \in Nat
    BY KeptFacts DEF PartsInv, KeptOK
  <2>. QED
    BY <1>4, <1>6, <2>4, <2>5, BytesMoved
<1>10. NoMissedPart'
  BY DEF PartsInv, NoMissedPart, Available
<1>11. PICK start : PartsAreRuns(start)
  BY DEF PartsInv
<1>12. PICK b, next : b = bytes_received'[ByteStream] /\ next = [start EXCEPT ![q + 1] = b]
  OBVIOUS
<1>13. /\ start \in [Nat -> Nat] /\ b \in Nat /\ next \in [Nat -> Nat] /\ next[q + 1] = b
       /\ \A o \in Nat : o <= q => next[o] = start[o]
  <2>1. start \in [Nat -> Nat] /\ b \in Nat
    BY <1>3, <1>11, <1>12 DEF PartsAreRuns
  <2>2. q + 1 \in Nat
    BY <1>3
  <2>3. next \in [Nat -> Nat] /\ next[q + 1] = b
    BY <1>12, <2>1, <2>2
  <2>4. ASSUME NEW o \in Nat, o <= q
        PROVE  next[o] = start[o]
    <3>1. o # q + 1
      BY <1>3, <2>4
    <3>. QED
      BY <1>12, <2>1, <3>1
  <2>. QED
    BY <2>1, <2>3, <2>4
<1>14. Run(bytes, next[q], next[q + 1])
  <2>1. Run(bytes, start[q], b)
    BY <1>1, <1>11, <1>12
  <2>2. next[q] = start[q]
    BY <1>3, <1>13
  <2>. QED
    BY <1>13, <2>1, <2>2
<1>15. ASSUME NEW o \in DOMAIN part_cache[ByteStream]
       PROVE  Run(part_cache[ByteStream][o], next[o], next[o + 1])
  <2>1. o \in Nat /\ o < q
    BY <1>1, <1>3 DEF PartsInv, PartsOrdered, PartTypes, SlotsOK
  <2>2. Run(part_cache[ByteStream][o], start[o], start[o + 1])
    BY <1>11 DEF PartsAreRuns
  <2>3. o <= q /\ o + 1 <= q /\ o + 1 \in Nat
    BY <1>3, <2>1
  <2>4. next[o] = start[o] /\ next[o + 1] = start[o + 1]
    BY <1>13, <2>1, <2>3
  <2>. QED
    BY <2>2, <2>4
<1>16. ASSUME NEW r \in PartReaders, part_readers[r] # NoRequest
       PROVE  ReadsRun(part_readers[r], next, q + 1)
  <2>1. part_readers[r] \in PartRequest
    BY <1>16 DEF PartsInv, PartTypes
  <2>2. PICK d : d = part_readers[r]
    OBVIOUS
  <2>3. d.seq \in Nat
    BY <2>1, <2>2 DEF PartRequest
  <2>4. ReadsRun(d, start, q)
    BY <1>1, <1>11, <1>16, <2>2 DEF PartsAreRuns
  <2>5. d.seq <= q => d.seq <= q + 1 /\ next[d.seq] = start[d.seq]
    <3>1. PICK z \in Nat : z = d.seq
      BY <2>3
    <3>2. z <= q => next[z] = start[z]
      BY <1>13
    <3>3. z <= q => z <= q + 1
      BY <1>3
    <3>. QED
      BY <3>1, <3>2, <3>3
  <2>6. ReadsRun(d, next, q + 1)
    BY <2>4, <2>5 DEF ReadsRun
  <2>. QED
    BY <2>2, <2>6
<1>17. Run(gathered', next[q + 1], b)
  BY <1>2, <1>13 DEF Run
<1>18. PartsAreRuns(next)'
  <2>1. committer'.data = bytes /\ committer'.seq = q
    BY <1>1, <1>5
  <2>2. Run(committer'.data, next[committer'.seq], next[committer'.seq + 1])
    BY <1>14, <2>1
  <2>3. Run(gathered', next[next_seq'[ByteStream]], bytes_received'[ByteStream])
    BY <1>4, <1>12, <1>17
  <2>4. \A r \in PartReaders : part_readers'[r] # NoRequest =>
           ReadsRun(part_readers'[r], next, next_seq'[ByteStream])
    BY <1>4, <1>16
  <2>5. \A o \in DOMAIN part_cache'[ByteStream] :
           Run(part_cache'[ByteStream][o], next[o], next[o + 1])
    BY <1>15
  <2>. QED
    BY <1>13, <2>2, <2>3, <2>4, <2>5 DEF PartsAreRuns
<1>. QED
  BY <1>6, <1>7, <1>8, <1>9, <1>10, <1>18 DEF PartsInv

\* One byte more of the run that is gathered.
LEMMA RunGrows ==
    ASSUME NEW data \in Seq(Nat), NEW a \in Nat, NEW b \in Nat, Run(data, a, b)
    PROVE  /\ Append(data, b + 1) \in Seq(Nat) /\ Len(Append(data, b + 1)) = Len(data) + 1
           /\ Run(Append(data, b + 1), a, b + 1)
<1>1. PICK m, j : m = Len(data) /\ j = Append(data, b + 1)
  OBVIOUS
<1>2. m \in Nat /\ m = b - a /\ \A i \in 1 .. m : data[i] = a + i
  BY <1>1 DEF Run
<1>3. j \in Seq(Nat) /\ Len(j) = m + 1 /\ j[m + 1] = b + 1 /\ \A i \in 1 .. m : j[i] = data[i]
  <2>1. PICK x \in Nat : x = b + 1
    OBVIOUS
  <2>2. /\ Append(data, x) \in Seq(Nat) /\ Len(Append(data, x)) = Len(data) + 1
        /\ Append(data, x)[Len(data) + 1] = x
        /\ \A i \in 1 .. Len(data) : Append(data, x)[i] = data[i]
    BY AppendEntries
  <2>. QED
    BY <1>1, <2>1, <2>2
<1>4. ASSUME NEW i \in 1 .. m + 1
      PROVE  j[i] = a + i
  <2>1. CASE i = m + 1
    BY <1>2, <1>3, <2>1
  <2>2. CASE i # m + 1
    <3>1. i \in 1 .. m
      BY <1>2, <2>2
    <3>. QED
      BY <1>2, <1>3, <3>1
  <2>. QED
    BY <2>1, <2>2
<1>5. Run(j, a, b + 1)
  BY <1>2, <1>3, <1>4 DEF Run
<1>. QED
  BY <1>1, <1>3, <1>5

\* A payload is received: the bytes gathered with it are still one run.
LEMMA GatheredGrows ==
    ASSUME PartsInv, NEW bytes, bytes = Append(gathered, bytes_received[ByteStream] + 1),
           bytes_received' = [bytes_received EXCEPT ![ByteStream] = @ + 1]
    PROVE  /\ bytes \in Seq(Nat) /\ Len(bytes) = Len(gathered) + 1
           /\ bytes_received' \in [PartStreams -> Nat] /\ BytesReceived' = BytesReceived + 1
           /\ \A start : PartsAreRuns(start) =>
                 Run(bytes, start[next_seq[ByteStream]], bytes_received'[ByteStream])
<1>1. bytes_received \in [PartStreams -> Nat] /\ ByteStream \in PartStreams
  BY PartConstants DEF PartsInv, PartTypes
<1>2. PICK b \in Nat : b = bytes_received[ByteStream]
  BY <1>1
<1>3. bytes_received' \in [PartStreams -> Nat] /\ bytes_received'[ByteStream] = b + 1
  BY <1>1, <1>2
<1>4. BytesReceived' = BytesReceived + 1
  <2>1. PICK f, g : f = bytes_received /\ g = [f EXCEPT ![ByteStream] = f[ByteStream] + 1]
    OBVIOUS
  <2>2. g = bytes_received' /\ f \in [PartStreams -> Nat]
    BY <1>1, <2>1
  <2>3. SumFunctionOnSet(g, PartStreams) = SumFunctionOnSet(f, PartStreams) + 1
    BY <1>1, <2>1, <2>2, OneMoreReceived
  <2>. QED
    BY <2>1, <2>2, <2>3 DEF BytesReceived
<1>5. gathered \in Seq(Nat) /\ next_seq[ByteStream] \in Nat
  BY <1>1 DEF PartsInv, PartTypes
<1>6. bytes \in Seq(Nat) /\ Len(bytes) = Len(gathered) + 1
  <2>1. b + 1 \in Nat
    OBVIOUS
  <2>. QED
    BY <1>2, <1>5, <2>1
<1>7. ASSUME NEW start, PartsAreRuns(start)
      PROVE  Run(bytes, start[next_seq[ByteStream]], bytes_received'[ByteStream])
  <2>1. PICK a : a = start[next_seq[ByteStream]]
    OBVIOUS
  <2>2. start \in [Nat -> Nat] /\ Run(gathered, a, b)
    BY <1>2, <1>7, <2>1 DEF PartsAreRuns
  <2>3. a \in Nat
    BY <1>5, <2>1, <2>2
  <2>4. Run(Append(gathered, b + 1), a, b + 1)
    BY <1>5, <2>2, <2>3, RunGrows
  <2>. QED
    BY <1>2, <1>3, <2>1, <2>4
<1>. QED
  BY <1>3, <1>4, <1>6, <1>7

LEMMA PushPayloadKeeps ==
    ASSUME PartsInv, PushPayload
    PROVE  PartsInv'
<1>1. PICK bytes, n : bytes = Append(gathered, bytes_received[ByteStream] + 1) /\ n = 1
  OBVIOUS
<1>2. /\ TaskIdle /\ bytes_received' = [bytes_received EXCEPT ![ByteStream] = @ + 1]
      /\ UNCHANGED <<last_committed, part_cache, recorded, ingest_ended, part_readers, bytes_lost>>
      /\ \/ TakeCurrent(bytes, "push")
         \/ /\ ~ (Len(bytes) >= MaxPartBytes) /\ gathered' = bytes
            /\ UNCHANGED <<next_seq, committer>>
  BY <1>1 DEF PushPayload
<1>3. /\ bytes \in Seq(Nat) /\ Len(bytes) = Len(gathered) + n /\ n \in Nat
      /\ bytes_received' \in [PartStreams -> Nat] /\ BytesReceived' = BytesReceived + n
      /\ \A start : PartsAreRuns(start) =>
            Run(bytes, start[next_seq[ByteStream]], bytes_received'[ByteStream])
  BY <1>1, <1>2, GatheredGrows
<1>4. ingest_ended' \in {"no", "shutdown", "failed"}
  BY <1>2 DEF PartsInv, PartTypes
<1>5. CASE TakeCurrent(bytes, "push")
  <2>1. PICK origin \in {"push", "tick", "shutdown"} : origin = "push"
    OBVIOUS
  <2>2. TakeCurrent(bytes, origin)
    BY <1>5, <2>1
  <2>. QED
    BY <1>2, <1>3, <1>4, <2>2, TakeStep
<1>6. CASE ~ (Len(bytes) >= MaxPartBytes) /\ gathered' = bytes /\ UNCHANGED <<next_seq, committer>>
  <2>1. Len(bytes) < MaxPartBytes
    <3>1. Len(bytes) \in Nat
      BY <1>3
    <3>. QED
      BY <1>6, <3>1, PartConstants
  <2>2. PartTypes'
    BY <1>2, <1>3, <1>6, <2>1 DEF PartsInv, PartTypes, SlotsOK
  <2>3. PartsOrdered' /\ RecordsCached'
    BY <1>2, <1>6 DEF PartsInv, PartsOrdered, RecordsCached
  <2>4. NoMissedPart'
    BY <1>2 DEF PartsInv, NoMissedPart, Available
  <2>5. BytesConserved'
    <3>1. CachedBytes' = CachedBytes /\ Committing' = Committing
      BY <1>2, <1>6 DEF CachedBytes, BytesIn, Committing
    <3>2. /\ CachedBytes \in Nat /\ bytes_lost \in Nat /\ Len(gathered) \in Nat
          /\ Committing \in Nat
      BY SumsAreNumbers DEF PartsInv, PartTypes
    <3>3. KeptBytes' = (Len(gathered) + n) + Committing + CachedBytes + bytes_lost
      BY <1>2, <1>3, <1>6, <3>1 DEF KeptBytes
    <3>4. KeptBytes' = KeptBytes + n /\ KeptBytes \in Nat
      BY <1>3, <3>2, <3>3 DEF KeptBytes
    <3>5. \A s \in PartStreams : next_seq[s] <= next_seq'[s]
      BY <1>6 DEF PartsInv, PartTypes
    <3>. QED
      BY <1>3, <2>2, <3>4, <3>5, BytesMoved
  <2>6. PICK start : PartsAreRuns(start)
    BY DEF PartsInv
  <2>7. PartsAreRuns(start)'
    <3>1. Run(gathered', start[next_seq'[ByteStream]], bytes_received'[ByteStream])
      BY <1>3, <1>6, <2>6
    <3>. QED
      BY <1>2, <1>6, <2>6, <3>1 DEF PartsAreRuns
  <2>. QED
    BY <2>2, <2>3, <2>4, <2>5, <2>7 DEF PartsInv
<1>. QED
  BY <1>2, <1>5, <1>6

\* A step that changes nothing that the invariant is about, but for the end of the task.
LEMMA PartsSameKeep ==
    ASSUME PartsInv, ingest_ended' \in {"no", "shutdown", "failed"},
           UNCHANGED <<gathered, next_seq, bytes_received, last_committed, part_cache, recorded,
                       committer, part_readers, bytes_lost>>
    PROVE  PartsInv'
<1>1. PartTypes'
  BY DEF PartsInv, PartTypes, SlotsOK
<1>2. PartsOrdered' /\ RecordsCached'
  BY DEF PartsInv, PartsOrdered, RecordsCached
<1>3. BytesConserved'
  BY DEF PartsInv, BytesConserved, Committing, CachedBytes, BytesIn, BytesReceived
<1>4. NoMissedPart'
  BY DEF PartsInv, NoMissedPart, Available
<1>5. PICK start : PartsAreRuns(start)
  BY DEF PartsInv
<1>6. PartsAreRuns(start)'
  BY <1>5 DEF PartsAreRuns
<1>. QED
  BY <1>1, <1>2, <1>3, <1>4, <1>6 DEF PartsInv

LEMMA RotateKeeps ==
    ASSUME PartsInv, NEW force \in BOOLEAN, RotateIfDue(force)
    PROVE  PartsInv'
<1>1. PICK origin : origin = IF force THEN "shutdown" ELSE "tick"
  OBVIOUS
<1>2. origin \in {"push", "tick", "shutdown"}
  BY <1>1
<1>3. /\ TaskIdle /\ ingest_ended' \in {"no", "shutdown", "failed"}
      /\ UNCHANGED <<bytes_received, last_committed, part_cache, recorded, part_readers, bytes_lost>>
      /\ \/ TakeCurrent(gathered, origin)
         \/ UNCHANGED <<gathered, next_seq, committer>>
  BY <1>1 DEF RotateIfDue
<1>4. CASE TakeCurrent(gathered, origin)
  <2>1. PICK bytes, n : bytes = gathered /\ n = 0
    OBVIOUS
  <2>2. bytes \in Seq(Nat) /\ n \in Nat /\ Len(bytes) = Len(gathered) + n
    BY <2>1 DEF PartsInv, PartTypes
  <2>3. bytes_received' \in [PartStreams -> Nat] /\ BytesReceived' = BytesReceived + n
    <3>1. BytesReceived \in Nat
      BY SumsAreNumbers DEF PartsInv
    <3>2. BytesReceived' = BytesReceived
      BY <1>3 DEF BytesReceived
    <3>. QED
      BY <1>3, <2>1, <3>1, <3>2 DEF PartsInv, PartTypes
  <2>4. \A start : PartsAreRuns(start) =>
           Run(bytes, start[next_seq[ByteStream]], bytes_received'[ByteStream])
    BY <1>3, <2>1 DEF PartsAreRuns
  <2>5. TakeCurrent(bytes, origin)
    BY <1>4, <2>1
  <2>. QED
    BY <1>2, <1>3, <2>2, <2>3, <2>4, <2>5, TakeStep
<1>5. CASE UNCHANGED <<gathered, next_seq, committer>>
  BY <1>3, <1>5, PartsSameKeep
<1>. QED
  BY <1>3, <1>4, <1>5

LEMMA CommitPrefixedKeeps ==
    ASSUME PartsInv, NEW s \in PrefixedStreams, CommitPrefixed(s)
    PROVE  PartsInv'
<1>1. s \in PartStreams /\ s # ByteStream
  BY BytePartsAssumption DEF PartStreams
<1>2. PICK q, b, c, data : /\ q = next_seq[s] /\ b = bytes_received[s] + 1 /\ c = committer'
                           /\ data = <<b>>
  OBVIOUS
<1>3. /\ c = [step |-> "write", stream |-> s, seq |-> q, data |-> data, origin |-> "push"]
      /\ next_seq' = [next_seq EXCEPT ![s] = q + 1]
      /\ bytes_received' = [bytes_received EXCEPT ![s] = b]
      /\ TaskIdle
      /\ UNCHANGED <<gathered, last_committed, part_cache, recorded, ingest_ended, part_readers,
                     bytes_lost>>
  BY <1>2 DEF CommitPrefixed
<1>4. /\ next_seq \in [PartStreams -> Nat] /\ bytes_received \in [PartStreams -> Nat]
      /\ q \in Nat /\ b \in Nat
  BY <1>1, <1>2 DEF PartsInv, PartTypes
<1>5. data \in Seq(Nat) /\ Len(data) = 1
  BY <1>2, <1>4
<1>6. /\ next_seq' \in [PartStreams -> Nat] /\ bytes_received' \in [PartStreams -> Nat]
      /\ next_seq'[s] = q + 1 /\ next_seq'[ByteStream] = next_seq[ByteStream]
      /\ bytes_received'[ByteStream] = bytes_received[ByteStream]
      /\ \A x \in PartStreams : next_seq[x] <= next_seq'[x]
  <2>1. next_seq' \in [PartStreams -> Nat] /\ bytes_received' \in [PartStreams -> Nat]
    <3>1. q + 1 \in Nat
      BY <1>4
    <3>. QED
      BY <1>3, <1>4, <3>1
  <2>2. /\ next_seq'[s] = q + 1 /\ next_seq'[ByteStream] = next_seq[ByteStream]
        /\ bytes_received'[ByteStream] = bytes_received[ByteStream]
    BY <1>1, <1>3, <1>4, PartConstants
  <2>3. ASSUME NEW x \in PartStreams
        PROVE  next_seq[x] <= next_seq'[x]
    <3>1. next_seq'[x] = (IF x = s THEN q + 1 ELSE next_seq[x]) /\ next_seq[x] \in Nat
      BY <1>3, <1>4
    <3>. QED
      BY <1>2, <1>4, <3>1
  <2>. QED
    BY <2>1, <2>2, <2>3
<1>7. c \in PendingPart /\ c # NoCommit /\ c.step = "write" /\ c.stream = s /\ c.seq = q
      /\ c.data = data
  <2>1. c \in PendingPart
    BY <1>1, <1>3, <1>4, <1>5 DEF PendingPart
  <2>. QED
    BY <1>3, <2>1, IdleIsNot
<1>8. PartTypes'
  BY <1>2, <1>3, <1>6, <1>7 DEF PartsInv, PartTypes, SlotsOK
<1>9. PartsOrdered'
  <2>1. ASSUME NEW x \in PartStreams, NEW o \in DOMAIN part_cache[x]
        PROVE  o < next_seq'[x] /\ (x = s => o < q)
    <3>1. o < next_seq[x] /\ next_seq[x] \in Nat /\ next_seq'[x] \in Nat /\ o \in Nat
      BY <1>4, <1>6 DEF PartsInv, PartsOrdered, PartTypes, SlotsOK
    <3>2. next_seq[x] <= next_seq'[x]
      BY <1>6
    <3>. QED
      BY <1>2, <3>1, <3>2
  <2>. QED
    BY <1>1, <1>2, <1>3, <1>6, <1>7, <2>1 DEF PartsOrdered
<1>10. RecordsCached'
  BY <1>2, <1>3, <1>7, IdleTask DEF RecordsCached
<1>11. BytesConserved'
  <2>1. BytesReceived' = BytesReceived + 1
    <3>1. PICK f, g : f = bytes_received /\ g = [f EXCEPT ![s] = f[s] + 1]
      OBVIOUS
    <3>2. g = bytes_received' /\ f \in [PartStreams -> Nat]
      BY <1>2, <1>3, <1>4, <3>1
    <3>3. SumFunctionOnSet(g, PartStreams) = SumFunctionOnSet(f, PartStreams) + 1
      BY <1>1, <3>1, <3>2, OneMoreReceived
    <3>. QED
      BY <3>1, <3>2, <3>3 DEF BytesReceived
  <2>2. CachedBytes' = CachedBytes
    BY <1>3 DEF CachedBytes, BytesIn
  <2>3. Committing' = 1 /\ Committing = 0 /\ Len(gathered') = Len(gathered)
    BY <1>2, <1>3, <1>5, <1>7, IdleTask DEF Committing
  <2>4. CachedBytes \in Nat /\ bytes_lost \in Nat /\ Len(gathered) \in Nat
    BY SumsAreNumbers DEF PartsInv, PartTypes
  <2>5. KeptBytes' = KeptBytes + 1 /\ KeptBytes \in Nat
    <3>1. KeptBytes = Len(gathered) + 0 + CachedBytes + bytes_lost
      BY <2>3 DEF KeptBytes
    <3>2. KeptBytes' = Len(gathered) + 1 + CachedBytes + bytes_lost
      BY <1>3, <2>2, <2>3 DEF KeptBytes
    <3>. QED
      BY <2>4, <3>1, <3>2
  <2>. QED
    BY <1>6, <1>8, <2>1, <2>5, BytesMoved
<1>12. NoMissedPart'
  BY <1>3 DEF PartsInv, NoMissedPart, Available
<1>13. PICK start : PartsAreRuns(start)
  BY DEF PartsInv
<1>14. PartsAreRuns(start)'
  BY <1>1, <1>2, <1>3, <1>6, <1>7, <1>13 DEF PartsAreRuns
<1>. QED
  BY <1>8, <1>9, <1>10, <1>11, <1>12, <1>14 DEF PartsInv

\* The part that is being committed.
LEMMA PartCommitted ==
    ASSUME PartsInv, committer.step \in {"write", "record"}
    PROVE  /\ committer \in PendingPart /\ committer # NoCommit
           /\ committer.stream \in PartStreams /\ committer.seq \in Nat
           /\ committer.data \in Seq(Nat) /\ Len(committer.data) \in Nat
           /\ committer.seq + 1 = next_seq[committer.stream]
<1>1. committer \in PendingPart /\ committer # NoCommit
  BY IdleIsNot DEF PartsInv, PartTypes
<1>2. /\ committer.stream \in PartStreams /\ committer.seq \in Nat
      /\ committer.data \in Seq(Nat)
  BY <1>1 DEF PendingPart
<1>. QED
  BY <1>1, <1>2 DEF PartsInv, PartsOrdered

LEMMA WriteFailsKeeps ==
    ASSUME PartsInv, WriteFails
    PROVE  PartsInv'
<1>1. /\ committer.step = "write" /\ committer' = NoCommit
      /\ bytes_lost' = bytes_lost + Len(committer.data)
      /\ ingest_ended' \in {"no", "shutdown", "failed"}
      /\ UNCHANGED <<gathered, next_seq, bytes_received, last_committed, part_cache, recorded,
                     part_readers>>
  BY DEF WriteFails
<1>2. Len(committer.data) \in Nat
  BY <1>1, PartCommitted
<1>3. committer'.step # "write" /\ committer'.step # "record"
  BY <1>1, IdleIsNot
<1>4. PartTypes'
  BY <1>1, <1>2 DEF PartsInv, PartTypes, SlotsOK
<1>5. PartsOrdered'
  BY <1>1, <1>3 DEF PartsInv, PartsOrdered
<1>6. RecordsCached'
  BY <1>1, <1>3 DEF PartsInv, RecordsCached
<1>7. BytesConserved'
  <2>1. CachedBytes' = CachedBytes /\ BytesReceived' = BytesReceived
    BY <1>1 DEF CachedBytes, BytesIn, BytesReceived
  <2>2. Committing' = 0 /\ Committing = Len(committer.data)
    BY <1>1, <1>3 DEF Committing
  <2>3. /\ CachedBytes \in Nat /\ bytes_lost \in Nat /\ Len(gathered) \in Nat
        /\ BytesReceived \in Nat
    BY SumsAreNumbers DEF PartsInv, PartTypes
  <2>4. KeptBytes' = KeptBytes /\ KeptBytes \in Nat
    <3>1. KeptBytes = Len(gathered) + Len(committer.data) + CachedBytes + bytes_lost
      BY <2>2 DEF KeptBytes
    <3>2. KeptBytes' = Len(gathered) + 0 + CachedBytes + (bytes_lost + Len(committer.data))
      BY <1>1, <2>1, <2>2 DEF KeptBytes
    <3>3. PICK g \in Nat, l \in Nat, k \in Nat, b \in Nat :
             g = Len(gathered) /\ l = Len(committer.data) /\ k = CachedBytes /\ b = bytes_lost
      BY <1>2, <2>3
    <3>4. KeptBytes = g + l + k + b /\ KeptBytes' = g + 0 + k + (b + l)
      BY <3>1, <3>2, <3>3
    <3>. QED
      BY <3>4
  <2>5. PICK n \in Nat : n = 0
    OBVIOUS
  <2>6. \A s \in PartStreams : next_seq[s] <= next_seq'[s]
    BY <1>1 DEF PartsInv, PartTypes
  <2>7. BytesReceived' = BytesReceived + n /\ KeptBytes' = KeptBytes + n
    BY <2>1, <2>3, <2>4, <2>5
  <2>. QED
    BY <1>4, <2>4, <2>6, <2>7, BytesMoved
<1>8. NoMissedPart'
  BY <1>1 DEF PartsInv, NoMissedPart, Available
<1>9. PICK start : PartsAreRuns(start)
  BY DEF PartsInv
<1>10. PartsAreRuns(start)'
  BY <1>1, <1>3, <1>9 DEF PartsAreRuns
<1>. QED
  BY <1>4, <1>5, <1>6, <1>7, <1>8, <1>10 DEF PartsInv

\* The record keeps a window that ends in the part it adds.
LEMMA RecordedWithin ==
    ASSUME NEW S \in SUBSET Nat, NEW q \in Nat, \A o \in S : o < q
    PROVE  RecordedWith(S, q) = {o \in S \cup {q} : q - o < PartWindow}
<1>1. \E x \in S \cup {q} : \A y \in S \cup {q} : x >= y
  OBVIOUS
<1>2. PICK m : m = Max(S \cup {q})
  OBVIOUS
<1>3. m \in S \cup {q} /\ \A y \in S \cup {q} : m >= y
  BY <1>1, <1>2 DEF Max
<1>4. m = q
  BY <1>3
<1>. QED
  BY <1>2, <1>4 DEF RecordedWith

LEMMA RecordWrittenKeeps ==
    ASSUME PartsInv, RecordWritten
    PROVE  PartsInv'
<1>1. PICK c, s, q : c = committer /\ s = c.stream /\ q = c.seq
  OBVIOUS
<1>2. /\ c.step = "record" /\ committer' = NoCommit
      /\ last_committed' = LastCommitted(s, q)
      /\ recorded' = [recorded EXCEPT ![s] = RecordedWith(recorded[s], q)]
      /\ ingest_ended' \in {"no", "shutdown", "failed"}
      /\ UNCHANGED <<gathered, next_seq, bytes_received, part_cache, part_readers, bytes_lost>>
  BY <1>1 DEF RecordWritten, EndOf
<1>3. s \in PartStreams /\ q \in Nat
  BY <1>1, <1>2, PartCommitted
<1>4. recorded \in [PartStreams -> SUBSET Nat]
  BY DEF PartsInv, PartTypes
<1>5. /\ q \in DOMAIN part_cache[s]
      /\ \A o \in recorded[s] : o < q /\ (q - o < PartWindow => o \in DOMAIN part_cache[s])
  BY <1>1, <1>2, <1>3 DEF PartsInv, RecordsCached
<1>6. RecordedWith(recorded[s], q) = {o \in recorded[s] \cup {q} : q - o < PartWindow}
  BY <1>3, <1>4, <1>5, RecordedWithin
<1>7. RecordedWith(recorded[s], q) \subseteq DOMAIN part_cache[s]
  BY <1>5, <1>6
<1>8. RecordedWith(recorded[s], q) \in SUBSET Nat
  BY <1>3, <1>4, <1>6
<1>9. last_committed' \in Nat \cup {NoPart}
  <2>1. last_committed \in Int
    BY DEF PartsInv, PartTypes, NoPart
  <2>2. Max({q, last_committed}) = IF q >= last_committed THEN q ELSE last_committed
    BY <1>3, <2>1, MaxOfTwo
  <2>. QED
    BY <1>2, <1>3, <2>2 DEF LastCommitted, PartsInv, PartTypes
<1>10. committer'.step # "write" /\ committer'.step # "record"
  BY <1>2, IdleIsNot
<1>11. PartTypes'
  <2>1. recorded' \in [PartStreams -> SUBSET Nat]
    BY <1>2, <1>4, <1>8
  <2>. QED
    BY <1>2, <1>9, <2>1 DEF PartsInv, PartTypes, SlotsOK
<1>12. PartsOrdered'
  BY <1>2, <1>10 DEF PartsInv, PartsOrdered
<1>13. RecordsCached'
  <2>1. ASSUME NEW x \in PartStreams
        PROVE  recorded'[x] \subseteq DOMAIN part_cache[x]
    <3>1. CASE x = s
      BY <1>2, <1>4, <1>7, <3>1
    <3>2. CASE x # s
      BY <1>1, <1>2, <1>4, <3>2 DEF PartsInv, RecordsCached
    <3>. QED
      BY <3>1, <3>2
  <2>. QED
    BY <1>2, <1>10, <2>1 DEF RecordsCached
<1>14. BytesConserved'
  <2>1. Committing' = Committing
    BY <1>1, <1>2, <1>10 DEF Committing
  <2>. QED
    BY <1>2, <2>1 DEF PartsInv, BytesConserved, CachedBytes, BytesIn, BytesReceived
<1>15. NoMissedPart'
  BY <1>2 DEF PartsInv, NoMissedPart, Available
<1>16. PICK start : PartsAreRuns(start)
  BY DEF PartsInv
<1>17. PartsAreRuns(start)'
  BY <1>2, <1>10, <1>16 DEF PartsAreRuns
<1>. QED
  BY <1>11, <1>12, <1>13, <1>14, <1>15, <1>17 DEF PartsInv

\* The readers that wait for the part are woken, and nothing else about them changes.
LEMMA WokenFacts ==
    ASSUME PartsInv, NEW s, NEW q, NEW r \in PartReaders
    PROVE  /\ WakeWaiters(s, q)[r] \in PartRequest \cup {NoRequest}
           /\ WakeWaiters(s, q)[r] = part_readers[r]
                 \/ /\ part_readers[r] \in PartRequest
                    /\ WakeWaiters(s, q)[r] = [part_readers[r] EXCEPT !.notified = TRUE]
           /\ part_readers[r].step = "wait" /\ part_readers[r].stream = s /\ part_readers[r].seq = q
                 => WakeWaiters(s, q)[r].notified
<1>1. PICK d, e : d = part_readers[r] /\ e = WakeWaiters(s, q)[r]
  OBVIOUS
<1>2. d \in PartRequest \cup {NoRequest}
  BY <1>1 DEF PartsInv, PartTypes
<1>3. e = IF d.step \in {"recheck", "wait"} /\ d.stream = s /\ d.seq = q
          THEN [d EXCEPT !.notified = TRUE] ELSE d
  BY <1>1 DEF WakeWaiters
<1>4. CASE d.step \in {"recheck", "wait"} /\ d.stream = s /\ d.seq = q
  <2>1. d \in PartRequest
    BY <1>2, <1>4, IdleIsNot
  <2>2. e = [d EXCEPT !.notified = TRUE]
    BY <1>3, <1>4
  <2>3. e \in PartRequest /\ e.notified
    BY <2>1, <2>2 DEF PartRequest
  <2>. QED
    BY <1>1, <2>1, <2>2, <2>3
<1>5. CASE ~ (d.step \in {"recheck", "wait"} /\ d.stream = s /\ d.seq = q)
  BY <1>1, <1>2, <1>3, <1>5
<1>. QED
  BY <1>4, <1>5

\* The bytes of the cache when a part is written.
LEMMA CacheGrows ==
    ASSUME PartTypes, NEW s \in PartStreams, NEW table, SlotsOK(table), NEW n \in Nat,
           BytesIn(table) <= BytesIn(part_cache[s]) + n,
           part_cache' = [part_cache EXCEPT ![s] = table]
    PROVE  /\ CachedBytes' <= CachedBytes + n /\ CachedBytes' \in Nat
           /\ BytesIn(table) = BytesIn(part_cache[s]) + n => CachedBytes' = CachedBytes + n
<1>1. PICK f, g : /\ f = [x \in PartStreams |-> BytesIn(part_cache[x])]
                  /\ g = [x \in PartStreams |-> BytesIn(part_cache'[x])]
  OBVIOUS
<1>2. /\ CachedBytes = SumFunctionOnSet(f, PartStreams)
      /\ CachedBytes' = SumFunctionOnSet(g, PartStreams)
  BY <1>1 DEF CachedBytes, BytesIn
<1>3. g[s] = BytesIn(table) /\ f[s] = BytesIn(part_cache[s])
  BY <1>1 DEF PartTypes
<1>4. \A x \in PartStreams \ {s} : g[x] = f[x]
  BY <1>1 DEF PartTypes
<1>5. g[s] \in Nat /\ f[s] \in Nat
  BY <1>3, BytesAreNumbers DEF PartTypes
<1>6. \A x \in PartStreams : f[x] \in Nat
  BY <1>1, BytesAreNumbers DEF PartTypes
<1>7. \A x \in PartStreams : g[x] \in Nat
  BY <1>4, <1>5, <1>6
<1>8. SumFunctionOnSet(f, PartStreams) = f[s] + SumFunctionOnSet(f, PartStreams \ {s})
  BY <1>6, PartConstants, SumRemove
<1>9. SumFunctionOnSet(g, PartStreams) = g[s] + SumFunctionOnSet(g, PartStreams \ {s})
  BY <1>7, PartConstants, SumRemove
<1>10. IsFiniteSet(PartStreams \ {s})
  BY PartConstants, FS_RemoveElement
<1>11. SumFunctionOnSet(g, PartStreams \ {s}) = SumFunctionOnSet(f, PartStreams \ {s})
  BY <1>4, <1>10, SumSame
<1>12. SumFunctionOnSet(f, PartStreams \ {s}) \in Nat
  <2>1. \A x \in PartStreams \ {s} : f[x] \in Nat
    BY <1>6
  <2>. QED
    BY <1>10, <2>1, SumRemove
<1>13. PICK a \in Nat, b \in Nat, k \in Nat : /\ a = f[s] /\ b = g[s]
                                              /\ k = SumFunctionOnSet(f, PartStreams \ {s})
  BY <1>5, <1>12
<1>14. CachedBytes = a + k /\ CachedBytes' = b + k /\ b <= a + n
  BY <1>2, <1>3, <1>8, <1>9, <1>11, <1>13
<1>15. BytesIn(table) = BytesIn(part_cache[s]) + n => b = a + n
  BY <1>3, <1>13
<1>. QED
  BY <1>14, <1>15

LEMMA WritePartKeeps ==
    ASSUME PartsInv, WritePart
    PROVE  PartsInv'
<1>1. PICK c, s, q, data, table, new :
         /\ c = committer /\ s = c.stream /\ q = c.seq /\ data = c.data
         /\ table = part_cache[s] /\ new = Written(table, q, data)
  OBVIOUS
<1>2. /\ c.step = "write" /\ part_cache' = [part_cache EXCEPT ![s] = new]
      /\ part_readers' = WakeWaiters(s, q) /\ committer' = [c EXCEPT !.step = "record"]
      /\ UNCHANGED <<gathered, next_seq, bytes_received, last_committed, recorded, ingest_ended,
                     bytes_lost>>
  BY <1>1 DEF WritePart
<1>3. /\ c \in PendingPart /\ s \in PartStreams /\ q \in Nat /\ data \in Seq(Nat)
      /\ Len(data) \in Nat /\ q + 1 = next_seq[s]
  BY <1>1, <1>2, PartCommitted
<1>4. SlotsOK(table) /\ \A o \in DOMAIN table : o < q
  BY <1>1, <1>2, <1>3 DEF PartsInv, PartTypes, PartsOrdered
<1>5. /\ SlotsOK(new) /\ DOMAIN new = {o \in DOMAIN table : q - o < PartWindow} \cup {q}
      /\ new[q] = data /\ \A o \in DOMAIN table : q - o < PartWindow => new[o] = table[o]
      /\ BytesIn(new) <= BytesIn(table) + Len(data)
      /\ q < PartWindow => BytesIn(new) = BytesIn(table) + Len(data)
  <2>1. /\ SlotsOK(Written(table, q, data))
        /\ DOMAIN Written(table, q, data) = {o \in DOMAIN table : q - o < PartWindow} \cup {q}
        /\ Written(table, q, data)[q] = data
        /\ \A o \in DOMAIN table : q - o < PartWindow => Written(table, q, data)[o] = table[o]
        /\ BytesIn(Written(table, q, data)) <= BytesIn(table) + Len(data)
        /\ q < PartWindow => BytesIn(Written(table, q, data)) = BytesIn(table) + Len(data)
    BY <1>3, <1>4, WrittenFacts
  <2>. QED
    BY <1>1, <2>1
<1>6. /\ DOMAIN part_cache = PartStreams /\ DOMAIN part_cache' = PartStreams
      /\ part_cache'[s] = new /\ \A x \in PartStreams : x # s => part_cache'[x] = part_cache[x]
  BY <1>2, <1>3 DEF PartsInv, PartTypes
<1>7. /\ committer' \in PendingPart /\ committer' # NoCommit /\ committer'.step = "record"
      /\ committer'.stream = s /\ committer'.seq = q /\ committer'.data = data
  <2>1. /\ committer' \in PendingPart /\ committer'.step = "record"
        /\ committer'.stream = s /\ committer'.seq = q /\ committer'.data = data
    BY <1>1, <1>2, <1>3 DEF PendingPart
  <2>. QED
    BY <2>1, IdleIsNot
<1>8. PartTypes'
  <2>1. \A x \in PartStreams : SlotsOK(part_cache'[x])
    BY <1>5, <1>6 DEF PartsInv, PartTypes
  <2>2. part_readers' \in [PartReaders -> PartRequest \cup {NoRequest}]
    <3>1. \A r \in PartReaders : part_readers'[r] \in PartRequest \cup {NoRequest}
      BY <1>2, WokenFacts
    <3>2. part_readers' = [r \in PartReaders |-> part_readers'[r]]
      BY <1>2 DEF WakeWaiters
    <3>. QED
      BY <3>1, <3>2
  <2>. QED
    BY <1>2, <1>6, <1>7, <2>1, <2>2 DEF PartsInv, PartTypes, SlotsOK
<1>9. PartsOrdered'
  <2>1. ASSUME NEW x \in PartStreams, NEW o \in DOMAIN part_cache'[x]
        PROVE  o < next_seq[x]
    <3>1. CASE x = s
      <4>1. o \in DOMAIN table \/ o = q
        BY <1>5, <1>6, <2>1, <3>1
      <4>2. CASE o \in DOMAIN table
        BY <1>1, <3>1, <4>2 DEF PartsInv, PartsOrdered
      <4>3. CASE o = q
        BY <1>3, <3>1, <4>3
      <4>. QED
        BY <4>1, <4>2, <4>3
    <3>2. CASE x # s
      BY <1>6, <2>1, <3>2 DEF PartsInv, PartsOrdered
    <3>. QED
      BY <3>1, <3>2
  <2>. QED
    BY <1>2, <1>3, <1>7, <2>1 DEF PartsOrdered
<1>10. RecordsCached'
  <2>1. \A x \in PartStreams : recorded[x] \subseteq DOMAIN part_cache[x]
    BY <1>1, <1>2 DEF PartsInv, RecordsCached
  <2>2. q \in DOMAIN part_cache'[s]
    BY <1>5, <1>6
  <2>3. ASSUME NEW o \in recorded[s]
        PROVE  o < q /\ (q - o < PartWindow => o \in DOMAIN part_cache'[s])
    BY <1>1, <1>3, <1>4, <1>5, <1>6, <2>1
  <2>4. ASSUME NEW x \in PartStreams, x # s
        PROVE  recorded[x] \subseteq DOMAIN part_cache'[x]
    BY <1>6, <2>1, <2>4
  <2>. QED
    BY <1>2, <1>7, <2>2, <2>3, <2>4 DEF RecordsCached
<1>11. BytesConserved'
  <2>1. PICK n \in Nat, z \in Nat : n = Len(data) /\ z = 0
    BY <1>3
  <2>2. BytesIn(new) <= BytesIn(part_cache[s]) + n
    BY <1>1, <1>5, <2>1
  <2>3. /\ CachedBytes' <= CachedBytes + n /\ CachedBytes' \in Nat
        /\ BytesIn(new) = BytesIn(part_cache[s]) + n => CachedBytes' = CachedBytes + n
    BY <1>2, <1>3, <1>5, <2>2, CacheGrows DEF PartsInv
  <2>4. WithinWindow' => CachedBytes' = CachedBytes + n
    <3>1. SUFFICES ASSUME WithinWindow'
                   PROVE  q < PartWindow
      BY <1>1, <1>5, <2>1, <2>3
    <3>2. next_seq'[s] <= PartWindow
      BY <1>3, <3>1 DEF WithinWindow
    <3>. QED
      BY <1>2, <1>3, <3>2, PartConstants
  <2>5. Committing = n /\ Committing' = 0 /\ BytesReceived' = BytesReceived
    BY <1>1, <1>2, <1>7, <2>1 DEF Committing, BytesReceived
  <2>6. PICK a \in Nat, b \in Nat, k \in Nat, m \in Nat :
           a = Len(gathered) /\ b = bytes_lost /\ k = CachedBytes /\ m = CachedBytes'
    <3>1. Len(gathered) \in Nat /\ bytes_lost \in Nat
      BY DEF PartsInv, PartTypes
    <3>2. CachedBytes \in Nat
      BY SumsAreNumbers DEF PartsInv
    <3>. QED
      BY <2>3, <3>1, <3>2
  <2>7. KeptBytes = a + n + k + b /\ KeptBytes' = a + 0 + m + b
    BY <1>2, <2>5, <2>6 DEF KeptBytes
  <2>8. m <= k + n /\ (WithinWindow' => m = k + n)
    BY <2>3, <2>4, <2>6
  <2>9. KeptBytes' <= KeptBytes + z /\ (WithinWindow' => KeptBytes' = KeptBytes + z)
    BY <2>1, <2>7, <2>8
  <2>10. BytesReceived' = BytesReceived + z
    <3>1. BytesReceived \in Nat
      BY SumsAreNumbers DEF PartsInv
    <3>. QED
      BY <2>1, <2>5, <3>1
  <2>11. \A x \in PartStreams : next_seq[x] <= next_seq'[x]
    BY <1>2 DEF PartsInv, PartTypes
  <2>. QED
    BY <1>8, <2>9, <2>10, <2>11, BytesMoved
<1>12. ASSUME NEW r \in PartReaders
       PROVE  /\ part_readers'[r] = NoRequest <=> part_readers[r] = NoRequest
              /\ part_readers[r] # NoRequest =>
                    /\ part_readers'[r].step = part_readers[r].step
                    /\ part_readers'[r].stream = part_readers[r].stream
                    /\ part_readers'[r].seq = part_readers[r].seq
                    /\ part_readers'[r].body = part_readers[r].body
                    /\ part_readers[r].notified => part_readers'[r].notified
  <2>1. PICK d, e : d = part_readers[r] /\ e = part_readers'[r]
    OBVIOUS
  <2>2. e = d \/ (d \in PartRequest /\ e = [d EXCEPT !.notified = TRUE])
    BY <1>2, <2>1, WokenFacts
  <2>3. CASE e = d
    BY <2>1, <2>3
  <2>4. CASE d \in PartRequest /\ e = [d EXCEPT !.notified = TRUE]
    <3>1. /\ e \in PartRequest /\ e.step = d.step /\ e.stream = d.stream /\ e.seq = d.seq
          /\ e.body = d.body /\ e.notified
      BY <2>4 DEF PartRequest
    <3>. QED
      BY <2>1, <2>4, <3>1, IdleIsNot
  <2>. QED
    BY <2>2, <2>3, <2>4
<1>13. NoMissedPart'
  <2>1. SUFFICES ASSUME NEW r \in PartReaders, part_readers'[r].step = "wait",
                        part_readers'[r].seq \in DOMAIN part_cache'[part_readers'[r].stream]
                 PROVE  part_readers'[r].notified
    BY DEF NoMissedPart, Available
  <2>2. PICK d : d = part_readers[r]
    OBVIOUS
  <2>3. part_readers[r] # NoRequest
    BY <1>12, <2>1, IdleIsNot
  <2>4. /\ d.step = "wait" /\ d.stream \in PartStreams
        /\ d.seq \in DOMAIN part_cache'[d.stream]
    BY <1>12, <2>1, <2>2, <2>3 DEF PartsInv, PartTypes, PartRequest
  <2>5. CASE d.stream = s /\ d.seq = q
    BY <1>2, <2>2, <2>4, <2>5, WokenFacts
  <2>6. CASE ~ (d.stream = s /\ d.seq = q)
    <3>1. d.seq \in DOMAIN part_cache[d.stream]
      BY <1>1, <1>5, <1>6, <2>4, <2>6
    <3>2. d.notified
      BY <2>2, <2>4, <3>1 DEF PartsInv, NoMissedPart, Available
    <3>. QED
      BY <1>12, <2>2, <2>3, <3>2
  <2>. QED
    BY <2>5, <2>6
<1>14. PICK start : PartsAreRuns(start)
  BY DEF PartsInv
<1>15. ASSUME NEW o \in DOMAIN part_cache'[ByteStream]
       PROVE  Run(part_cache'[ByteStream][o], start[o], start[o + 1])
  <2>1. CASE s # ByteStream
    BY <1>6, <1>14, <1>15, <2>1, PartConstants DEF PartsAreRuns
  <2>2. CASE s = ByteStream /\ o = q
    <3>1. Run(data, start[q], start[q + 1])
      BY <1>1, <1>2, <1>14, <2>2 DEF PartsAreRuns
    <3>. QED
      BY <1>5, <1>6, <2>2, <3>1
  <2>3. CASE s = ByteStream /\ o # q
    <3>1. o \in DOMAIN table /\ part_cache'[ByteStream][o] = table[o]
      BY <1>5, <1>6, <1>15, <2>3
    <3>2. Run(table[o], start[o], start[o + 1])
      BY <1>1, <1>14, <2>3, <3>1 DEF PartsAreRuns
    <3>. QED
      BY <3>1, <3>2
  <2>. QED
    BY <2>1, <2>2, <2>3
<1>16. ASSUME NEW r \in PartReaders, part_readers'[r] # NoRequest
       PROVE  ReadsRun(part_readers'[r], start, next_seq'[ByteStream])
  <2>1. PICK d, e : d = part_readers[r] /\ e = part_readers'[r]
    OBVIOUS
  <2>2. d # NoRequest /\ e.step = d.step /\ e.stream = d.stream /\ e.seq = d.seq /\ e.body = d.body
    BY <1>12, <1>16, <2>1
  <2>3. ReadsRun(d, start, next_seq[ByteStream])
    BY <1>14, <2>1, <2>2 DEF PartsAreRuns
  <2>4. ReadsRun(e, start, next_seq[ByteStream])
    BY <2>2, <2>3 DEF ReadsRun
  <2>. QED
    BY <1>2, <2>1, <2>4
<1>17. PartsAreRuns(start)'
  <2>1. start \in [Nat -> Nat] /\ Run(gathered', start[next_seq'[ByteStream]], bytes_received'[ByteStream])
    BY <1>2, <1>14 DEF PartsAreRuns
  <2>. QED
    BY <1>7, <1>15, <1>16, <2>1 DEF PartsAreRuns
<1>. QED
  BY <1>8, <1>9, <1>10, <1>11, <1>13, <1>17 DEF PartsInv

-----------------------------------------------------------------------------
LEMMA PartsInitInv == PartsInit => PartsInv
<1>. SUFFICES ASSUME PartsInit
              PROVE  PartsInv
  OBVIOUS
<1>1. /\ gathered = <<>> /\ next_seq = [s \in PartStreams |-> 0]
      /\ bytes_received = [s \in PartStreams |-> 0] /\ bytes_lost = 0
      /\ last_committed = NoPart /\ part_cache = [s \in PartStreams |-> EmptyMap]
      /\ recorded = [s \in PartStreams |-> {}] /\ committer = NoCommit /\ ingest_ended = "no"
      /\ part_readers = [r \in PartReaders |-> NoRequest]
  BY DEF PartsInit
<1>2. DOMAIN EmptyMap = {} /\ SlotsOK(EmptyMap)
  <2>1. DOMAIN EmptyMap = {}
    BY DEF EmptyMap
  <2>2. IsFiniteSet({})
    BY FS_EmptySet
  <2>. QED
    BY <2>1, <2>2 DEF SlotsOK
<1>3. PartTypes
  BY <1>1, <1>2, PartConstants DEF PartTypes
<1>4. committer.step = "idle"
  BY <1>1, IdleIsNot
<1>5. PartsOrdered /\ RecordsCached
  BY <1>1, <1>2, <1>4 DEF PartsOrdered, RecordsCached
<1>6. BytesConserved
  <2>1. PICK e, z : e = {} /\ z = 0
    OBVIOUS
  <2>2. \A f : (\A s \in PartStreams : f[s] = 0) => SumFunctionOnSet(f, PartStreams) = 0
    BY SumOfZeros, PartConstants
  <2>3. BytesReceived = 0
    BY <1>1, <2>2 DEF BytesReceived
  <2>4. BytesIn(EmptyMap) = 0
    BY <1>2, SumOfZeros DEF BytesIn, SlotsOK
  <2>5. CachedBytes = 0
    <3>1. PICK f : f = [s \in PartStreams |-> BytesIn(part_cache[s])]
      OBVIOUS
    <3>2. \A s \in PartStreams : f[s] = 0
      BY <1>1, <2>4, <3>1
    <3>3. SumFunctionOnSet(f, PartStreams) = 0
      BY <2>2, <3>2
    <3>. QED
      BY <3>1, <3>3 DEF CachedBytes
  <2>6. Committing = 0 /\ Len(gathered) = 0 /\ bytes_lost = 0
    BY <1>1, <1>4 DEF Committing
  <2>. QED
    BY <2>3, <2>5, <2>6 DEF BytesConserved
<1>7. NoMissedPart
  BY <1>1, IdleIsNot DEF NoMissedPart
<1>8. PICK start : start = [q \in Nat |-> 0]
  OBVIOUS
<1>9. PartsAreRuns(start)
  <2>1. start \in [Nat -> Nat] /\ start[0] = 0
    BY <1>8
  <2>2. next_seq[ByteStream] = 0 /\ bytes_received[ByteStream] = 0
    BY <1>1, PartConstants
  <2>3. Run(gathered, start[next_seq[ByteStream]], bytes_received[ByteStream])
    BY <1>1, <2>1, <2>2 DEF Run
  <2>. QED
    BY <1>1, <1>2, <1>4, <2>1, <2>3, PartConstants DEF PartsAreRuns
<1>. QED
  BY <1>3, <1>5, <1>6, <1>7, <1>9 DEF PartsInv

LEMMA PartsStep == PartsInv /\ [PartsNext]_partVars => PartsInv'
<1>. SUFFICES ASSUME PartsInv, [PartsNext]_partVars
              PROVE  PartsInv'
  OBVIOUS
<1>1. CASE PushPayload
  BY <1>1, PushPayloadKeeps
<1>2. CASE WritePart
  BY <1>2, WritePartKeeps
<1>3. CASE WriteFails
  BY <1>3, WriteFailsKeeps
<1>4. CASE RecordWritten
  BY <1>4, RecordWrittenKeeps
<1>5. CASE PartElapse
  <2>1. ingest_ended' \in {"no", "shutdown", "failed"}
    BY <1>5 DEF PartElapse, PartsInv, PartTypes
  <2>. QED
    BY <1>5, <2>1, PartsSameKeep DEF PartElapse
<1>6. CASE \E force \in BOOLEAN : RotateIfDue(force)
  BY <1>6, RotateKeeps
<1>7. CASE \E s \in PrefixedStreams : CommitPrefixed(s)
  BY <1>7, CommitPrefixedKeeps
<1>8. ASSUME NEW r \in PartReaders, \E s \in PartStreams, q \in 0 .. ByteLimit : RequestPart(r, s, q)
      PROVE  PartsInv'
  BY <1>8, RequestPartKeeps
<1>9. ASSUME NEW r \in PartReaders,
             \E s \in PartStreams, g \in 0 .. ByteLimit \div SegmentParts : RequestSegment(r, s, g)
      PROVE  PartsInv'
  BY <1>9, RequestSegmentKeeps
<1>10. ASSUME NEW r \in PartReaders, LookUpPart(r) \/ RecheckPart(r)
       PROVE  PartsInv'
  BY <1>10, LookUpKeeps
<1>11. ASSUME NEW r \in PartReaders,
              ServePart(r) \/ (\E b \in BOOLEAN : WakeOrGiveUp(r, b) \/ RegisterWaiter(r, b))
       PROVE  PartsInv'
  BY <1>11, WaiterKeeps
<1>12. CASE UNCHANGED partVars
  <2>1. ingest_ended' \in {"no", "shutdown", "failed"}
    BY <1>12 DEF partVars, PartsInv, PartTypes
  <2>. QED
    BY <1>12, <2>1, PartsSameKeep DEF partVars
<1>. QED
  BY <1>1, <1>2, <1>3, <1>4, <1>5, <1>6, <1>7, <1>8, <1>9, <1>10, <1>11, <1>12 DEF PartsNext

\* The inductive invariant of the byte parts, whatever the readers do while a
\* part is taken, written and recorded (main.rs:4305-4384, 5600-5731).
THEOREM PartsInvariant == PartsSpec => []PartsInv
<1>. QED
  BY PartsInitInv, PartsStep, PTL DEF PartsSpec

\* Byte parts lose no byte unnoticed and give none twice, what a reader gathers
\* of the configured stream is one run of it, no reader sleeps on a part that is
\* there, and what is recorded is cached (main.rs:4305-4384, 4655-4713,
\* 5600-5731, 6321-6346).
THEOREM PartsCorrect == PartsSpec => []BytePartsCorrect
<1>1. PartsInv => BytePartsCorrect
  <2>. SUFFICES ASSUME PartsInv
                PROVE  BytePartsCorrect
    OBVIOUS
  <2>1. PICK start : PartsAreRuns(start)
    BY DEF PartsInv
  <2>2. SegmentIsRun
    BY <2>1 DEF PartsAreRuns, ReadsRun, Consecutive, SegmentIsRun
  <2>3. RecordedIsCached
    BY DEF PartsInv, RecordsCached, RecordedIsCached
  <2>. QED
    BY <2>2, <2>3 DEF PartsInv, PartTypes, BytePartsCorrect
<1>. QED
  BY <1>1, PartsInvariant, PTL

(***************************************************************************)
(* The master playlist.                                                    *)
(***************************************************************************)

\* Every entry of s is in S.
DrawnOf(s, S) == \A i \in 1 .. Len(s) : s[i] \in S

MasterSteps == {"alternatives", "renditions", "elsewhere", "answer"}

\* What the variants of an answer may be.
Offered(variants, busy, master, eligible, fresh) ==
    \A i \in 1 .. Len(variants) :
        /\ IF variants[i].uri = LocalUri THEN ~busy ELSE variants[i].uri \in eligible
        /\ variants[i].stream # master => variants[i].stream \in fresh

\* The request in progress is put together from what was seen while it was.
RequestOf(q, eligible, fresh) ==
    /\ q \in [step : MasterSteps, master : Masters, overloaded : BOOLEAN,
              alternatives : Seq(PlaybackUrls), todo : Seq(Renditions) \cup Seq(RenditionStreams),
              active : Seq(RenditionStreams), variants : Seq([uri : Nat, stream : RenditionStreams])]
    /\ DrawnOf(q.alternatives, eligible) /\ DrawnOf(q.active, fresh)
    /\ Len(q.alternatives) <= AlternativeLimit /\ IsInjective(q.alternatives)
    /\ Offered(q.variants, q.overloaded, q.master, eligible, fresh)
    /\ q.step = "alternatives" => q.todo \in Seq(Renditions) /\ q.variants = <<>>
    /\ q.step = "renditions" =>
          q.todo \in Seq(Renditions) /\ q.variants = <<>> /\ q.master \notin PlainMasters
    /\ q.step = "elsewhere" =>
          /\ q.todo \in Seq(RenditionStreams) /\ DrawnOf(q.todo, fresh) /\ q.overloaded
          /\ q.master \notin PlainMasters
    /\ q.step = "answer" /\ q.master \notin PlainMasters =>
          ~q.overloaded /\ Len(q.variants) = Len(q.active)

AnswerOf(a, rejections, eligible, fresh) ==
    /\ a.status \in {200, 429, 503}
    /\ a.alternatives \in Seq(PlaybackUrls) /\ a.variants \in Seq([uri : Nat, stream : Nat])
    /\ Len(a.alternatives) <= AlternativeLimit /\ IsInjective(a.alternatives)
    /\ Offered(a.variants, a.overloaded, a.master, eligible, fresh)
    /\ (rejections = 1) <=> a.status \in {429, 503}
    /\ a.status = 429 => a.overloaded /\ a.alternatives = <<>>
    /\ a.status = 503 => a.overloaded \/ a.active = <<>>

HlsTypes ==
    /\ edge_reports \in [RegionEdges -> EdgeReports] /\ hls_overloaded \in BOOLEAN
    /\ last_ingest \in [RenditionStreams -> Int] /\ hls_now \in 0 .. HlsTimeLimit

\* What is seen includes what is to be seen now.
SeenNow ==
    InProgress => /\ EligibleUrls(edge_reports) \subseteq eligible_seen
                  /\ FreshStreams(last_ingest, hls_now) \subseteq fresh_seen

HlsInv ==
    /\ HlsTypes /\ SeenNow
    /\ InProgress => /\ RequestOf(hls_request, eligible_seen, fresh_seen)
                     /\ hls_answer = NoAnswer /\ hls_rejections = 0
    /\ Answered => AnswerOf(hls_answer, hls_rejections, eligible_seen, fresh_seen)

\* The edges are ranked, each of them one a player may be sent to.
LEMMA RankedAreEligible ==
    ASSUME NEW reports \in [RegionEdges -> EdgeReports]
    PROVE  /\ Ranked(reports) \in Seq({e \in RegionEdges : Eligible(reports[e])})
           /\ Len(Ranked(reports)) \in Nat
<1>1. PICK S : S = {e \in RegionEdges : Eligible(reports[e])}
  OBVIOUS
<1>2. PICK R : R = {p \in S \X S : \/ reports[p[1]].load < reports[p[2]].load
                                   \/ reports[p[1]].load = reports[p[2]].load /\ p[1] < p[2]}
  OBVIOUS
<1>3. Ranked(reports) = InOrder(S, R)
  BY <1>1, <1>2 DEF Ranked
<1>4. IsFiniteSet(S) /\ S \subseteq Nat
  BY <1>1, FS_Subset, HlsAssumption
<1>5. \A e \in S : reports[e].load \in Nat
  <2>1. SUFFICES ASSUME NEW e \in S
                 PROVE  reports[e].load \in Nat
    OBVIOUS
  <2>2. reports[e] \in EdgeReports /\ reports[e].known
    BY <1>1 DEF Eligible
  <2>3. reports[e] \in EdgeStates
    BY <2>2 DEF EdgeReports, NoEdgeReport
  <2>. QED
    BY <2>3, HlsAssumption
<1>6. \A x, y \in S : <<x, y>> \in R <=> \/ reports[x].load < reports[y].load
                                         \/ reports[x].load = reports[y].load /\ x < y
  BY <1>2
<1>7. Orders(R, S)
  BY <1>4, <1>5, <1>6 DEF Orders
<1>8. InOrder(S, R) \in Seq(S) /\ Len(InOrder(S, R)) = Cardinality(S) /\ Cardinality(S) \in Nat
  BY <1>4, <1>7, InOrderLists
<1>. QED
  BY <1>1, <1>3, <1>8

\* The renditions of a master are listed.
LEMMA CatalogLists ==
    ASSUME NEW master
    PROVE  Catalog(master) \in Seq(Renditions)
<1>1. PICK S : S = {r \in Renditions : r.master = master}
  OBVIOUS
<1>2. PICK R : R = {p \in S \X S : \/ p[1].bandwidth > p[2].bandwidth
                                   \/ p[1].bandwidth = p[2].bandwidth /\ p[1].stream < p[2].stream}
  OBVIOUS
<1>3. Catalog(master) = InOrder(S, R)
  BY <1>1, <1>2 DEF Catalog
<1>4. IsFiniteSet(S) /\ S \subseteq Renditions
  BY <1>1, FS_Subset, HlsAssumption
<1>5. \A r \in S : r \in [master : {master}, stream : Nat, bandwidth : Nat]
  BY <1>1, HlsAssumption
<1>6. \A x, y \in S : <<x, y>> \in R <=> \/ x.bandwidth > y.bandwidth
                                         \/ x.bandwidth = y.bandwidth /\ x.stream < y.stream
  BY <1>2
<1>7. \A x, y \in S : x.bandwidth = y.bandwidth /\ x.stream = y.stream => x = y
  BY <1>5
<1>8. \A x \in S : x.bandwidth \in Nat /\ x.stream \in Nat
  BY <1>5
<1>9. Orders(R, S)
  BY <1>6, <1>7, <1>8 DEF Orders
<1>10. InOrder(S, R) \in Seq(S)
  BY <1>4, <1>9, InOrderLists
<1>11. InOrder(S, R) \in Seq(Renditions)
  BY <1>4, <1>10
<1>. QED
  BY <1>3, <1>11

\* The URLs of other edges: each once, of an edge that is open, and no more than
\* the limit.
LEMMA AlternativesSound ==
    ASSUME NEW reports \in [RegionEdges -> EdgeReports]
    PROVE  /\ Alternatives(reports) \in Seq(PlaybackUrls)
           /\ DrawnOf(Alternatives(reports), EligibleUrls(reports))
           /\ Len(Alternatives(reports)) <= AlternativeLimit
           /\ IsInjective(Alternatives(reports))
<1>. DEFINE ranked == Ranked(reports)
            first  == {i \in DOMAIN ranked :
                          \A j \in 1 .. i - 1 : reports[ranked[j]].url # reports[ranked[i]].url}
            Q      == {p \in first \X first : p[1] < p[2]}
            places == InOrder(first, Q)
            urls   == [n \in DOMAIN places |-> reports[ranked[places[n]]].url]
<1>1. Alternatives(reports) = SubSeq(urls, 1, IF Len(urls) < AlternativeLimit THEN Len(urls) ELSE AlternativeLimit)
  BY DEF Alternatives
<1>2. /\ ranked \in Seq({e \in RegionEdges : Eligible(reports[e])}) /\ Len(ranked) \in Nat
      /\ DOMAIN ranked = 1 .. Len(ranked)
  BY RankedAreEligible
<1>3. first = {i \in DOMAIN ranked :
                  \A j \in 1 .. i - 1 : reports[ranked[j]].url # reports[ranked[i]].url}
  OBVIOUS
<1>4. Q = {p \in first \X first : p[1] < p[2]}
  OBVIOUS
<1>5. places = InOrder(first, Q)
  OBVIOUS
<1>6. urls = [n \in DOMAIN places |-> reports[ranked[places[n]]].url]
  OBVIOUS
<1>. HIDE DEF ranked, first, Q, places, urls
<1>8. first \subseteq 1 .. Len(ranked) /\ first \in SUBSET Int
  BY <1>2, <1>3
<1>9. IsFiniteSet(first)
  <2>1. IsFiniteSet(1 .. Len(ranked))
    BY <1>2, FS_Interval
  <2>. QED
    BY <1>8, <2>1, FS_Subset
<1>10. \A x, y \in first : <<x, y>> \in Q <=> x < y
  BY <1>4
<1>11. PICK c : c = Cardinality(first)
  OBVIOUS
<1>12. /\ places \in Seq(first) /\ Len(places) = c /\ c \in Nat
       /\ \A i, j \in 1 .. c : i < j => places[i] < places[j]
  BY <1>5, <1>8, <1>9, <1>10, <1>11, NumbersInOrder
<1>13. DOMAIN places = 1 .. c /\ \A n \in 1 .. c : places[n] \in first
  BY <1>12
<1>14. ASSUME NEW e \in RegionEdges, Eligible(reports[e])
       PROVE  reports[e].url \in PlaybackUrls /\ reports[e].url \in EligibleUrls(reports)
  <2>1. reports[e] \in EdgeReports /\ reports[e].known
    BY <1>14 DEF Eligible
  <2>2. reports[e] \in EdgeStates /\ reports[e] # NoEdgeReport
    BY <2>1 DEF EdgeReports, NoEdgeReport
  <2>3. reports[e].url \in PlaybackUrls
    BY <1>14, <2>2, HlsAssumption DEF Eligible
  <2>4. reports[e].edge /\ ~(reports[e].draining \/ reports[e].overloaded)
    BY <1>14 DEF Eligible
  <2>5. reports[e].url \in EligibleUrls(reports)
    BY <2>2, <2>4, Zenon DEF EligibleUrls
  <2>. QED
    BY <2>3, <2>5
<1>15. ASSUME NEW n \in 1 .. c
       PROVE  /\ urls[n] = reports[ranked[places[n]]].url
              /\ urls[n] \in PlaybackUrls /\ urls[n] \in EligibleUrls(reports)
  <2>1. urls[n] = reports[ranked[places[n]]].url
    BY <1>6, <1>13
  <2>2. places[n] \in 1 .. Len(ranked)
    BY <1>8, <1>13
  <2>3. ranked[places[n]] \in {e \in RegionEdges : Eligible(reports[e])}
    BY <1>2, <2>2
  <2>. QED
    BY <1>14, <2>1, <2>3
<1>16. urls \in Seq(PlaybackUrls) /\ Len(urls) = c
  <2>1. urls = [n \in 1 .. c |-> urls[n]]
    BY <1>6, <1>13
  <2>. QED
    BY <1>12, <1>15, <2>1
<1>17. ASSUME NEW i \in 1 .. c, NEW j \in 1 .. c, i < j
       PROVE  urls[i] # urls[j]
  <2>1. places[i] < places[j] /\ places[i] \in first /\ places[j] \in first
    BY <1>12, <1>13, <1>17
  <2>2. places[i] \in 1 .. places[j] - 1
    <3>1. PICK x, y : x = places[i] /\ y = places[j]
      OBVIOUS
    <3>2. x \in 1 .. Len(ranked) /\ y \in 1 .. Len(ranked) /\ x < y
      BY <1>8, <2>1, <3>1
    <3>3. x \in 1 .. y - 1
      BY <1>2, <3>2
    <3>. QED
      BY <3>1, <3>3
  <2>3. reports[ranked[places[i]]].url # reports[ranked[places[j]]].url
    BY <1>3, <2>1, <2>2
  <2>. QED
    BY <1>15, <2>3
<1>18. PICK m, a : /\ m = (IF Len(urls) < AlternativeLimit THEN Len(urls) ELSE AlternativeLimit)
                   /\ a = SubSeq(urls, 1, m)
  OBVIOUS
<1>19. m \in Nat /\ m <= c /\ m <= AlternativeLimit
  BY <1>12, <1>16, <1>18, HlsAssumption
<1>20. a \in Seq(PlaybackUrls) /\ Len(a) = m /\ \A i \in 1 .. m : a[i] = urls[i]
  BY <1>12, <1>16, <1>18, <1>19
<1>21. DrawnOf(a, EligibleUrls(reports))
  <2>1. ASSUME NEW i \in 1 .. m
        PROVE  a[i] \in EligibleUrls(reports)
    <3>1. i \in 1 .. c
      BY <1>12, <1>19
    <3>. QED
      BY <1>15, <1>20, <3>1
  <2>. QED
    BY <1>20, <2>1 DEF DrawnOf
<1>22. IsInjective(a)
  <2>1. SUFFICES ASSUME NEW i \in 1 .. m, NEW j \in 1 .. m, a[i] = a[j]
                 PROVE  i = j
    BY <1>20 DEF IsInjective
  <2>2. i \in 1 .. c /\ j \in 1 .. c /\ urls[i] = urls[j]
    BY <1>12, <1>19, <1>20, <2>1
  <2>3. ~(i < j) /\ ~(j < i)
    BY <1>17, <2>2
  <2>. QED
    BY <2>2, <2>3
<1>. QED
  BY <1>1, <1>18, <1>19, <1>20, <1>21, <1>22

\* What was seen stays seen.
LEMMA SeenStays ==
    ASSUME NEW E, NEW E2, E \subseteq E2, NEW F, NEW F2, F \subseteq F2
    PROVE  /\ \A s : DrawnOf(s, E) => DrawnOf(s, E2)
           /\ \A s : DrawnOf(s, F) => DrawnOf(s, F2)
           /\ \A vs, o, m : Offered(vs, o, m, E, F) => Offered(vs, o, m, E2, F2)
           /\ \A q : RequestOf(q, E, F) => RequestOf(q, E2, F2)
           /\ \A a, n : AnswerOf(a, n, E, F) => AnswerOf(a, n, E2, F2)
<1>1. \A s : DrawnOf(s, E) => DrawnOf(s, E2)
  BY DEF DrawnOf
<1>2. \A s : DrawnOf(s, F) => DrawnOf(s, F2)
  BY DEF DrawnOf
<1>3. \A vs, o, m : Offered(vs, o, m, E, F) => Offered(vs, o, m, E2, F2)
  BY DEF Offered
<1>4. \A q : RequestOf(q, E, F) => RequestOf(q, E2, F2)
  BY <1>1, <1>2, <1>3, Zenon DEF RequestOf
<1>5. ASSUME NEW a, NEW n, AnswerOf(a, n, E, F)
      PROVE  AnswerOf(a, n, E2, F2)
  <2>1. Offered(a.variants, a.overloaded, a.master, E2, F2)
    BY <1>3, <1>5 DEF AnswerOf
  <2>. QED
    BY <1>5, <2>1 DEF AnswerOf
<1>. QED
  BY <1>1, <1>2, <1>3, <1>4, <1>5

\* What changes between two reads only adds to what was seen.
LEMMA BetweenReads ==
    ASSUME HlsInv, HlsTypes', SeenNow', UNCHANGED <<hls_request, hls_answer, hls_rejections>>,
           eligible_seen \subseteq eligible_seen', fresh_seen \subseteq fresh_seen'
    PROVE  HlsInv'
<1>1. /\ \A q : RequestOf(q, eligible_seen, fresh_seen) => RequestOf(q, eligible_seen', fresh_seen')
      /\ \A a, n : AnswerOf(a, n, eligible_seen, fresh_seen) => AnswerOf(a, n, eligible_seen', fresh_seen')
  BY SeenStays
<1>2. InProgress' => /\ RequestOf(hls_request', eligible_seen', fresh_seen')
                     /\ hls_answer' = NoAnswer /\ hls_rejections' = 0
  BY <1>1 DEF HlsInv, InProgress
<1>3. Answered' => AnswerOf(hls_answer', hls_rejections', eligible_seen', fresh_seen')
  BY <1>1 DEF HlsInv, Answered
<1>. QED
  BY <1>2, <1>3 DEF HlsInv

\* A report that arrives is among what was seen.
LEMMA EdgeReportArrives ==
    ASSUME HlsInv, NEW e \in RegionEdges, NEW r \in EdgeReports, EdgeReported(e, r)
    PROVE  HlsInv'
<1>1. /\ edge_reports' = [edge_reports EXCEPT ![e] = r]
      /\ eligible_seen' = eligible_seen \cup EligibleUrls(edge_reports')
      /\ UNCHANGED <<hls_overloaded, last_ingest, rendition_init, hls_now, hls_request,
                     hls_answer, hls_rejections, fresh_seen>>
  BY DEF EdgeReported
<1>2. HlsTypes'
  BY <1>1 DEF HlsInv, HlsTypes
<1>3. FreshStreams(last_ingest, hls_now)' = FreshStreams(last_ingest, hls_now)
  BY <1>1 DEF FreshStreams, FreshRendition
<1>4. EligibleUrls(edge_reports)' = EligibleUrls(edge_reports')
  BY DEF EligibleUrls
<1>5. SeenNow'
  BY <1>1, <1>3, <1>4 DEF HlsInv, SeenNow, InProgress
<1>6. eligible_seen \subseteq eligible_seen' /\ fresh_seen \subseteq fresh_seen'
  BY <1>1
<1>. QED
  BY <1>1, <1>2, <1>5, <1>6, BetweenReads

\* The load of this edge is not read again.
LEMMA OverloadTurns ==
    ASSUME HlsInv, OverloadChanges
    PROVE  HlsInv'
<1>1. /\ hls_overloaded' = ~hls_overloaded
      /\ UNCHANGED <<edge_reports, last_ingest, rendition_init, hls_now, hls_request,
                     hls_answer, hls_rejections, eligible_seen, fresh_seen>>
  BY DEF OverloadChanges
<1>2. HlsTypes'
  BY <1>1 DEF HlsInv, HlsTypes
<1>3. FreshStreams(last_ingest, hls_now)' = FreshStreams(last_ingest, hls_now)
  BY <1>1 DEF FreshStreams, FreshRendition
<1>4. EligibleUrls(edge_reports)' = EligibleUrls(edge_reports)
  BY <1>1 DEF EligibleUrls
<1>5. SeenNow'
  BY <1>1, <1>3, <1>4 DEF HlsInv, SeenNow, InProgress
<1>. QED
  BY <1>1, <1>2, <1>5, BetweenReads

\* A rendition that publishes is fresh, and was seen to be.
LEMMA RenditionPublishes ==
    ASSUME HlsInv, NEW s \in RenditionStreams, NEW brings \in BOOLEAN, RenditionIngests(s, brings)
    PROVE  HlsInv'
<1>1. /\ last_ingest' = [last_ingest EXCEPT ![s] = hls_now]
      /\ rendition_init' = IF brings THEN rendition_init \cup {s} ELSE rendition_init
      /\ fresh_seen' = fresh_seen \cup ({s} \cap rendition_init')
      /\ UNCHANGED <<edge_reports, hls_overloaded, hls_now, hls_request, hls_answer, hls_rejections,
                     eligible_seen>>
  BY DEF RenditionIngests
<1>2. HlsTypes'
  BY <1>1 DEF HlsInv, HlsTypes
<1>3. FreshStreams(last_ingest, hls_now)' \subseteq
          FreshStreams(last_ingest, hls_now) \cup ({s} \cap rendition_init')
  BY <1>1 DEF FreshStreams, FreshRendition, HlsInv, HlsTypes
<1>4. EligibleUrls(edge_reports)' = EligibleUrls(edge_reports)
  BY <1>1 DEF EligibleUrls
<1>5. SeenNow'
  BY <1>1, <1>3, <1>4 DEF HlsInv, SeenNow, InProgress
<1>6. eligible_seen \subseteq eligible_seen' /\ fresh_seen \subseteq fresh_seen'
  BY <1>1
<1>. QED
  BY <1>1, <1>2, <1>5, <1>6, BetweenReads

\* Time makes no rendition fresh.
LEMMA HlsTimePasses ==
    ASSUME HlsInv, HlsElapse
    PROVE  HlsInv'
<1>1. /\ hls_now < HlsTimeLimit /\ hls_now' = hls_now + 1
      /\ UNCHANGED <<edge_reports, hls_overloaded, last_ingest, rendition_init, hls_request,
                     hls_answer, hls_rejections, eligible_seen, fresh_seen>>
  BY DEF HlsElapse
<1>2. HlsTypes'
  BY <1>1, HlsAssumption DEF HlsInv, HlsTypes
<1>3. FreshStreams(last_ingest, hls_now)' \subseteq FreshStreams(last_ingest, hls_now)
  <2>1. ASSUME NEW s \in RenditionStreams, FreshRendition(s, last_ingest, hls_now)'
        PROVE  FreshRendition(s, last_ingest, hls_now)
    <3>1. last_ingest[s] \in Int /\ hls_now \in Int /\ RenditionStale \in Int
      BY HlsAssumption DEF HlsInv, HlsTypes
    <3>. QED
      BY <1>1, <2>1, <3>1 DEF FreshRendition
  <2>. QED
    BY <1>1, <2>1 DEF FreshStreams, FreshRendition
<1>4. EligibleUrls(edge_reports)' = EligibleUrls(edge_reports)
  BY <1>1 DEF EligibleUrls
<1>5. SeenNow'
  BY <1>1, <1>3, <1>4 DEF HlsInv, SeenNow, InProgress
<1>. QED
  BY <1>1, <1>2, <1>5, BetweenReads

\* A step that changes nothing.
LEMMA HlsStutters ==
    ASSUME HlsInv, UNCHANGED hlsVars
    PROVE  HlsInv'
<1>1. UNCHANGED <<edge_reports, hls_overloaded, last_ingest, rendition_init, hls_now, hls_request,
                  hls_answer, hls_rejections, eligible_seen, fresh_seen>>
  BY DEF hlsVars
<1>2. HlsTypes'
  BY <1>1 DEF HlsInv, HlsTypes
<1>3. FreshStreams(last_ingest, hls_now)' = FreshStreams(last_ingest, hls_now)
  BY <1>1 DEF FreshStreams, FreshRendition
<1>4. EligibleUrls(edge_reports)' = EligibleUrls(edge_reports)
  BY <1>1 DEF EligibleUrls
<1>5. SeenNow'
  BY <1>1, <1>3, <1>4 DEF HlsInv, SeenNow, InProgress
<1>. QED
  BY <1>1, <1>2, <1>5, BetweenReads

\* A step of the request keeps the invariant when it keeps the request's part.
LEMMA RequestSteps ==
    ASSUME HlsInv, InProgress, RequestOf(hls_request', eligible_seen, fresh_seen),
           UNCHANGED <<edge_reports, hls_overloaded, last_ingest, rendition_init, hls_now, hls_answer,
                       hls_rejections, eligible_seen, fresh_seen>>
    PROVE  HlsInv'
<1>1. HlsTypes'
  BY DEF HlsInv, HlsTypes
<1>2. FreshStreams(last_ingest, hls_now)' = FreshStreams(last_ingest, hls_now)
  BY DEF FreshStreams, FreshRendition
<1>3. EligibleUrls(edge_reports)' = EligibleUrls(edge_reports)
  BY DEF EligibleUrls
<1>4. SeenNow'
  BY <1>2, <1>3 DEF HlsInv, SeenNow
<1>5. hls_answer' = NoAnswer /\ hls_rejections' = 0
  BY DEF HlsInv
<1>6. ~Answered'
  BY <1>5 DEF Answered, NoAnswer
<1>. QED
  BY <1>1, <1>4, <1>5, <1>6 DEF HlsInv

\* The parts of a request, named.
RequestShape(q) ==
    q \in [step : MasterSteps, master : Masters, overloaded : BOOLEAN,
           alternatives : Seq(PlaybackUrls), todo : Seq(Renditions) \cup Seq(RenditionStreams),
           active : Seq(RenditionStreams), variants : Seq([uri : Nat, stream : RenditionStreams])]

\* A request in progress.
LEMMA RequestIs ==
    ASSUME HlsInv, NEW st, hls_request.step = st, st # "idle"
    PROVE  InProgress /\ RequestOf(hls_request, eligible_seen, fresh_seen) /\ RequestShape(hls_request)
<1>1. InProgress
  BY DEF InProgress, NoHlsRequest
<1>. QED
  BY <1>1 DEF HlsInv, RequestOf, RequestShape

\* A request starts with nothing chosen.
LEMMA BeginsMaster ==
    ASSUME HlsInv, NEW m \in Masters, BeginMaster(m)
    PROVE  HlsInv'
<1>1. PICK q : q = [step |-> "alternatives", master |-> m, overloaded |-> hls_overloaded,
                    alternatives |-> <<>>, todo |-> Catalog(m), active |-> <<>>, variants |-> <<>>]
  OBVIOUS
<1>2. /\ hls_request' = q /\ hls_rejections' = 0 /\ hls_answer' = NoAnswer
      /\ eligible_seen' = EligibleUrls(edge_reports)
      /\ fresh_seen' = FreshStreams(last_ingest, hls_now)
      /\ UNCHANGED <<edge_reports, hls_overloaded, last_ingest, rendition_init, hls_now>>
  BY <1>1 DEF BeginMaster
<1>3. HlsTypes'
  BY <1>2 DEF HlsInv, HlsTypes
<1>4. FreshStreams(last_ingest, hls_now)' = FreshStreams(last_ingest, hls_now)
  BY <1>2 DEF FreshStreams, FreshRendition
<1>5. EligibleUrls(edge_reports)' = EligibleUrls(edge_reports)
  BY <1>2 DEF EligibleUrls
<1>6. SeenNow'
  BY <1>2, <1>4, <1>5 DEF SeenNow
<1>7. Catalog(m) \in Seq(Renditions)
  BY CatalogLists
<1>8. hls_overloaded \in BOOLEAN
  BY DEF HlsInv, HlsTypes
<1>9. RequestShape(q)
  BY <1>1, <1>7, <1>8 DEF RequestShape, MasterSteps
<1>10. /\ q.step = "alternatives" /\ q.alternatives = <<>> /\ q.active = <<>> /\ q.variants = <<>>
       /\ q.todo \in Seq(Renditions)
  BY <1>1, <1>7
<1>11. \A S : DrawnOf(<<>>, S)
  BY DEF DrawnOf
<1>12. \A o, k, E, F : Offered(<<>>, o, k, E, F)
  BY DEF Offered
<1>13. Len(q.alternatives) <= AlternativeLimit /\ IsInjective(q.alternatives)
  BY <1>10, HlsAssumption DEF IsInjective
<1>14. RequestOf(q, eligible_seen', fresh_seen')
  BY <1>9, <1>10, <1>11, <1>12, <1>13 DEF RequestOf, RequestShape
<1>15. ~Answered'
  BY <1>2 DEF Answered, NoAnswer
<1>. QED
  BY <1>2, <1>3, <1>6, <1>14, <1>15 DEF HlsInv

\* The alternatives are edges that are open now.
LEMMA ReadsAlternatives ==
    ASSUME HlsInv, ReadAlternatives
    PROVE  HlsInv'
<1>1. PICK q, p, a : q = hls_request /\ p = hls_request' /\ a = Alternatives(edge_reports)
  OBVIOUS
<1>2. /\ q.step = "alternatives"
      /\ p = [q EXCEPT !.alternatives = a,
                       !.step = IF q.master \in PlainMasters THEN "answer" ELSE "renditions"]
      /\ UNCHANGED <<edge_reports, hls_overloaded, last_ingest, rendition_init, hls_now, hls_answer,
                     hls_rejections, eligible_seen, fresh_seen>>
  BY <1>1 DEF ReadAlternatives
<1>3. InProgress /\ RequestOf(q, eligible_seen, fresh_seen) /\ RequestShape(q)
  BY <1>1, <1>2, RequestIs
<1>4. /\ a \in Seq(PlaybackUrls) /\ DrawnOf(a, EligibleUrls(edge_reports))
      /\ Len(a) <= AlternativeLimit /\ IsInjective(a)
  BY <1>1, AlternativesSound DEF HlsInv, HlsTypes
<1>5. DrawnOf(a, eligible_seen)
  BY <1>3, <1>4 DEF HlsInv, SeenNow, DrawnOf
<1>6. /\ RequestShape(p) /\ p.alternatives = a /\ p.master = q.master /\ p.overloaded = q.overloaded
      /\ p.todo = q.todo /\ p.active = q.active /\ p.variants = q.variants
      /\ p.step = IF q.master \in PlainMasters THEN "answer" ELSE "renditions"
  BY <1>2, <1>3, <1>4 DEF RequestShape, MasterSteps
<1>7. /\ DrawnOf(q.active, fresh_seen) /\ q.todo \in Seq(Renditions) /\ q.variants = <<>>
      /\ Offered(q.variants, q.overloaded, q.master, eligible_seen, fresh_seen)
  BY <1>2, <1>3 DEF RequestOf
<1>8. RequestOf(p, eligible_seen, fresh_seen)
  BY <1>4, <1>5, <1>6, <1>7 DEF RequestOf, RequestShape
<1>. QED
  BY <1>1, <1>2, <1>3, <1>8, RequestSteps

\* A rendition counts when it is fresh now.
LEMMA ChecksRendition ==
    ASSUME HlsInv, CheckRendition
    PROVE  HlsInv'
<1>1. PICK q, p, r : q = hls_request /\ p = hls_request' /\ r = Head(hls_request.todo)
  OBVIOUS
<1>2. /\ q.step = "renditions" /\ q.todo # <<>> /\ r = Head(q.todo)
      /\ p = [q EXCEPT !.todo = Tail(@),
                       !.active = IF FreshRendition(r.stream, last_ingest, hls_now)
                                  THEN Append(@, r.stream) ELSE @]
      /\ UNCHANGED <<edge_reports, hls_overloaded, last_ingest, rendition_init, hls_now, hls_answer,
                     hls_rejections, eligible_seen, fresh_seen>>
  BY <1>1 DEF CheckRendition
<1>3. InProgress /\ RequestOf(q, eligible_seen, fresh_seen) /\ RequestShape(q)
  BY <1>1, <1>2, RequestIs
<1>4. q.todo \in Seq(Renditions) /\ q.active \in Seq(RenditionStreams) /\ DrawnOf(q.active, fresh_seen)
  BY <1>2, <1>3 DEF RequestOf, RequestShape
<1>5. r \in Renditions /\ Tail(q.todo) \in Seq(Renditions)
  BY <1>2, <1>4
<1>6. r.stream \in RenditionStreams
  BY <1>5 DEF RenditionStreams
<1>7. PICK act : act = IF FreshRendition(r.stream, last_ingest, hls_now)
                       THEN Append(q.active, r.stream) ELSE q.active
  OBVIOUS
<1>8. p = [q EXCEPT !.todo = Tail(q.todo), !.active = act]
  BY <1>2, <1>3, <1>7 DEF RequestShape
<1>9. act \in Seq(RenditionStreams) /\ DrawnOf(act, fresh_seen)
  <2>1. CASE FreshRendition(r.stream, last_ingest, hls_now)
    <3>1. act = Append(q.active, r.stream)
      BY <1>7, <2>1
    <3>2. r.stream \in fresh_seen
      BY <1>3, <1>6, <2>1 DEF HlsInv, SeenNow, FreshStreams
    <3>3. Len(act) = Len(q.active) + 1 /\ act[Len(q.active) + 1] = r.stream
      BY <1>4, <1>6, <3>1
    <3>4. \A i \in 1 .. Len(q.active) : act[i] = q.active[i]
      BY <1>4, <1>6, <3>1
    <3>5. \A i \in 1 .. Len(act) : i \in 1 .. Len(q.active) \/ i = Len(q.active) + 1
      BY <1>4, <3>3
    <3>6. DrawnOf(act, fresh_seen)
      BY <1>4, <3>2, <3>3, <3>4, <3>5 DEF DrawnOf
    <3>. QED
      BY <1>4, <1>6, <3>1, <3>6
  <2>2. CASE ~FreshRendition(r.stream, last_ingest, hls_now)
    BY <1>4, <1>7, <2>2
  <2>. QED
    BY <2>1, <2>2
<1>10. /\ RequestShape(p) /\ p.alternatives = q.alternatives /\ p.master = q.master
       /\ p.overloaded = q.overloaded /\ p.todo = Tail(q.todo) /\ p.active = act
       /\ p.variants = q.variants /\ p.step = q.step
  BY <1>3, <1>5, <1>8, <1>9 DEF RequestShape
<1>11. RequestOf(p, eligible_seen, fresh_seen)
  BY <1>2, <1>3, <1>5, <1>9, <1>10 DEF RequestOf, RequestShape
<1>. QED
  BY <1>1, <1>2, <1>3, <1>11, RequestSteps

\* The local variants are renditions that were fresh.
LEMMA ChecksRenditions ==
    ASSUME HlsInv, RenditionsChecked
    PROVE  HlsInv'
<1>1. PICK q, p : q = hls_request /\ p = hls_request'
  OBVIOUS
<1>2. /\ q.step = "renditions" /\ q.todo = <<>>
      /\ UNCHANGED <<edge_reports, hls_overloaded, last_ingest, rendition_init, hls_now, hls_answer,
                     hls_rejections, eligible_seen, fresh_seen>>
  BY <1>1 DEF RenditionsChecked
<1>3. InProgress /\ RequestOf(q, eligible_seen, fresh_seen) /\ RequestShape(q)
  BY <1>1, <1>2, RequestIs
<1>4. /\ q.active \in Seq(RenditionStreams) /\ DrawnOf(q.active, fresh_seen) /\ q.variants = <<>>
      /\ q.master \notin PlainMasters /\ q.overloaded \in BOOLEAN
      /\ DrawnOf(q.alternatives, eligible_seen) /\ Len(q.alternatives) <= AlternativeLimit
      /\ IsInjective(q.alternatives)
      /\ Offered(q.variants, q.overloaded, q.master, eligible_seen, fresh_seen)
  BY <1>2, <1>3 DEF RequestOf, RequestShape
<1>5. CASE q.overloaded
  <2>1. p = [q EXCEPT !.step = "elsewhere", !.todo = q.active]
    BY <1>1, <1>5 DEF RenditionsChecked
  <2>2. /\ RequestShape(p) /\ p.alternatives = q.alternatives /\ p.master = q.master
        /\ p.overloaded = q.overloaded /\ p.todo = q.active /\ p.active = q.active
        /\ p.variants = q.variants /\ p.step = "elsewhere"
    BY <1>3, <1>4, <2>1 DEF RequestShape, MasterSteps
  <2>3. RequestOf(p, eligible_seen, fresh_seen)
    BY <1>4, <1>5, <2>2 DEF RequestOf, RequestShape
  <2>. QED
    BY <1>1, <1>2, <1>3, <2>3, RequestSteps
<1>6. CASE ~q.overloaded
  <2>1. PICK vs : vs = [i \in DOMAIN q.active |-> Variant(LocalUri, q.active[i])]
    OBVIOUS
  <2>2. p = [q EXCEPT !.step = "answer", !.variants = vs]
    BY <1>1, <1>6, <2>1 DEF RenditionsChecked
  <2>3. PICK n : n = Len(q.active)
    OBVIOUS
  <2>4. n \in Nat /\ DOMAIN q.active = 1 .. n /\ \A i \in 1 .. n : q.active[i] \in RenditionStreams
    BY <1>4, <2>3
  <2>5. \A i \in 1 .. n : Variant(LocalUri, q.active[i]) \in [uri : Nat, stream : RenditionStreams]
    BY <2>4 DEF Variant, LocalUri
  <2>6. vs \in Seq([uri : Nat, stream : RenditionStreams]) /\ Len(vs) = n
    <3>1. PICK T : T = [uri : Nat, stream : RenditionStreams]
      OBVIOUS
    <3>2. vs = [i \in 1 .. n |-> vs[i]] /\ \A i \in 1 .. n : vs[i] \in T
      BY <2>1, <2>4, <2>5, <3>1
    <3>3. vs \in Seq(T) /\ Len(vs) = n
      BY <2>4, <3>2
    <3>. QED
      BY <3>1, <3>3
  <2>7. \A i \in 1 .. n : vs[i].uri = LocalUri /\ vs[i].stream = q.active[i]
    BY <2>1, <2>4 DEF Variant
  <2>8. \A i \in 1 .. n : q.active[i] \in fresh_seen
    BY <1>4, <2>3 DEF DrawnOf
  <2>9. Offered(vs, q.overloaded, q.master, eligible_seen, fresh_seen)
    BY <1>6, <2>6, <2>7, <2>8 DEF Offered
  <2>10. /\ RequestShape(p) /\ p.alternatives = q.alternatives /\ p.master = q.master
         /\ p.overloaded = q.overloaded /\ p.todo = q.todo /\ p.active = q.active
         /\ p.variants = vs /\ p.step = "answer"
    BY <1>3, <2>2, <2>6 DEF RequestShape, MasterSteps
  <2>11. RequestOf(p, eligible_seen, fresh_seen)
    BY <1>4, <1>6, <2>3, <2>6, <2>9, <2>10 DEF RequestOf, RequestShape
  <2>. QED
    BY <1>1, <1>2, <1>3, <2>11, RequestSteps
<1>. QED
  BY <1>5, <1>6

VariantsAt(urls, s) == [i \in DOMAIN urls |-> Variant(urls[i], s)]

\* The variants of one rendition on other edges.
LEMMA VariantsElsewhere ==
    ASSUME NEW urls \in Seq(PlaybackUrls), NEW E, DrawnOf(urls, E), NEW F, NEW s \in F, NEW T, s \in T,
           NEW busy, NEW m
    PROVE  /\ VariantsAt(urls, s) \in Seq([uri : Nat, stream : T])
           /\ Len(VariantsAt(urls, s)) = Len(urls)
           /\ Offered(VariantsAt(urls, s), busy, m, E, F)
<1>1. PICK n, vs : n = Len(urls) /\ vs = VariantsAt(urls, s)
  OBVIOUS
<1>2. /\ n \in Nat /\ DOMAIN urls = 1 .. n
      /\ \A i \in 1 .. n : urls[i] \in PlaybackUrls /\ urls[i] \in E
  BY <1>1 DEF DrawnOf
<1>3. \A i \in 1 .. n : urls[i] \in Nat \ {0}
  BY <1>2, HlsAssumption
<1>4. \A i \in 1 .. n : Variant(urls[i], s) \in [uri : Nat, stream : T]
  BY <1>3 DEF Variant
<1>5. vs \in Seq([uri : Nat, stream : T]) /\ Len(vs) = n
  <2>1. PICK V : V = [uri : Nat, stream : T]
    OBVIOUS
  <2>2. vs = [i \in 1 .. n |-> vs[i]] /\ \A i \in 1 .. n : vs[i] \in V
    BY <1>1, <1>2, <1>4, <2>1 DEF VariantsAt
  <2>3. vs \in Seq(V) /\ Len(vs) = n
    BY <1>2, <2>2
  <2>. QED
    BY <2>1, <2>3
<1>6. \A i \in 1 .. n : vs[i].uri = urls[i] /\ vs[i].stream = s
  BY <1>1, <1>2 DEF VariantsAt, Variant
<1>7. Offered(vs, busy, m, E, F)
  BY <1>2, <1>3, <1>5, <1>6 DEF Offered, LocalUri
<1>. QED
  BY <1>1, <1>5, <1>7

\* Two lists of variants make one.
LEMMA OfferedJoin ==
    ASSUME NEW T, NEW a \in Seq(T), NEW b \in Seq(T), NEW E, NEW F, NEW busy, NEW m,
           Offered(a, busy, m, E, F), Offered(b, busy, m, E, F)
    PROVE  a \o b \in Seq(T) /\ Offered(a \o b, busy, m, E, F)
<1>1. PICK c, k, n : c = a \o b /\ k = Len(a) /\ n = Len(b)
  OBVIOUS
<1>2. k \in Nat /\ n \in Nat /\ Len(c) = k + n /\ c \in Seq(T)
  BY <1>1
<1>3. ASSUME NEW i \in 1 .. Len(c)
      PROVE  /\ IF c[i].uri = LocalUri THEN ~busy ELSE c[i].uri \in E
             /\ c[i].stream # m => c[i].stream \in F
  <2>1. CASE i \in 1 .. k
    <3>1. c[i] = a[i]
      BY <1>1, <2>1
    <3>. QED
      BY <1>1, <2>1, <3>1 DEF Offered
  <2>2. CASE i \notin 1 .. k
    <3>1. i - k \in 1 .. n /\ c[i] = b[i - k]
      BY <1>1, <1>2, <1>3, <2>2
    <3>. QED
      BY <1>1, <3>1 DEF Offered
  <2>. QED
    BY <2>1, <2>2
<1>. QED
  BY <1>1, <1>2, <1>3 DEF Offered

\* The variants elsewhere are on edges that are open now.
LEMMA LooksElsewhere ==
    ASSUME HlsInv, RenditionElsewhere
    PROVE  HlsInv'
<1>1. PICK q, p, urls : q = hls_request /\ p = hls_request' /\ urls = Alternatives(edge_reports)
  OBVIOUS
<1>2. PICK more : more = [i \in DOMAIN urls |-> Variant(urls[i], Head(q.todo))]
  OBVIOUS
<1>3. /\ q.step = "elsewhere" /\ q.todo # <<>>
      /\ p = [q EXCEPT !.todo = Tail(@), !.variants = @ \o more]
      /\ UNCHANGED <<edge_reports, hls_overloaded, last_ingest, rendition_init, hls_now, hls_answer,
                     hls_rejections, eligible_seen, fresh_seen>>
  BY <1>1, <1>2 DEF RenditionElsewhere
<1>4. InProgress /\ RequestOf(q, eligible_seen, fresh_seen) /\ RequestShape(q)
  BY <1>1, <1>3, RequestIs
<1>5. /\ q.todo \in Seq(RenditionStreams) /\ DrawnOf(q.todo, fresh_seen) /\ q.overloaded
      /\ q.master \notin PlainMasters
      /\ q.variants \in Seq([uri : Nat, stream : RenditionStreams])
      /\ Offered(q.variants, q.overloaded, q.master, eligible_seen, fresh_seen)
  BY <1>3, <1>4 DEF RequestOf, RequestShape
<1>6. /\ urls \in Seq(PlaybackUrls) /\ DrawnOf(urls, EligibleUrls(edge_reports))
  BY <1>1, AlternativesSound DEF HlsInv, HlsTypes
<1>7. DrawnOf(urls, eligible_seen)
  BY <1>4, <1>6 DEF HlsInv, SeenNow, DrawnOf
<1>8. PICK s, rest : s = Head(q.todo) /\ rest = Tail(q.todo)
  OBVIOUS
<1>9. /\ s \in RenditionStreams /\ rest \in Seq(RenditionStreams) /\ s = q.todo[1] /\ Len(q.todo) \in Nat \ {0}
      /\ Len(rest) = Len(q.todo) - 1 /\ \A i \in 1 .. Len(rest) : rest[i] = q.todo[i + 1]
  BY <1>3, <1>5, <1>8
<1>10. s \in fresh_seen /\ DrawnOf(rest, fresh_seen)
  BY <1>5, <1>9 DEF DrawnOf
<1>11. /\ more \in Seq([uri : Nat, stream : RenditionStreams])
       /\ Offered(more, q.overloaded, q.master, eligible_seen, fresh_seen)
  <2>1. more = VariantsAt(urls, s)
    BY <1>2, <1>8 DEF VariantsAt
  <2>. QED
    BY <1>6, <1>7, <1>9, <1>10, <2>1, VariantsElsewhere
<1>12. PICK vs : vs = q.variants \o more
  OBVIOUS
<1>13. /\ vs \in Seq([uri : Nat, stream : RenditionStreams])
       /\ Offered(vs, q.overloaded, q.master, eligible_seen, fresh_seen)
  BY <1>5, <1>11, <1>12, OfferedJoin
<1>14. p = [q EXCEPT !.todo = rest, !.variants = vs]
  BY <1>3, <1>4, <1>8, <1>12 DEF RequestShape
<1>15. /\ RequestShape(p) /\ p.alternatives = q.alternatives /\ p.master = q.master
       /\ p.overloaded = q.overloaded /\ p.todo = rest /\ p.active = q.active
       /\ p.variants = vs /\ p.step = q.step
  BY <1>4, <1>9, <1>13, <1>14 DEF RequestShape
<1>16. RequestOf(p, eligible_seen, fresh_seen)
  BY <1>3, <1>4, <1>5, <1>9, <1>10, <1>13, <1>15 DEF RequestOf, RequestShape
<1>. QED
  BY <1>1, <1>3, <1>4, <1>16, RequestSteps

\* The variants of a stream without renditions, and what it means that there are
\* none.
LEMMA PlainOffers ==
    ASSUME NEW q, NEW E, NEW F, q.alternatives \in Seq(PlaybackUrls), DrawnOf(q.alternatives, E),
           q.master \in Nat, q.overloaded \in BOOLEAN
    PROVE  /\ PlainVariants(q) \in Seq([uri : Nat, stream : Nat])
           /\ Offered(PlainVariants(q), q.overloaded, q.master, E, F)
           /\ PlainVariants(q) = <<>> => q.overloaded /\ q.alternatives = <<>>
<1>1. PICK here, there, m, all :
         /\ here = (IF q.overloaded THEN <<>> ELSE <<Variant(LocalUri, q.master)>>)
         /\ there = VariantsAt(q.alternatives, q.master) /\ m = q.master
         /\ all = PlainVariants(q)
  OBVIOUS
<1>2. all = here \o there
  BY <1>1 DEF PlainVariants, VariantsAt
<1>3. /\ there \in Seq([uri : Nat, stream : Nat]) /\ Len(there) = Len(q.alternatives)
      /\ Offered(there, q.overloaded, m, E, {m})
  BY <1>1, VariantsElsewhere
<1>4. \A i \in 1 .. Len(there) : there[i].stream = m
  BY <1>1, <1>3 DEF VariantsAt, Variant
<1>5. Offered(there, q.overloaded, m, E, F)
  BY <1>3, <1>4 DEF Offered
<1>6. /\ here \in Seq([uri : Nat, stream : Nat]) /\ Offered(here, q.overloaded, m, E, F)
      /\ here = <<>> => q.overloaded
  <2>1. CASE q.overloaded
    BY <1>1, <2>1 DEF Offered
  <2>2. CASE ~q.overloaded
    <3>1. PICK v : v = Variant(LocalUri, q.master)
      OBVIOUS
    <3>2. v \in [uri : Nat, stream : Nat] /\ v.uri = LocalUri /\ v.stream = m
      BY <1>1, <3>1 DEF Variant, LocalUri
    <3>3. here = <<v>>
      BY <1>1, <2>2, <3>1
    <3>4. here \in Seq([uri : Nat, stream : Nat])
      BY <3>2, <3>3
    <3>5. Len(here) = 1 /\ here[1] = v /\ here # <<>>
      BY <3>3
    <3>6. Offered(here, q.overloaded, m, E, F)
      BY <2>2, <3>2, <3>5 DEF Offered
    <3>. QED
      BY <3>4, <3>5, <3>6
  <2>. QED
    BY <2>1, <2>2
<1>7. all \in Seq([uri : Nat, stream : Nat]) /\ Offered(all, q.overloaded, m, E, F)
  BY <1>2, <1>3, <1>5, <1>6, OfferedJoin
<1>8. ASSUME all = <<>>
      PROVE  q.overloaded /\ q.alternatives = <<>>
  <2>1. PICK T : T = [uri : Nat, stream : Nat]
    OBVIOUS
  <2>2. here \in Seq(T) /\ there \in Seq(T)
    BY <1>3, <1>6, <2>1
  <2>3. here = <<>> /\ Len(there) = 0
    <3>1. Len(here \o there) = Len(here) + Len(there) /\ Len(here) \in Nat /\ Len(there) \in Nat
      BY <2>2
    <3>2. Len(here \o there) = 0
      BY <1>2, <1>8
    <3>3. Len(here) = 0 /\ Len(there) = 0
      BY <3>1, <3>2
    <3>. QED
      BY <2>2, <3>3
  <2>4. Len(q.alternatives) = 0
    BY <1>3, <2>3
  <2>. QED
    BY <1>6, <2>3, <2>4
<1>. QED
  BY <1>1, <1>7, <1>8

\* Masters and renditions are streams.
LEMMA StreamsAreNumbers ==
    Masters \subseteq Nat /\ RenditionStreams \subseteq Nat
  BY HlsAssumption DEF Masters, RenditionStreams

\* The answer is what was put together.
LEMMA AnswersMaster ==
    ASSUME HlsInv, AnswerMaster
    PROVE  HlsInv'
<1>1. PICK q : q = hls_request
  OBVIOUS
<1>2. q.step = "answer" \/ q.step = "elsewhere"
  BY <1>1 DEF AnswerMaster
<1>3. InProgress /\ RequestOf(q, eligible_seen, fresh_seen) /\ RequestShape(q)
  BY <1>1, <1>2, RequestIs
<1>4. PICK plain, vs, a : /\ plain = (q.master \in PlainMasters)
                          /\ vs = (IF q.master \in PlainMasters THEN PlainVariants(q) ELSE q.variants)
                          /\ a = hls_answer'
  OBVIOUS
<1>5. /\ a = [status |-> IF vs # <<>> THEN 200 ELSE IF q.master \in PlainMasters THEN 429 ELSE 503,
              master |-> q.master, overloaded |-> q.overloaded,
              alternatives |-> q.alternatives, active |-> q.active, variants |-> vs]
      /\ hls_rejections' = (IF vs = <<>> THEN hls_rejections + 1 ELSE hls_rejections)
      /\ hls_request' = NoHlsRequest
      /\ UNCHANGED <<edge_reports, hls_overloaded, last_ingest, rendition_init, hls_now,
                     eligible_seen, fresh_seen>>
  BY <1>1, <1>4 DEF AnswerMaster
<1>6. hls_rejections' = (IF vs = <<>> THEN 1 ELSE 0)
  BY <1>3, <1>5 DEF HlsInv
<1>7. /\ q.alternatives \in Seq(PlaybackUrls) /\ DrawnOf(q.alternatives, eligible_seen)
      /\ q.master \in Nat /\ q.overloaded \in BOOLEAN /\ q.active \in Seq(RenditionStreams)
      /\ Len(q.alternatives) <= AlternativeLimit /\ IsInjective(q.alternatives)
      /\ q.variants \in Seq([uri : Nat, stream : RenditionStreams])
      /\ Offered(q.variants, q.overloaded, q.master, eligible_seen, fresh_seen)
  BY <1>3, StreamsAreNumbers DEF RequestOf, RequestShape
<1>8. q.variants \in Seq([uri : Nat, stream : Nat])
  <2>1. PICK T, U : T = [uri : Nat, stream : RenditionStreams] /\ U = [uri : Nat, stream : Nat]
    OBVIOUS
  <2>2. T \subseteq U
    BY <2>1, StreamsAreNumbers
  <2>3. q.variants \in Seq(T)
    BY <1>7, <2>1
  <2>4. q.variants \in Seq(U)
    BY <2>2, <2>3
  <2>. QED
    BY <2>1, <2>4
<1>9. /\ vs \in Seq([uri : Nat, stream : Nat])
      /\ Offered(vs, q.overloaded, q.master, eligible_seen, fresh_seen)
      /\ vs = <<>> /\ q.master \in PlainMasters => q.overloaded /\ q.alternatives = <<>>
      /\ vs = <<>> /\ q.master \notin PlainMasters => q.overloaded \/ q.active = <<>>
  <2>1. CASE q.master \in PlainMasters
    <3>1. vs = PlainVariants(q)
      BY <1>4, <2>1
    <3>. QED
      BY <1>7, <2>1, <3>1, PlainOffers
  <2>2. CASE q.master \notin PlainMasters
    <3>1. vs = q.variants
      BY <1>4, <2>2
    <3>2. ASSUME vs = <<>>
          PROVE  q.overloaded \/ q.active = <<>>
      <4>1. q.overloaded \/ Len(q.variants) = Len(q.active)
        BY <1>2, <1>3, <2>2 DEF RequestOf
      <4>2. Len(q.variants) = 0
        BY <3>1, <3>2
      <4>. QED
        BY <1>7, <4>1, <4>2
    <3>. QED
      BY <1>7, <1>8, <2>2, <3>1, <3>2
  <2>. QED
    BY <2>1, <2>2
<1>10. /\ a.status = (IF vs # <<>> THEN 200 ELSE IF q.master \in PlainMasters THEN 429 ELSE 503)
       /\ a.master = q.master /\ a.overloaded = q.overloaded /\ a.alternatives = q.alternatives
       /\ a.active = q.active /\ a.variants = vs
  BY <1>5
<1>11. AnswerOf(a, hls_rejections', eligible_seen, fresh_seen)
  <2>1. a.status \in {200, 429, 503}
    BY <1>10
  <2>2. (hls_rejections' = 1) <=> a.status \in {429, 503}
    BY <1>6, <1>10
  <2>3. a.status = 429 => a.overloaded /\ a.alternatives = <<>>
    BY <1>9, <1>10
  <2>4. a.status = 503 => a.overloaded \/ a.active = <<>>
    BY <1>9, <1>10
  <2>. QED
    BY <1>7, <1>9, <1>10, <2>1, <2>2, <2>3, <2>4 DEF AnswerOf
<1>12. ~InProgress'
  BY <1>5 DEF InProgress
<1>13. HlsTypes' /\ SeenNow'
  BY <1>5, <1>12 DEF HlsInv, HlsTypes, SeenNow
<1>. QED
  BY <1>4, <1>5, <1>11, <1>12, <1>13 DEF HlsInv

\* Before the first request.
LEMMA HlsStarts ==
    ASSUME HlsInit
    PROVE  HlsInv
<1>1. HlsTypes
  BY HlsAssumption DEF HlsInit, HlsTypes, Never
<1>2. ~InProgress /\ ~Answered
  BY DEF HlsInit, InProgress, Answered, NoAnswer
<1>. QED
  BY <1>1, <1>2 DEF HlsInv, SeenNow

\* An answer is put together only of what was there to be seen while the request
\* was in progress (hls_failover_playlist_response, main.rs:11329-11475).
THEOREM HlsInvariant == HlsSpec => []HlsInv
<1>1. HlsInit => HlsInv
  BY HlsStarts
<1>2. HlsInv /\ [HlsNext]_hlsVars => HlsInv'
  BY BeginsMaster, ReadsAlternatives, ChecksRendition, ChecksRenditions, LooksElsewhere,
     AnswersMaster, EdgeReportArrives, RenditionPublishes, OverloadTurns, HlsTimePasses, HlsStutters
     DEF HlsNext
<1>. QED
  BY <1>1, <1>2, PTL DEF HlsSpec

\* What the invariant says of the answer.
LEMMA AnswerIsSound ==
    ASSUME HlsInv
    PROVE  HlsAnswerSound
<1>1. hls_now \in 0 .. HlsTimeLimit /\ edge_reports \in [RegionEdges -> EdgeReports]
  BY DEF HlsInv, HlsTypes
<1>2. CASE ~Answered
  <2>1. hls_answer = NoAnswer
    BY <1>2 DEF Answered
  <2>2. hls_answer.status = 0 /\ hls_answer.alternatives = <<>>
    BY <2>1 DEF NoAnswer
  <2>3. Len(hls_answer.alternatives) <= AlternativeLimit /\ IsInjective(hls_answer.alternatives)
    BY <2>2, HlsAssumption DEF IsInjective
  <2>. QED
    BY <1>1, <1>2, <2>2, <2>3 DEF HlsAnswerSound, SentWhereServed, RejectedOnlyWhenClosed
<1>3. CASE Answered
  <2>1. AnswerOf(hls_answer, hls_rejections, eligible_seen, fresh_seen)
    BY <1>3 DEF HlsInv
  <2>2. PICK vs : vs = hls_answer.variants
    OBVIOUS
  <2>3. /\ DOMAIN vs = 1 .. Len(vs)
        /\ Offered(vs, hls_answer.overloaded, hls_answer.master, eligible_seen, fresh_seen)
    BY <2>1, <2>2 DEF AnswerOf
  <2>4. SentWhereServed
    <3>1. ASSUME NEW v \in VariantsOf(hls_answer)
          PROVE  /\ IF v.uri = LocalUri THEN ~hls_answer.overloaded ELSE v.uri \in eligible_seen
                 /\ v.stream # hls_answer.master => v.stream \in fresh_seen
      <4>1. PICK i \in 1 .. Len(vs) : v = vs[i]
        BY <2>2, <2>3, <3>1 DEF VariantsOf
      <4>. QED
        BY <2>3, <4>1 DEF Offered
    <3>. QED
      BY <3>1 DEF SentWhereServed
  <2>5. RejectedOnlyWhenClosed
    BY <2>1 DEF AnswerOf, RejectedOnlyWhenClosed
  <2>6. /\ hls_answer.status \in {0, 200, 429, 503}
        /\ Len(hls_answer.alternatives) <= AlternativeLimit /\ IsInjective(hls_answer.alternatives)
    BY <2>1 DEF AnswerOf
  <2>. QED
    BY <1>1, <2>4, <2>5, <2>6 DEF HlsAnswerSound
<1>. QED
  BY <1>2, <1>3

\* A player is sent only where it is served and turned away only when every way
\* is closed, however the edges, their load and the renditions change between
\* the reads of its request, for any set of edges, renditions and limits
\* (hls_failover_playlist_response, main.rs:11329-11475).
THEOREM PlayersAreSentWhereServed == HlsSpec => []HlsAnswerSound
<1>1. HlsInv => HlsAnswerSound
  BY AnswerIsSound
<1>. QED
  BY <1>1, HlsInvariant, PTL

(***************************************************************************)
(* The sequence tracker.                                                   *)
(***************************************************************************)

\* The sequences of packets.
Numbers == 0 .. SequenceModulus - 1

\* What the recursion of Newest computes.
Follows(f, a, n) ==
    /\ f = [k \in 0 .. n |-> f[k]]
    /\ f[0] = -1
    /\ \A k \in 1 .. n : f[k] = Newer(f[k - 1], a[k])

\* The recursion has a solution.
LEMMA FollowsExist ==
    ASSUME NEW a, NEW l \in Nat
    PROVE  \E f : Follows(f, a, l)
<1>. DEFINE S == {n \in 0 .. l : \E f : Follows(f, a, n)}
<1>1. 0 \in S
  <2>. DEFINE f == [k \in 0 .. 0 |-> -1]
  <2>1. Follows(f, a, 0)
    BY DEF Follows
  <2>. QED
    BY <2>1
<1>2. ASSUME NEW n \in 0 .. l, n < l, n \in S
      PROVE  n + 1 \in S
  <2>1. PICK f : Follows(f, a, n)
    BY <1>2
  <2>. DEFINE g == [k \in 0 .. (n + 1) |-> IF k = n + 1 THEN Newer(f[n], a[n + 1]) ELSE f[k]]
  <2>2. g = [k \in 0 .. (n + 1) |-> g[k]] /\ g[0] = -1
    BY <2>1 DEF Follows
  <2>3. ASSUME NEW k \in 1 .. (n + 1)
        PROVE  g[k] = Newer(g[k - 1], a[k])
    <3>1. CASE k = n + 1
      BY <3>1
    <3>2. CASE k \in 1 .. n
      <4>1. g[k] = f[k] /\ g[k - 1] = f[k - 1]
        BY <3>2
      <4>. QED
        BY <2>1, <3>2, <4>1 DEF Follows
    <3>. QED
      BY <3>1, <3>2
  <2>. HIDE DEF g
  <2>4. Follows(g, a, n + 1)
    BY <2>2, <2>3 DEF Follows
  <2>5. n + 1 \in 0 .. l
    BY <1>2
  <2>. QED
    BY <2>4, <2>5
<1>3. 0 .. l \subseteq S
  <2>1. \A i \in 0 .. l : i < l /\ i \in S => i + 1 \in S
    BY <1>2
  <2>. HIDE DEF S
  <2>. QED
    BY <1>1, <2>1, IntervalInduction
<1>. QED
  BY <1>3

\* Newest is the last value of such a solution.
LEMMA NewestFollows ==
    ASSUME NEW a, NEW l \in Nat
    PROVE  \E f : Follows(f, a, l) /\ Newest(a, l) = f[l]
<1>. DEFINE Body(f) == [k \in 0 .. l |-> IF k = 0 THEN -1 ELSE Newer(f[k - 1], a[k])]
            u == CHOOSE f : f = Body(f)
<1>1. Newest(a, l) = u[l]
  BY DEF Newest
<1>2. \A f : Follows(f, a, l) => f = Body(f)
  <2>. SUFFICES ASSUME NEW f, Follows(f, a, l)
                PROVE  f = Body(f)
    OBVIOUS
  <2>1. ASSUME NEW k \in 0 .. l
        PROVE  f[k] = Body(f)[k]
    <3>1. CASE k = 0
      BY <3>1 DEF Follows
    <3>2. CASE k # 0
      <4>1. k \in 1 .. l
        BY <3>2
      <4>2. f[k] = Newer(f[k - 1], a[k])
        BY <4>1, Zenon DEF Follows
      <4>. QED
        BY <3>2, <4>2
    <3>. QED
      BY <3>1, <3>2
  <2>2. f = [k \in 0 .. l |-> f[k]]
    BY DEF Follows
  <2>3. [k \in 0 .. l |-> f[k]] = Body(f)
    BY <2>1
  <2>. QED
    BY <2>2, <2>3
<1>3. u = Body(u)
  <2>1. \E f : f = Body(f)
    BY <1>2, FollowsExist
  <2>. HIDE DEF Body
  <2>. QED
    BY <2>1
<1>4. Follows(u, a, l)
  <2>. HIDE DEF u
  <2>1. u = [k \in 0 .. l |-> u[k]] /\ u[0] = -1
    BY <1>3
  <2>2. \A k \in 1 .. l : u[k] = Body(u)[k] /\ k \in 0 .. l /\ k # 0
    <3>. HIDE DEF Body
    <3>1. \A k : u[k] = Body(u)[k]
      BY <1>3
    <3>. QED
      BY <3>1
  <2>3. \A k \in 1 .. l : u[k] = Newer(u[k - 1], a[k])
    BY <2>2
  <2>. QED
    BY <2>1, <2>3 DEF Follows
<1>. QED
  BY <1>1, <1>4

\* Solutions for runs that begin alike agree there.
LEMMA FollowsAgree ==
    ASSUME NEW a, NEW b, NEW f, NEW g, NEW n \in Nat, NEW m \in Nat, n <= m,
           Follows(f, a, n), Follows(g, b, m), \A k \in 1 .. n : a[k] = b[k]
    PROVE  \A k \in 0 .. n : f[k] = g[k]
<1>. DEFINE S == {k \in 0 .. n : f[k] = g[k]}
<1>1. 0 \in S
  BY DEF Follows
<1>2. ASSUME NEW k \in 0 .. n, k < n, k \in S
      PROVE  k + 1 \in S
  <2>1. k + 1 \in 1 .. n /\ k + 1 \in 1 .. m /\ (k + 1) - 1 = k
    BY <1>2
  <2>2. f[k + 1] = Newer(f[(k + 1) - 1], a[k + 1]) /\ g[k + 1] = Newer(g[(k + 1) - 1], b[k + 1])
    BY <2>1, Zenon DEF Follows
  <2>3. f[k + 1] = g[k + 1]
    BY <1>2, <2>1, <2>2
  <2>. QED
    BY <2>1, <2>3
<1>3. 0 .. n \subseteq S
  <2>1. \A i \in 0 .. n : i < n /\ i \in S => i + 1 \in S
    BY <1>2
  <2>. HIDE DEF S
  <2>. QED
    BY <1>1, <2>1, IntervalInduction
<1>. QED
  BY <1>3

\* The newest arrival of a longer run that begins alike, and after one more.
LEMMA NewestOfPrefix ==
    ASSUME NEW a, NEW b, NEW n \in Nat, \A k \in 1 .. n : a[k] = b[k]
    PROVE  /\ Newest(a, n) = Newest(b, n)
           /\ Newest(b, n + 1) = Newer(Newest(b, n), b[n + 1])
           /\ Newest(a, 0) = -1
<1>1. PICK f : Follows(f, a, n) /\ Newest(a, n) = f[n]
  BY NewestFollows
<1>2. PICK g : Follows(g, b, n) /\ Newest(b, n) = g[n]
  BY NewestFollows
<1>3. n + 1 \in Nat
  OBVIOUS
<1>4. PICK h : Follows(h, b, n + 1) /\ Newest(b, n + 1) = h[n + 1]
  BY <1>3, NewestFollows
<1>5. PICK z : Follows(z, a, 0) /\ Newest(a, 0) = z[0]
  BY NewestFollows
<1>6. n \in 0 .. n /\ n <= n /\ n <= n + 1
  OBVIOUS
<1>7. f[n] = g[n]
  BY <1>1, <1>2, <1>6, FollowsAgree
<1>8. g[n] = h[n]
  <2>1. \A k \in 1 .. n : b[k] = b[k]
    OBVIOUS
  <2>2. \A k \in 0 .. n : g[k] = h[k]
    BY <1>2, <1>3, <1>4, <1>6, <2>1, FollowsAgree
  <2>. QED
    BY <1>6, <2>2
<1>9. h[n + 1] = Newer(h[n], b[n + 1])
  <2>1. n + 1 \in 1 .. (n + 1) /\ (n + 1) - 1 = n
    OBVIOUS
  <2>2. h[n + 1] = Newer(h[(n + 1) - 1], b[n + 1])
    BY <1>4, <2>1, Zenon DEF Follows
  <2>. QED
    BY <2>1, <2>2
<1>10. z[0] = -1
  BY <1>5 DEF Follows
<1>. QED
  BY <1>1, <1>2, <1>4, <1>5, <1>7, <1>8, <1>9, <1>10

-----------------------------------------------------------------------------
\* A remainder is the one number below the modulus that differs by a multiple.
LEMMA RemainderIs ==
    ASSUME NEW x \in Int, NEW r \in Numbers,
           x = r \/ x = r - SequenceModulus \/ x = r + SequenceModulus
    PROVE  x % SequenceModulus = r
<1>1. PICK m : m = SequenceModulus
  OBVIOUS
<1>2. m \in Nat /\ m > 0
  BY <1>1, TrackerAssumption
<1>3. r \in 0 .. m - 1 /\ (x = r \/ x = r - m \/ x = r + m)
  BY <1>1 DEF Numbers
<1>4. x % m = r
  BY <1>2, <1>3
<1>. QED
  BY <1>1, <1>4

\* Distances on the circle of sequences.
LEMMA Distances ==
    ASSUME NEW a \in Numbers, NEW b \in Numbers
    PROVE  /\ WrappingSub(a, b) = IF a >= b THEN a - b ELSE (a - b) + SequenceModulus
           /\ WrappingSub(a, b) \in Numbers
           /\ WrappingSub(a, WrappingSub(a, b)) = b
           /\ (a + 1) % SequenceModulus = IF a = SequenceModulus - 1 THEN 0 ELSE a + 1
           /\ (a + 1) % SequenceModulus \in Numbers
<1>1. PICK m : m = SequenceModulus
  OBVIOUS
<1>2. m \in Nat /\ m > 0 /\ Numbers = 0 .. m - 1
  BY <1>1, TrackerAssumption DEF Numbers
<1>3. PICK d : d = IF a >= b THEN a - b ELSE (a - b) + m
  OBVIOUS
<1>4. d \in Numbers /\ a - b \in Int /\ (a - b = d \/ a - b = d - m)
  BY <1>2, <1>3
<1>5. (a - b) % SequenceModulus = d
  BY <1>1, <1>4, RemainderIs
<1>6. WrappingSub(a, b) = d
  BY <1>5 DEF WrappingSub
<1>7. a - d \in Int /\ (a - d = b \/ a - d = b - m)
  BY <1>2, <1>3
<1>8. (a - d) % SequenceModulus = b
  BY <1>1, <1>7, RemainderIs
<1>9. WrappingSub(a, d) = b
  BY <1>8 DEF WrappingSub
<1>10. PICK e : e = IF a = m - 1 THEN 0 ELSE a + 1
  OBVIOUS
<1>11. e \in Numbers /\ a + 1 \in Int /\ (a + 1 = e \/ a + 1 = e + m)
  BY <1>2, <1>10
<1>12. (a + 1) % SequenceModulus = e
  BY <1>1, <1>11, RemainderIs
<1>. QED
  BY <1>1, <1>3, <1>4, <1>6, <1>9, <1>10, <1>11, <1>12

\* A step ahead is one further from all that lies behind.
LEMMA OneFurther ==
    ASSUME NEW a \in Numbers, NEW x \in Numbers, WrappingSub(a, x) + 1 < SequenceModulus
    PROVE  WrappingSub((a + 1) % SequenceModulus, x) = WrappingSub(a, x) + 1
<1>1. PICK m, b : m = SequenceModulus /\ b = (a + 1) % SequenceModulus
  OBVIOUS
<1>2. m \in Nat /\ m > 0 /\ Numbers = 0 .. m - 1
  BY <1>1, TrackerAssumption DEF Numbers
<1>3. /\ WrappingSub(a, x) = IF a >= x THEN a - x ELSE (a - x) + m
      /\ b = IF a = m - 1 THEN 0 ELSE a + 1
      /\ b \in Numbers
  BY <1>1, Distances
<1>4. WrappingSub(b, x) = IF b >= x THEN b - x ELSE (b - x) + m
  BY <1>1, <1>3, Distances
<1>5. PICK d, e : d = WrappingSub(a, x) /\ e = WrappingSub(b, x)
  OBVIOUS
<1>6. d + 1 < m
  BY <1>1, <1>5
<1>7. e = d + 1
  BY <1>2, <1>3, <1>4, <1>5, <1>6
<1>. QED
  BY <1>1, <1>5, <1>7

\* What a jump leaves missing is what lies that far behind.
LEMMA SkippedIs ==
    ASSUME NEW s \in Numbers, NEW diff \in Numbers
    PROVE  Skipped(s, diff) = {x \in Numbers : WrappingSub(s, x) \in 1 .. Min({diff, MaxTrackedGaps})}
<1>1. PICK c : c = Min({diff, MaxTrackedGaps})
  OBVIOUS
<1>2. MaxTrackedGaps \in Nat /\ SequenceModulus \in Nat
  BY TrackerAssumption
<1>3. c \in Nat /\ c <= diff
  <2>1. diff \in Int /\ diff \in Nat /\ MaxTrackedGaps \in Int
    BY <1>2 DEF Numbers
  <2>2. c = IF diff <= MaxTrackedGaps THEN diff ELSE MaxTrackedGaps
    BY <1>1, <2>1, MinOfTwo
  <2>. QED
    BY <1>2, <2>1, <2>2
<1>4. 1 .. c \subseteq Numbers
  BY <1>2, <1>3 DEF Numbers
<1>5. ASSUME NEW k \in 1 .. c
      PROVE  WrappingSub(s, k) \in Numbers /\ WrappingSub(s, WrappingSub(s, k)) = k
  <2>1. k \in Numbers
    BY <1>4
  <2>. QED
    BY <2>1, Distances, Zenon
<1>6. ASSUME NEW x \in Numbers
      PROVE  WrappingSub(s, WrappingSub(s, x)) = x
  BY Distances, Zenon
<1>7. Skipped(s, diff) = {WrappingSub(s, k) : k \in 1 .. c}
  BY <1>1, Zenon DEF Skipped
<1>8. ASSUME NEW x \in Skipped(s, diff)
      PROVE  x \in Numbers /\ WrappingSub(s, x) \in 1 .. c
  <2>1. PICK k \in 1 .. c : x = WrappingSub(s, k)
    BY <1>7, Zenon
  <2>. QED
    BY <1>5, <2>1, Zenon
<1>9. ASSUME NEW x \in Numbers, WrappingSub(s, x) \in 1 .. c
      PROVE  x \in Skipped(s, diff)
  <2>1. x = WrappingSub(s, WrappingSub(s, x))
    BY <1>6
  <2>. QED
    BY <1>7, <1>9, <2>1, Zenon
<1>. QED
  BY <1>1, <1>8, <1>9, Zenon
-----------------------------------------------------------------------------
\* The arrivals that jumped over something.
JumpsIn(a) == {i \in 1 .. Len(a) : Jumps(a, i) > 0}

\* What is missing after the jump at position last.
MissingAfter(a, last) ==
    {s \in Numbers : /\ WrappingSub(a[last], s) \in 1 .. Min({Jumps(a, last), MaxTrackedGaps})
                     /\ \A j \in last + 1 .. Len(a) : a[j] # s}

LEMMA MissingIs ==
    ASSUME NEW a
    PROVE  /\ JumpsIn(a) = {} => MissingOf(a) = {}
           /\ JumpsIn(a) # {} => MissingOf(a) = MissingAfter(a, Max(JumpsIn(a)))
  BY DEF MissingOf, JumpsIn, MissingAfter, Numbers

NextOf(a) == IF Len(a) = 0 THEN -1 ELSE (Newest(a, Len(a)) + 1) % SequenceModulus

\* A run of arrivals with one more.
Longer(b, a, s) == b = Append(a, s)

\* One more arrival: the jumps before it are what they were, and its own is its
\* distance from the sequence that was expected.
LEMMA OneMore ==
    ASSUME NEW a \in Seq(Numbers), NEW s \in Numbers, NEW b, Longer(b, a, s)
    PROVE  /\ Len(b) = Len(a) + 1 /\ Len(a) \in Nat /\ b[Len(a) + 1] = s
           /\ \A i \in 1 .. Len(a) : b[i] = a[i] /\ Jumps(b, i) = Jumps(a, i)
           /\ Newest(b, Len(b)) = Newer(Newest(a, Len(a)), s)
           /\ Len(a) = 0 => Jumps(b, 1) = 0 /\ Newest(b, 1) = s
           /\ Len(a) > 0 => Jumps(b, Len(b)) = LET gap == WrappingSub(s, NextOf(a))
                                               IN  IF Forward(gap) THEN gap ELSE 0
<1>1. PICK n : n = Len(a)
  OBVIOUS
<1>2. n \in Nat /\ Len(b) = n + 1 /\ b[n + 1] = s /\ \A i \in 1 .. n : b[i] = a[i]
  BY <1>1 DEF Longer
<1>3. ASSUME NEW k \in 0 .. n
      PROVE  Newest(b, k) = Newest(a, k)
  <2>1. k \in Nat /\ \A i \in 1 .. k : a[i] = b[i]
    BY <1>2
  <2>. QED
    BY <2>1, NewestOfPrefix
<1>4. ASSUME NEW i \in 1 .. n
      PROVE  b[i] = a[i] /\ Jumps(b, i) = Jumps(a, i)
  <2>1. i - 1 \in 0 .. n /\ b[i] = a[i]
    BY <1>2
  <2>2. Newest(b, i - 1) = Newest(a, i - 1)
    BY <1>3, <2>1, Zenon
  <2>. QED
    BY <2>1, <2>2, Zenon DEF Jumps
<1>5. /\ Newest(b, n + 1) = Newer(Newest(a, n), s)
      /\ Newest(a, 0) = -1
  <2>1. \A k \in 1 .. n : a[k] = b[k]
    BY <1>2
  <2>2. Newest(a, n) = Newest(b, n) /\ Newest(b, n + 1) = Newer(Newest(b, n), b[n + 1]) /\ Newest(a, 0) = -1
    BY <1>2, <2>1, NewestOfPrefix
  <2>. QED
    BY <1>2, <2>2, Zenon
<1>6. ASSUME n = 0
      PROVE  Jumps(b, 1) = 0 /\ Newest(b, 1) = s
  <2>1. Jumps(b, 1) = 0
    BY DEF Jumps
  <2>2. Newest(b, 0 + 1) = Newer(-1, s)
    BY <1>5, <1>6, Zenon
  <2>3. Newer(-1, s) = s
    BY DEF Newer
  <2>. QED
    BY <2>1, <2>2, <2>3
<1>7. ASSUME n > 0
      PROVE  Jumps(b, n + 1) = LET gap == WrappingSub(s, NextOf(a)) IN IF Forward(gap) THEN gap ELSE 0
  <2>1. n + 1 > 1 /\ (n + 1) - 1 = n /\ n \in 0 .. n /\ n # 0
    BY <1>2, <1>7
  <2>2. Newest(b, n) = Newest(a, n)
    BY <1>3, <2>1
  <2>3. NextOf(a) = (Newest(a, n) + 1) % SequenceModulus
    BY <1>1, <2>1, Zenon DEF NextOf
  <2>4. PICK gap : gap = WrappingSub(b[n + 1], (Newest(b, (n + 1) - 1) + 1) % SequenceModulus)
    OBVIOUS
  <2>5. Jumps(b, n + 1) = IF Forward(gap) THEN gap ELSE 0
    BY <2>1, <2>4, Zenon DEF Jumps
  <2>6. gap = WrappingSub(s, NextOf(a))
    <3>1. Newest(b, (n + 1) - 1) = Newest(a, n)
      BY <2>1, <2>2
    <3>. QED
      BY <1>2, <2>3, <2>4, <3>1, Zenon
  <2>. QED
    BY <2>5, <2>6, Zenon
<1>. QED
  BY <1>1, <1>2, <1>4, <1>5, <1>6, <1>7

\* The last jump is one of the jumps.
LEMMA LastJump ==
    ASSUME NEW n \in Nat, NEW J \in SUBSET (1 .. n), J # {}
    PROVE  Max(J) \in J /\ \A i \in J : i <= Max(J)
<1>1. J \in SUBSET Nat /\ IsFiniteSet(J)
  <2>1. IsFiniteSet(1 .. n)
    BY FS_Interval
  <2>2. IsFiniteSet(J)
    BY <2>1, FS_Subset, Zenon
  <2>3. \A i \in 1 .. n : i \in Nat
    OBVIOUS
  <2>. QED
    BY <2>2, <2>3, Zenon
<1>2. \E x \in J : \A y \in J : x >= y
  <2>1. PICK x \in J : \A y \in J : y <= x
    BY <1>1, GreatestElement
  <2>. QED
    BY <1>1, <2>1
<1>3. PICK m : m = Max(J)
  OBVIOUS
<1>4. m \in J /\ \A y \in J : m >= y
  BY <1>2, <1>3 DEF Max
<1>. QED
  BY <1>1, <1>3, <1>4

\* An arrival that jumps over nothing is no longer missing.
LEMMA MissingWithout ==
    ASSUME NEW a \in Seq(Numbers), NEW s \in Numbers, NEW b, Longer(b, a, s),
           Jumps(b, Len(b)) = 0
    PROVE  MissingOf(b) = MissingOf(a) \ {s}
<1>1. PICK n : n = Len(a)
  OBVIOUS
<1>2. /\ n \in Nat /\ Len(b) = n + 1 /\ b[n + 1] = s
      /\ \A i \in 1 .. n : b[i] = a[i] /\ Jumps(b, i) = Jumps(a, i)
  BY <1>1, OneMore
<1>3. ~(Jumps(b, n + 1) > 0)
  BY <1>2
<1>4. PICK J : J = JumpsIn(a)
  OBVIOUS
<1>5. JumpsIn(b) = J
  <2>1. 1 .. (n + 1) = (1 .. n) \cup {n + 1}
    BY <1>2
  <2>2. JumpsIn(b) = {i \in (1 .. n) \cup {n + 1} : Jumps(b, i) > 0}
    BY <1>2, <2>1, Zenon DEF JumpsIn
  <2>3. J = {i \in 1 .. n : Jumps(a, i) > 0}
    BY <1>1, <1>4, Zenon DEF JumpsIn
  <2>4. \A i : i \in JumpsIn(b) <=> i \in J
    BY <1>2, <1>3, <2>2, <2>3, Zenon
  <2>. QED
    BY <2>4, Zenon
<1>6. CASE J = {}
  <2>1. MissingOf(a) = {} /\ MissingOf(b) = {}
    BY <1>4, <1>5, <1>6, MissingIs, Zenon
  <2>. QED
    BY <2>1
<1>7. CASE J # {}
  <2>1. PICK last : last = Max(J)
    OBVIOUS
  <2>2. MissingOf(a) = MissingAfter(a, last) /\ MissingOf(b) = MissingAfter(b, last)
    BY <1>4, <1>5, <1>7, <2>1, MissingIs, Zenon
  <2>3. last \in J /\ J \in SUBSET (1 .. n)
    <3>1. J \in SUBSET (1 .. n)
      BY <1>1, <1>4 DEF JumpsIn
    <3>. QED
      BY <1>2, <1>7, <2>1, <3>1, LastJump
  <2>4. last \in 1 .. n /\ b[last] = a[last] /\ Jumps(b, last) = Jumps(a, last)
    BY <1>2, <2>3, Zenon
  <2>5. last + 1 .. Len(b) = (last + 1 .. n) \cup {n + 1} /\ n + 1 \notin last + 1 .. n
    BY <1>2, <2>4
  <2>6. \A j \in last + 1 .. n : b[j] = a[j]
    <3>1. \A j \in last + 1 .. n : j \in 1 .. n
      BY <1>2, <2>4
    <3>. QED
      BY <1>2, <3>1, Zenon
  <2>7. ASSUME NEW x
        PROVE  (\A j \in last + 1 .. Len(b) : b[j] # x) <=> (\A j \in last + 1 .. n : a[j] # x) /\ s # x
    BY <1>2, <2>5, <2>6, Zenon
  <2>8. PICK c : c = Min({Jumps(a, last), MaxTrackedGaps})
    OBVIOUS
  <2>9. /\ MissingAfter(b, last) = {x \in Numbers : /\ WrappingSub(a[last], x) \in 1 .. c
                                                    /\ \A j \in last + 1 .. Len(b) : b[j] # x}
        /\ MissingAfter(a, last) = {x \in Numbers : /\ WrappingSub(a[last], x) \in 1 .. c
                                                    /\ \A j \in last + 1 .. n : a[j] # x}
    BY <1>1, <2>4, <2>8, Zenon DEF MissingAfter
  <2>10. \A x : x \in MissingAfter(b, last) <=> x \in MissingAfter(a, last) /\ x # s
    BY <2>7, <2>9, Zenon
  <2>. QED
    BY <2>2, <2>10, Zenon
<1>. QED
  BY <1>6, <1>7, Zenon

\* After an arrival that jumps, what it jumped over is missing.
LEMMA MissingAfresh ==
    ASSUME NEW a \in Seq(Numbers), NEW s \in Numbers, NEW b, Longer(b, a, s),
           NEW diff \in Numbers, diff > 0, Jumps(b, Len(b)) = diff
    PROVE  MissingOf(b) = Skipped(s, diff)
<1>1. PICK n : n = Len(b)
  OBVIOUS
<1>2. n \in Nat /\ n > 0 /\ b[n] = s
  <2>1. Len(b) = Len(a) + 1 /\ Len(a) \in Nat /\ b[Len(a) + 1] = s
    BY OneMore
  <2>. QED
    BY <1>1, <2>1
<1>3. PICK J : J = JumpsIn(b)
  OBVIOUS
<1>4. n \in J /\ J \in SUBSET (1 .. n)
  BY <1>1, <1>2, <1>3 DEF JumpsIn
<1>5. Max(J) = n
  <2>1. PICK m : m = Max(J)
    OBVIOUS
  <2>2. m \in J /\ n <= m
    BY <1>2, <1>4, <2>1, LastJump
  <2>. QED
    BY <1>2, <1>4, <2>1, <2>2
<1>6. MissingOf(b) = MissingAfter(b, n)
  BY <1>3, <1>4, <1>5, MissingIs, Zenon
<1>7. \A j \in n + 1 .. n : FALSE
  BY <1>2
<1>8. PICK c : c = Min({diff, MaxTrackedGaps})
  OBVIOUS
<1>9. MissingAfter(b, n) = {x \in Numbers : WrappingSub(s, x) \in 1 .. c}
  BY <1>1, <1>2, <1>7, <1>8, Zenon DEF MissingAfter
<1>10. Skipped(s, diff) = {x \in Numbers : WrappingSub(s, x) \in 1 .. c}
  <2>1. Skipped(s, diff) = {x \in Numbers : WrappingSub(s, x) \in 1 .. Min({diff, MaxTrackedGaps})}
    BY SkippedIs
  <2>. QED
    BY <1>8, <2>1
<1>. QED
  BY <1>6, <1>9, <1>10, Zenon
-----------------------------------------------------------------------------
\* All that is missing lies behind what is expected, no further than the gaps
\* that are tracked and the arrivals since.
Behind(t, n) ==
    \A x \in t.missing : WrappingSub(t.next_expected, x) \in 1 .. (MaxTrackedGaps + n) - 1

TrackerOK(t, a) ==
    /\ a \in Seq(Numbers) /\ Len(a) <= ArrivalLimit /\ t \in Trackers
    /\ t.next_expected = NextOf(a)
    /\ Len(a) > 0 => Newest(a, Len(a)) \in Numbers
    /\ t.missing = MissingOf(a) /\ Behind(t, Len(a))

ArrivalInv == TrackerOK(tracker, arrivals)

\* A packet is observed.
LEMMA ObserveStep ==
    ASSUME NEW t, NEW a, TrackerOK(t, a), Len(a) < ArrivalLimit, NEW s \in Numbers
    PROVE  TrackerOK(ObserveSequence(t, s), Append(a, s))
<1>1. PICK n, b, u, next : n = Len(a) /\ b = Append(a, s) /\ u = ObserveSequence(t, s) /\ next = t.next_expected
  OBVIOUS
<1>2. /\ a \in Seq(Numbers) /\ t \in Trackers /\ next = NextOf(a) /\ t.missing = MissingOf(a) /\ Behind(t, n)
      /\ Longer(b, a, s)
  BY <1>1, Zenon DEF TrackerOK, Longer
<1>3. /\ Len(b) = n + 1 /\ n \in Nat
      /\ Newest(b, Len(b)) = Newer(Newest(a, n), s)
      /\ n = 0 => Jumps(b, 1) = 0 /\ Newest(b, 1) = s
      /\ n > 0 => Jumps(b, Len(b)) = LET gap == WrappingSub(s, next) IN IF Forward(gap) THEN gap ELSE 0
  <2>1. /\ Len(b) = Len(a) + 1 /\ Len(a) \in Nat
        /\ Newest(b, Len(b)) = Newer(Newest(a, Len(a)), s)
        /\ Len(a) = 0 => Jumps(b, 1) = 0 /\ Newest(b, 1) = s
        /\ Len(a) > 0 => Jumps(b, Len(b)) = LET gap == WrappingSub(s, NextOf(a))
                                            IN  IF Forward(gap) THEN gap ELSE 0
    BY <1>2, OneMore
  <2>. QED
    BY <1>1, <1>2, <2>1, Zenon
<1>4. b \in Seq(Numbers) /\ Len(b) <= ArrivalLimit
  <2>1. b \in Seq(Numbers)
    BY <1>1, <1>2
  <2>2. ArrivalLimit \in Nat
    BY ArrivalAssumption
  <2>. QED
    BY <1>1, <1>3, <2>1, <2>2
<1>5. t.missing \in SUBSET Numbers /\ t = [next_expected |-> next, missing |-> t.missing]
  BY <1>1, <1>2 DEF Trackers, Numbers
<1>6. PICK after : after = (s + 1) % SequenceModulus
  OBVIOUS
<1>7. after \in Numbers
  BY <1>6, Distances
<1>8. \A e \in Numbers, M \in SUBSET Numbers : [next_expected |-> e, missing |-> M] \in Trackers
  <2>1. \A e \in Numbers : e \in -1 .. SequenceModulus - 1
    BY TrackerAssumption DEF Numbers
  <2>. QED
    BY <2>1 DEF Trackers, Numbers
<1>9. SequenceModulus \in Nat /\ SequenceModulus > 0 /\ MaxTrackedGaps \in Nat /\ ArrivalLimit \in Nat
      /\ ArrivalLimit + MaxTrackedGaps <= SequenceModulus
  BY TrackerAssumption, ArrivalAssumption
<1>10. CASE n = 0
  <2>1. next = -1
    BY <1>1, <1>2, <1>10 DEF NextOf
  <2>2. u = [next_expected |-> after, missing |-> t.missing]
    BY <1>1, <1>5, <1>6, <2>1 DEF ObserveSequence
  <2>3. t.missing = {} /\ MissingOf(b) = {}
    <3>1. JumpsIn(a) = {}
      BY <1>1, <1>10 DEF JumpsIn
    <3>2. JumpsIn(b) = {}
      BY <1>3, <1>10 DEF JumpsIn
    <3>. QED
      BY <1>2, <3>1, <3>2, MissingIs, Zenon
  <2>4. Len(b) = 1 /\ Newest(b, Len(b)) = s
    BY <1>3, <1>10
  <2>5. NextOf(b) = after
    BY <1>6, <2>4 DEF NextOf
  <2>6. u \in Trackers /\ u.next_expected = after /\ u.missing = {}
    BY <1>5, <1>7, <1>8, <2>2, <2>3
  <2>7. Behind(u, Len(b))
    BY <2>6 DEF Behind
  <2>8. TrackerOK(u, b)
    BY <1>4, <2>3, <2>4, <2>5, <2>6, <2>7, Zenon DEF TrackerOK
  <2>. QED
    BY <1>1, <2>8, Zenon
<1>11. CASE n > 0
  <2>1. PICK newest : newest = Newest(a, n)
    OBVIOUS
  <2>2. newest \in Numbers /\ next = (newest + 1) % SequenceModulus
    <3>1. Len(a) > 0 /\ Len(a) # 0
      BY <1>1, <1>3, <1>11
    <3>. QED
      BY <1>1, <1>2, <2>1, <3>1, Zenon DEF TrackerOK, NextOf
  <2>3. next \in Numbers /\ next # -1 /\ newest # -1
    <3>1. next \in Numbers
      BY <2>2, Distances
    <3>. QED
      BY <2>2, <3>1 DEF Numbers
  <2>4. PICK diff : diff = WrappingSub(s, next)
    OBVIOUS
  <2>5. diff \in Numbers /\ diff = (IF s >= next THEN s - next ELSE (s - next) + SequenceModulus)
    BY <2>3, <2>4, Distances
  <2>6. u = IF Forward(diff)
            THEN [next_expected |-> after, missing |-> IF diff > 0 THEN Skipped(s, diff) ELSE t.missing]
            ELSE [t EXCEPT !.missing = @ \ {s}]
    BY <1>1, <1>6, <2>3, <2>4, Zenon DEF ObserveSequence
  <2>7. Newest(b, Len(b)) = (IF Forward(diff) THEN s ELSE newest)
    BY <1>3, <2>1, <2>2, <2>3, <2>4, Zenon DEF Newer
  <2>8. Jumps(b, Len(b)) = (IF Forward(diff) THEN diff ELSE 0)
    BY <1>3, <1>11, <2>4, Zenon
  <2>9. NextOf(b) = (Newest(b, Len(b)) + 1) % SequenceModulus
    <3>1. Len(b) # 0
      BY <1>3
    <3>. QED
      BY <3>1, Zenon DEF NextOf
  <2>10. \A x \in t.missing : WrappingSub(next, x) \in 1 .. (MaxTrackedGaps + n) - 1
    BY <1>1, <1>2, Zenon DEF Behind
  <2>11. CASE Forward(diff) /\ diff > 0
    <3>1. PICK M : M = Skipped(s, diff)
      OBVIOUS
    <3>2. MissingOf(b) = M
      BY <1>1, <1>2, <2>5, <2>8, <2>11, <3>1, MissingAfresh
    <3>3. PICK c : c = Min({diff, MaxTrackedGaps})
      OBVIOUS
    <3>4. M = {x \in Numbers : WrappingSub(s, x) \in 1 .. c}
      <4>1. Skipped(s, diff) = {x \in Numbers : WrappingSub(s, x) \in 1 .. Min({diff, MaxTrackedGaps})}
        BY <2>5, SkippedIs
      <4>. QED
        BY <3>1, <3>3, <4>1
    <3>5. c \in Nat /\ c <= diff /\ c <= MaxTrackedGaps
      <4>1. diff \in Int /\ diff \in Nat /\ MaxTrackedGaps \in Int
        BY <1>9, <2>5 DEF Numbers
      <4>2. c = IF diff <= MaxTrackedGaps THEN diff ELSE MaxTrackedGaps
        BY <3>3, <4>1, MinOfTwo
      <4>. QED
        BY <1>9, <4>1, <4>2
    <3>6. diff + 1 < SequenceModulus /\ diff \in Nat
      <4>1. diff < SequenceModulus \div 2
        BY <2>11, Zenon DEF Forward
      <4>2. diff \in Nat
        BY <1>9, <2>5 DEF Numbers
      <4>. QED
        BY <1>9, <4>1, <4>2
    <3>7. u = [next_expected |-> after, missing |-> M]
      BY <2>6, <2>11, <3>1, Zenon
    <3>8. u \in Trackers /\ u.next_expected = after /\ u.missing = M
      <4>1. M \in SUBSET Numbers
        BY <3>4
      <4>. QED
        BY <1>7, <1>8, <3>7, <4>1
    <3>9. NextOf(b) = after /\ Newest(b, Len(b)) \in Numbers
      BY <1>6, <2>7, <2>9, <2>11, Zenon
    <3>10. ASSUME NEW x \in M
           PROVE  WrappingSub(after, x) \in 1 .. (MaxTrackedGaps + (n + 1)) - 1
      <4>1. PICK d : d = WrappingSub(s, x)
        OBVIOUS
      <4>2. x \in Numbers /\ d \in 1 .. c
        BY <3>4, <4>1
      <4>3. d + 1 < SequenceModulus
        BY <1>9, <3>5, <3>6, <4>2
      <4>4. WrappingSub(after, x) = d + 1
        BY <1>6, <4>1, <4>2, <4>3, OneFurther
      <4>. QED
        BY <1>3, <1>9, <1>11, <3>5, <4>2, <4>4
    <3>11. Behind(u, Len(b))
      BY <1>3, <3>8, <3>10, Zenon DEF Behind
    <3>12. TrackerOK(u, b)
      BY <1>4, <3>2, <3>8, <3>9, <3>11, Zenon DEF TrackerOK
    <3>. QED
      BY <1>1, <3>12, Zenon
  <2>12. CASE Forward(diff) /\ ~(diff > 0)
    <3>1. diff = 0 /\ s = next
      BY <1>9, <2>3, <2>5, <2>12 DEF Numbers
    <3>2. u = [next_expected |-> after, missing |-> t.missing]
      BY <2>6, <2>12, Zenon
    <3>3. s \notin t.missing
      <4>1. WrappingSub(next, s) = 0
        BY <2>4, <3>1
      <4>2. 0 \notin 1 .. (MaxTrackedGaps + n) - 1
        BY <1>3, <1>9
      <4>. QED
        BY <2>10, <4>1, <4>2, Zenon
    <3>4. Jumps(b, Len(b)) = 0
      BY <2>8, <2>12, <3>1, Zenon
    <3>5. MissingOf(b) = MissingOf(a) \ {s}
      BY <1>1, <1>2, <3>4, MissingWithout
    <3>6. MissingOf(b) = t.missing
      BY <1>2, <3>3, <3>5, Zenon
    <3>7. u \in Trackers /\ u.next_expected = after /\ u.missing = t.missing
      BY <1>5, <1>7, <1>8, <3>2
    <3>8. NextOf(b) = after /\ Newest(b, Len(b)) \in Numbers
      BY <1>6, <2>7, <2>9, <2>12, Zenon
    <3>9. ASSUME NEW x \in t.missing
          PROVE  WrappingSub(after, x) \in 1 .. (MaxTrackedGaps + (n + 1)) - 1
      <4>1. PICK d : d = WrappingSub(s, x)
        OBVIOUS
      <4>2. x \in Numbers /\ d \in 1 .. (MaxTrackedGaps + n) - 1
        BY <1>5, <2>10, <3>1, <4>1, Zenon
      <4>3. d + 1 < SequenceModulus
        BY <1>1, <1>3, <1>9, <4>2
      <4>4. WrappingSub(after, x) = d + 1
        BY <1>6, <4>1, <4>2, <4>3, OneFurther
      <4>. QED
        BY <1>3, <1>9, <4>2, <4>4
    <3>10. Behind(u, Len(b))
      BY <1>3, <3>7, <3>9, Zenon DEF Behind
    <3>11. TrackerOK(u, b)
      BY <1>4, <3>6, <3>7, <3>8, <3>10, Zenon DEF TrackerOK
    <3>. QED
      BY <1>1, <3>11, Zenon
  <2>13. CASE ~Forward(diff)
    <3>1. PICK M : M = t.missing \ {s}
      OBVIOUS
    <3>2. u = [t EXCEPT !.missing = @ \ {s}]
      BY <2>6, <2>13, Zenon
    <3>3. Jumps(b, Len(b)) = 0
      BY <2>8, <2>13, Zenon
    <3>4. MissingOf(b) = MissingOf(a) \ {s}
      BY <1>1, <1>2, <3>3, MissingWithout
    <3>5. MissingOf(b) = M
      BY <1>2, <3>1, <3>4, Zenon
    <3>6. u \in Trackers /\ u.next_expected = next /\ u.missing = M
      <4>1. M \in SUBSET Numbers
        BY <1>5, <3>1
      <4>2. u.next_expected = next /\ u.missing = M
        BY <1>1, <1>2, <3>1, <3>2 DEF Trackers
      <4>3. u \in Trackers
        BY <1>2, <3>1, <3>2, <4>1 DEF Trackers, Numbers
      <4>. QED
        BY <4>2, <4>3
    <3>7. NextOf(b) = next /\ Newest(b, Len(b)) \in Numbers
      BY <2>2, <2>7, <2>9, <2>13, Zenon
    <3>8. ASSUME NEW x \in M
          PROVE  WrappingSub(next, x) \in 1 .. (MaxTrackedGaps + (n + 1)) - 1
      <4>1. PICK d : d = WrappingSub(next, x)
        OBVIOUS
      <4>2. d \in 1 .. (MaxTrackedGaps + n) - 1
        BY <2>10, <3>1, <4>1
      <4>. QED
        BY <1>3, <1>9, <4>1, <4>2
    <3>9. Behind(u, Len(b))
      BY <1>3, <3>6, <3>8, Zenon DEF Behind
    <3>10. TrackerOK(u, b)
      BY <1>4, <3>5, <3>6, <3>7, <3>9, Zenon DEF TrackerOK
    <3>. QED
      BY <1>1, <3>10, Zenon
  <2>. QED
    BY <2>11, <2>12, <2>13, Zenon
<1>12. n = 0 \/ n > 0
  BY <1>3
<1>. QED
  BY <1>10, <1>11, <1>12, Zenon

\* The invariant of the sequence tracker: what it expects follows the newest
\* arrival, what it tracks as missing is what the arrivals say, and all of that
\* lies behind what it expects, so that a packet that is expected is never one
\* that is missing (observe, udp_fec.rs:269-302).
THEOREM ArrivalInvariant == ArrivalSpec => []ArrivalInv
<1>1. ArrivalInit => ArrivalInv
  <2>. SUFFICES ASSUME ArrivalInit
                PROVE  ArrivalInv
    OBVIOUS
  <2>1. PICK t, a : t = tracker /\ a = arrivals
    OBVIOUS
  <2>2. t = [next_expected |-> -1, missing |-> {}] /\ a = <<>>
    BY <2>1 DEF ArrivalInit, NoTracker
  <2>3. a \in Seq(Numbers) /\ Len(a) = 0 /\ Len(a) <= ArrivalLimit
    BY <2>2, ArrivalAssumption
  <2>4. t \in Trackers /\ t.next_expected = -1 /\ t.missing = {}
    <3>1. -1 \in -1 .. SequenceModulus - 1
      BY TrackerAssumption
    <3>. QED
      BY <2>2, <3>1 DEF Trackers
  <2>5. NextOf(a) = -1
    BY <2>3 DEF NextOf
  <2>6. MissingOf(a) = {}
    <3>1. JumpsIn(a) = {}
      BY <2>3 DEF JumpsIn
    <3>. QED
      BY <3>1, MissingIs, Zenon
  <2>7. Behind(t, Len(a))
    BY <2>4 DEF Behind
  <2>8. ~(Len(a) > 0)
    BY <2>3
  <2>. QED
    BY <2>1, <2>3, <2>4, <2>5, <2>6, <2>7, <2>8, Zenon DEF ArrivalInv, TrackerOK
<1>2. ArrivalInv /\ [ArrivalNext]_arrivalVars => ArrivalInv'
  <2>. SUFFICES ASSUME ArrivalInv, [ArrivalNext]_arrivalVars
                PROVE  ArrivalInv'
    OBVIOUS
  <2>1. CASE ArrivalNext
    <3>1. PICK s \in Numbers : PacketArrives(s)
      BY <2>1, Zenon DEF ArrivalNext, Numbers
    <3>2. /\ Len(arrivals) < ArrivalLimit /\ tracker' = ObserveSequence(tracker, s)
          /\ arrivals' = Append(arrivals, s)
      BY <3>1, Zenon DEF PacketArrives
    <3>3. TrackerOK(ObserveSequence(tracker, s), Append(arrivals, s))
      BY <3>2, ObserveStep, Zenon DEF ArrivalInv
    <3>. QED
      BY <3>2, <3>3, Zenon DEF ArrivalInv
  <2>2. CASE UNCHANGED arrivalVars
    BY <2>2, Zenon DEF ArrivalInv, arrivalVars
  <2>. QED
    BY <2>1, <2>2, Zenon
<1>. QED
  BY <1>1, <1>2, PTL DEF ArrivalSpec

\* For every modulus and limit of gaps, and any run of packets too short to come
\* round to a gap again, the tracker names as missing exactly what the arrivals
\* say (observe, udp_fec.rs:269-302).
THEOREM GapsAreKnown == ArrivalSpec => []GapsFollowArrivals
<1>1. ArrivalInv => GapsFollowArrivals
  BY Zenon DEF ArrivalInv, TrackerOK, GapsFollowArrivals
<1>. QED
  BY <1>1, ArrivalInvariant, PTL

=============================================================================
