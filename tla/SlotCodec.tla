------------------------------- MODULE SlotCodec -------------------------------
(***************************************************************************)
(* What the slots of the chunk cache hold (src/src/main.rs): canonical     *)
(* objects behind an index of their ranges (AVMOBJS1), fMP4 slots          *)
(* (AVFMP4S1), plain bytes, reboxed Soundkit bundles, and the access units *)
(* of the media lane.  One cache holds them all, under stream and          *)
(* sequence; a reader tells them apart by what it finds.                   *)
(*                                                                         *)
(* Abstraction: bytes are sequences of integers, one for each byte of      *)
(* media and one for each field of a header, so that header lengths,       *)
(* offsets and ranges keep their arithmetic.  Magics are negative.  Crates *)
(* other than this one (media_object, the rebox, the media header) appear  *)
(* as what the code relies on.                                             *)
(***************************************************************************)
EXTENDS Integers, Sequences, FiniteSets, Maps

CONSTANTS SlotStreams,     \* stream ids, natural numbers
          SlotSequences,   \* object sequences
          SlotObjects,     \* canonical objects that may be committed
          SlotPayloads,    \* payloads of the legacy lane
          SlotUnits,       \* payloads of access units
          SlotWrites       \* bound: slots written

\* What an object's kind and metadata may say.
ObjectKinds == <<"media", "initialization", "configuration", "discontinuity">>
Containers  == <<"fmp4", "opaque", "none">>
Formats     == <<"fmp4-slot-v1", "opaque-part-v1", "soundkit-v2-bundle", "none">>

ASSUME SlotAssumption ==
    /\ SlotStreams \subseteq Nat /\ SlotSequences \subseteq Nat
    /\ \A o \in SlotObjects :
          /\ \E i \in DOMAIN ObjectKinds : o.kind = ObjectKinds[i]
          /\ \E i \in DOMAIN Containers : o.container = Containers[i]
          /\ \E i \in DOMAIN Formats : o.format = Formats[i]
          /\ o.stream \in SlotStreams /\ o.seq \in SlotSequences
          /\ o.payload \in Seq(Int)
    /\ SlotWrites \in Nat

VARIABLES slots,        \* <<stream, sequence>> -> bytes
          slot_next,    \* stream_next_seq
          slot_source   \* history: <<stream, sequence>> -> what was put there

slotVars == <<slots, slot_next, slot_source>>

CanonicalMagic == -1   \* AVMOBJS1
WireMagic      == -2   \* media_object::WIRE_MAGIC
SlotMagic      == -3   \* AVFMP4S1
BundleMagic    == -4   \* the Soundkit v2 bundle
UnitMagic      == -5   \* MediaFragmentHeader
Starts(bytes, magic) == bytes # <<>> /\ bytes[1] = magic

EnvelopeHeader == 6   \* magic, stream, sequence, kind, container, format

\* external: media_object::encode, whose payload is the tail of the envelope.
Envelope(o) ==
    LET tag(values, value) == CHOOSE i \in DOMAIN values : values[i] = value
    IN  <<WireMagic, o.stream, o.seq, tag(ObjectKinds, o.kind), tag(Containers, o.container),
          tag(Formats, o.format)>> \o o.payload

\* external: what media_object::decode accepts, and the object it makes of it.
IsEnvelope(bytes) ==
    /\ Len(bytes) >= EnvelopeHeader /\ Starts(bytes, WireMagic)
    /\ bytes[4] \in DOMAIN ObjectKinds
    /\ bytes[5] \in DOMAIN Containers /\ bytes[6] \in DOMAIN Formats

Opened(bytes) ==
    [stream |-> bytes[2], seq |-> bytes[3], kind |-> ObjectKinds[bytes[4]],
     container |-> Containers[bytes[5]], format |-> Formats[bytes[6]],
     payload |-> SubSeq(bytes, EnvelopeHeader + 1, Len(bytes))]

Invalid == [slot |-> "invalid", kind |-> "ts", init |-> <<>>, media |-> <<>>]
Fmp4(init, media) == [slot |-> "fmp4", kind |-> "fmp4", init |-> init, media |-> media]
Opaque(media, kind) == [slot |-> "opaque", kind |-> kind, init |-> <<>>, media |-> media]
-----------------------------------------------------------------------------
SlotHeader == 3   \* magic, init_len, media_len

\* The lengths of a header fill the bytes exactly.
IsFmp4Slot(bytes) ==
    /\ Len(bytes) >= SlotHeader /\ Starts(bytes, SlotMagic)
    /\ SlotHeader + bytes[2] + bytes[3] = Len(bytes)

DecodeFmp4Slot(bytes) ==
    Fmp4(SubSeq(bytes, SlotHeader + 1, SlotHeader + bytes[2]),
         SubSeq(bytes, SlotHeader + bytes[2] + 1, Len(bytes)))

EncodeFmp4Slot(init, media) == <<SlotMagic, Len(init), Len(media)>> \o init \o media

IsOpaque(o) == o.container = "opaque" /\ o.format = "opaque-part-v1"

\* decode_inner of an envelope: what the object says it is.
DecodeObject(o, stream) ==
    IF o.stream # stream THEN Invalid
    ELSE CASE o.kind = "media" /\ o.container = "fmp4" /\ o.format = "fmp4-slot-v1" ->
                IF IsFmp4Slot(o.payload) THEN DecodeFmp4Slot(o.payload) ELSE Invalid
           [] o.kind = "media" /\ o.container = "fmp4" /\ o.format # "fmp4-slot-v1" ->
                Fmp4(<<>>, o.payload)
           [] o.kind = "media" /\ o.container # "fmp4" ->
                Opaque(o.payload, IF IsOpaque(o) THEN "opaque" ELSE "ts")
           [] o.kind \in {"initialization", "configuration"} /\ o.container = "fmp4" ->
                Fmp4(o.payload, <<>>)
           [] OTHER -> Invalid
-----------------------------------------------------------------------------
CanonicalHeader == 8
TagOf(kind) == CASE kind = "fmp4" -> 0 [] kind = "opaque" -> 1 [] kind = "ts" -> 2
KindOf(tag) == CASE tag = 0 -> "fmp4" [] tag = 1 -> "opaque" [] tag = 2 -> "ts"

\* The kind a commit gives an object that is not reboxed.
MediaKind(o) == IF o.container = "fmp4" THEN "fmp4" ELSE IF IsOpaque(o) THEN "opaque" ELSE "ts"

HoldsSlot(o) == MediaKind(o) = "fmp4" /\ o.format = "fmp4-slot-v1"

PayloadOffset(o) == CanonicalHeader + Len(Envelope(o)) - Len(o.payload)

\* Slots recognised by the name of their format only.
BugRanges(o) ==
    IF o.format = "fmp4-slot-v1" /\ IsFmp4Slot(o.payload)
    THEN LET start == PayloadOffset(o) + SlotHeader
         IN  <<IF o.payload[2] > 0 THEN start ELSE 0, o.payload[2],
               start + o.payload[2], o.payload[3]>>
    ELSE <<0, 0, PayloadOffset(o), Len(o.payload)>>

\* Where the initialization and the media are: offset and length of each.
Ranges(o) ==
    IF HoldsSlot(o)
    THEN LET start == PayloadOffset(o) + SlotHeader
         IN  <<IF o.payload[2] > 0 THEN start ELSE 0, o.payload[2],
               start + o.payload[2], o.payload[3]>>
    ELSE <<0, 0, PayloadOffset(o), Len(o.payload)>>

\* Only non-empty media enters the cache, and a slot in it must be whole.
Encodable(o) ==
    /\ o.kind = "media" /\ o.payload # <<>>
    /\ HoldsSlot(o) => IsFmp4Slot(o.payload)

EncodeCanonical(o) ==
    <<CanonicalMagic, o.stream, TagOf(MediaKind(o)), Len(Envelope(o))>> \o Ranges(o) \o Envelope(o)

\* An absent initialization has no offset, and ranges lie behind the header.
ValidCanonical(bytes, stream) ==
    LET inside(offset, len) == offset >= CanonicalHeader /\ offset + len <= Len(bytes)
    IN  /\ Len(bytes) >= CanonicalHeader
        /\ bytes[2] = stream
        /\ bytes[3] \in 0 .. 2
        /\ bytes[4] = Len(bytes) - CanonicalHeader
        /\ Starts(SubSeq(bytes, CanonicalHeader + 1, Len(bytes)), WireMagic)
        /\ IF bytes[6] = 0 THEN bytes[5] = 0 ELSE inside(bytes[5], bytes[6])
        /\ inside(bytes[7], bytes[8])
        /\ bytes[3] # TagOf("fmp4") => bytes[6] = 0

Slice(bytes, offset, len) == SubSeq(bytes, offset + 1, offset + len)

DecodeCanonical(bytes, stream) ==
    IF ~ValidCanonical(bytes, stream) THEN Invalid
    ELSE LET media == Slice(bytes, bytes[7], bytes[8])
         IN  IF KindOf(bytes[3]) = "fmp4" THEN Fmp4(Slice(bytes, bytes[5], bytes[6]), media)
             ELSE Opaque(media, KindOf(bytes[3]))

\* decode_for_stream of a cached slot: the first bytes decide what it is read as.
DecodeSlot(bytes, stream) ==
    IF Starts(bytes, CanonicalMagic) THEN DecodeCanonical(bytes, stream)
    ELSE IF Starts(bytes, WireMagic)
         THEN IF IsEnvelope(bytes) THEN DecodeObject(Opened(bytes), stream) ELSE Invalid
    ELSE IF IsFmp4Slot(bytes) THEN DecodeFmp4Slot(bytes)
    ELSE Opaque(bytes, "ts")
-----------------------------------------------------------------------------
BundleHeader == 5   \* magic, codec, epoch_count, base_group_id, track_count

\* Where the entry of each epoch begins, as long as the entries fit.
EntryAt(payload) ==
    LET at[epoch \in 0 .. payload[3]] ==
            IF epoch = 0 THEN BundleHeader
            ELSE LET offset == at[epoch - 1]
                 IN  IF offset < 0 \/ offset + 2 > Len(payload) THEN -1
                     ELSE IF payload[offset + 1] # payload[4] THEN -1
                     ELSE IF offset + 2 + payload[offset + 2] > Len(payload) THEN -1
                     ELSE offset + 2 + payload[offset + 2]
    IN  at

\* One track, the same group in every epoch, and nothing behind the last entry.
ValidBundle(payload) ==
    /\ Len(payload) >= BundleHeader /\ Starts(payload, BundleMagic)
    /\ payload[2] \in {1, 2} /\ payload[3] > 0 /\ payload[5] = 1
    /\ EntryAt(payload)[payload[3]] = Len(payload)

\* The frames of all epochs, in their order.
Framed(payload) ==
    LET at == EntryAt(payload)
        upto[epoch \in 0 .. payload[3]] ==
            IF epoch = 0 THEN <<>>
            ELSE upto[epoch - 1] \o SubSeq(payload, at[epoch - 1] + 3, at[epoch])
    IN  upto[payload[3]]

\* external: rebox_soundkit_v2 makes an initialization and a fragment of frames
\* of one codec.
Reboxes(payload) == Framed(payload) # <<>> /\ Framed(payload)[1] = payload[2]

\* The presentation time a bundle starts at, in epochs.
StartPts(o) == o.seq * o.payload[3]

Reboxed(o) == Fmp4(<<o.payload[2]>>, <<StartPts(o)>> \o Framed(o.payload))

IsBundle(o) == o.kind = "media" /\ o.format = "soundkit-v2-bundle"
-----------------------------------------------------------------------------
Accepted(o) ==
    IF IsBundle(o) THEN ValidBundle(o.payload) /\ Reboxes(o.payload) ELSE Encodable(o)

CachedForm(o) ==
    IF IsBundle(o) THEN EncodeFmp4Slot(Reboxed(o).init, Reboxed(o).media) ELSE EncodeCanonical(o)

Put(key, bytes, source) ==
    /\ Cardinality(DOMAIN slots \cup {key}) <= SlotWrites
    /\ slots' = With(slots, key, bytes)
    /\ slot_source' = With(slot_source, key, source)

Raised(stream, seq) == [slot_next EXCEPT ![stream] = IF @ > seq THEN @ ELSE seq + 1]

\* A canonical object.  A bundle that cannot be reboxed changes nothing; any
\* other object's sequence counts, even when it is no media or not encodable; a
\* slot that holds other bytes is a conflict of identities, and stays.
CommitObject(o) ==
    /\ IsBundle(o) => Accepted(o)
    /\ slot_next' = Raised(o.stream, o.seq)
    /\ IF /\ Accepted(o)
          /\ Entry(slots, <<o.stream, o.seq>>, CachedForm(o)) = CachedForm(o)
       THEN Put(<<o.stream, o.seq>>, CachedForm(o), [lane |-> "object", object |-> o])
       ELSE UNCHANGED <<slots, slot_source>>

\* A payload from a carrier.  An envelope is committed as the object it holds, if
\* it opens and is of the carrier's stream; anything else takes the next sequence
\* of its stream and is kept as it came, whatever it starts with.
CommitPayload(stream, payload) ==
    IF Starts(payload, WireMagic)
    THEN /\ IsEnvelope(payload) /\ Opened(payload).stream = stream
         /\ CommitObject(Opened(payload))
    ELSE /\ slot_next[stream] \in SlotSequences
         /\ slot_next' = Raised(stream, slot_next[stream])
         /\ Put(<<stream, slot_next[stream]>>, payload, [lane |-> "payload", payload |-> payload])

UnitHeader == 7   \* magic, stream, sequence, index, count, length, offset

\* The whole access unit behind the header of a single fragment.
UnitBytes(stream, seq, payload) ==
    <<UnitMagic, stream, seq, 0, 1, Len(payload), 0>> \o payload

\* add_media_access_unit of a frame the media decoder gave out: a prefix that
\* names another stream than the frame is refused before.
AddAccessUnit(prefix, stream, seq, payload) ==
    /\ prefix = stream
    /\ Put(<<stream, seq>>, UnitBytes(stream, seq, payload), [lane |-> "unit", payload |-> payload])
    /\ UNCHANGED slot_next

NoUnit == <<>>

\* get_media_access_unit: one whole fragment, of this stream and sequence.
UnitAt(stream, seq) ==
    LET bytes == slots[<<stream, seq>>]
    IN  IF /\ Len(bytes) >= UnitHeader /\ Starts(bytes, UnitMagic)
           /\ SubSeq(bytes, 2, UnitHeader) = <<stream, seq, 0, 1, Len(bytes) - UnitHeader, 0>>
        THEN SubSeq(bytes, UnitHeader + 1, Len(bytes)) ELSE NoUnit

SlotsInit ==
    /\ slots = EmptyMap /\ slot_source = EmptyMap
    /\ slot_next = [s \in SlotStreams |-> 0]

SlotsNext ==
    \/ \E o \in SlotObjects : CommitObject(o)
    \/ \E s \in SlotStreams : \E p \in SlotPayloads : CommitPayload(s, p)
    \/ \E x, s \in SlotStreams, q \in SlotSequences, u \in SlotUnits : AddAccessUnit(x, s, q, u)

SlotsSpec == SlotsInit /\ [][SlotsNext]_slotVars
-----------------------------------------------------------------------------
\* The object a slot was made of: reboxed, or as its envelope decodes.
Committed(o) == IF IsBundle(o) THEN Reboxed(o) ELSE DecodeSlot(Envelope(o), o.stream)

\* The index in front of a canonical object gives its readers exactly what the
\* decode of the authenticated envelope gives - kind, initialization, media -
\* and nothing under another stream's id (main.rs:390-497, 649-717), whether the
\* object was validated before or came as an envelope in the legacy lane.
IndexIsFaithful ==
    \A k \in DOMAIN slots : slot_source[k].lane = "object" =>
        LET o == slot_source[k].object
        IN  /\ DecodeSlot(slots[k], k[1]) = Committed(o)
            /\ ~IsBundle(o) => \A t \in SlotStreams \ {k[1]} : DecodeSlot(slots[k], t) = Invalid

\* A piece of the bytes behind the canonical header.
IsPiece(piece, bytes) ==
    piece = <<>> \/ \E offset \in CanonicalHeader .. Len(bytes) - Len(piece) :
                      piece = Slice(bytes, offset, Len(piece))

\* A payload of the legacy lane is served as it came, or as the fMP4 it holds;
\* no byte of it is lost (main.rs:447-451, 499-515).  One that starts with the
\* canonical magic is stored as it came too (main.rs:4657-4684) and is then read
\* as an index: whatever that says, only bytes of the payload itself from behind
\* the header are served, to its own stream, or nothing is (main.rs:391-393,
\* 454-496).
PayloadIsServed ==
    \A k \in DOMAIN slots : slot_source[k].lane = "payload" =>
        LET d == DecodeSlot(slots[k], k[1])
            p == slot_source[k].payload
        IN  IF Starts(p, CanonicalMagic)
            THEN /\ IsPiece(d.media, p) /\ IsPiece(d.init, p)
                 /\ d.slot # "invalid" => p[2] = k[1]
                 /\ \A t \in SlotStreams \ {k[1]} :
                       DecodeSlot(slots[k], t) # Invalid => p[2] = t
            ELSE IF d.slot = "fmp4" THEN p = EncodeFmp4Slot(d.init, d.media)
            ELSE d = Opaque(p, "ts")

\* The lanes share the cache (main.rs:4774-4867).  An access unit is given out as
\* itself, and no canonical object as an access unit, whatever it holds; a legacy
\* payload only when it is to the byte what that unit's slot would hold, for the
\* stream and the sequence it happened to be given.
UnitIsItself ==
    \A k \in DOMAIN slots :
        LET unit == UnitAt(k[1], k[2])
        IN  CASE slot_source[k].lane = "unit" -> unit = slot_source[k].payload
              [] slot_source[k].lane = "object" -> unit = NoUnit
              [] slot_source[k].lane = "payload" ->
                   unit # NoUnit => slot_source[k].payload = UnitBytes(k[1], k[2], unit)

\* The codec of the slots, their type included.
SlotsCorrect ==
    /\ DOMAIN slots \subseteq SlotStreams \X SlotSequences
    /\ slot_next \in [SlotStreams -> Nat]
    /\ IndexIsFaithful /\ PayloadIsServed /\ UnitIsItself
=============================================================================
