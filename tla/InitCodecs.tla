------------------------------- MODULE InitCodecs -------------------------------
(***************************************************************************)
(* The codecs of a master playlist and the content type of a stream, read  *)
(* out of its fMP4 initialization without a parser of the box tree         *)
(* (hls_codecs_from_init and fmp4_init_is_audio_only, src/src/main.rs):    *)
(* four-letter types are searched for anywhere in the bytes, and lengths   *)
(* are followed from where a type is found.                                *)
(*                                                                         *)
(* Abstractions: a type and a box size take one cell of the sequence each  *)
(* instead of four bytes, a type being negative; the other cells are       *)
(* bytes.  A codec string is the tuple of what is printed in it, but for   *)
(* the letter case.                                                        *)
(***************************************************************************)
EXTENDS Integers, Sequences, SequencesExt

CONSTANTS Videos,     \* video configurations, NoTrack among them
          Audios,     \* audio entries, NoTrack among them
          Leaders     \* what a file may begin with, any cells

NoTrack == [format |-> "none"]

ASSUME InitAssumption == NoTrack \in Videos /\ NoTrack \in Audios

VARIABLES init_bytes,   \* the initialization, or what there is of it
          init_tracks,  \* history: the tracks it describes
          init_whole    \* history: nothing is missing

initVars == <<init_bytes, init_tracks, init_whole>>

\* What cannot be read, or is not there.
Unread == <<>>

\* The types searched for.
TypeOf == [avcC |-> -1, esds |-> -2, mp4a |-> -3, fLaC |-> -4, alac |-> -5, Opus |-> -6,
           ipcm |-> -7, fpcm |-> -8, hvcC |-> -9, av1C |-> -10, vpcC |-> -11, free |-> -12]

\* windows(4).any
HasType(bytes, type) == \E i \in DOMAIN bytes : bytes[i] = TypeOf[type]
-----------------------------------------------------------------------------
BoxHeader == 2   \* size and type

\* mp4_box_payload: the first place where the type is found with a size that is
\* plausible in front of it.
BoxPayload(bytes, type) ==
    LET plausible(i) == /\ bytes[i] = TypeOf[type]
                        /\ bytes[i - 1] >= BoxHeader /\ i - 2 + bytes[i - 1] <= Len(bytes)
        places == {i \in 2 .. Len(bytes) : plausible(i)}
    IN  IF places = {} THEN Unread
        ELSE LET i == CHOOSE p \in places : \A q \in places : p <= q
             IN  SubSeq(bytes, i + 1, i - 2 + bytes[i - 1])

LengthBytes == 4   \* the most a descriptor's length may take

\* The length of a descriptor, seven bits a byte; the last byte is below 128.
DescriptorEnds(bytes) == {n \in 1 .. LengthBytes : n + 1 <= Len(bytes) /\ bytes[n + 1] < 128}

DescriptorLength(bytes, n) ==
    LET upto[i \in 0 .. n] == IF i = 0 THEN 0 ELSE upto[i - 1] * 128 + (bytes[i + 1] % 128)
    IN  upto[n]

\* mp4_descriptor: tag and payload.
Descriptor(bytes) ==
    IF DescriptorEnds(bytes) = {} THEN Unread
    ELSE LET n   == CHOOSE m \in DescriptorEnds(bytes) : \A o \in DescriptorEnds(bytes) : m <= o
             end == 1 + n + DescriptorLength(bytes, n)
         IN  IF end > Len(bytes) THEN Unread ELSE <<bytes[1], SubSeq(bytes, n + 2, end)>>

From(bytes, offset) == IF offset > Len(bytes) THEN Unread ELSE SubSeq(bytes, offset + 1, Len(bytes))

Flag(flags, bit) == (flags \div bit) % 2 = 1

\* An ES descriptor whose URL is not skipped.
BugDecoderOffset(es) == 3 + (IF Flag(es[3], 128) THEN 2 ELSE 0) + (IF Flag(es[3], 32) THEN 2 ELSE 0)

\* Where the decoder configuration begins in the ES descriptor; past its end when
\* the length of the URL is missing.
DecoderOffset(es) ==
    LET depends == 3 + (IF Flag(es[3], 128) THEN 2 ELSE 0)
        url     == IF ~Flag(es[3], 64) THEN depends
                   ELSE IF depends >= Len(es) THEN Len(es) + 1
                   ELSE depends + 1 + es[depends + 1]
    IN  url + (IF Flag(es[3], 32) THEN 2 ELSE 0)

\* The audio object type of an AudioSpecificConfig, with its escape.
AudioObjectType(asc) ==
    IF asc[1] \div 8 # 31 THEN asc[1] \div 8
    ELSE IF Len(asc) < 2 THEN 0 ELSE 32 + (asc[1] % 8) * 8 + (asc[2] \div 32)

\* A descriptor of this tag and at least this length.
Tagged(d, tag, len) == d # Unread /\ d[1] = tag /\ Len(d[2]) >= len

AacCodec(bytes) ==
    LET esds == BoxPayload(bytes, "esds")
        es   == IF esds = Unread \/ Len(esds) < 4 THEN Unread ELSE Descriptor(From(esds, 4))
    IN  IF ~Tagged(es, 3, 3) \/ From(es[2], DecoderOffset(es[2])) = Unread THEN Unread
        ELSE LET decoder == Descriptor(From(es[2], DecoderOffset(es[2])))
             IN  IF ~Tagged(decoder, 4, 13) THEN Unread
                 ELSE LET asc == Descriptor(From(decoder[2], 13))
                      IN  IF ~Tagged(asc, 5, 1) \/ AudioObjectType(asc[2]) = 0 THEN Unread
                          ELSE <<"mp4a", decoder[2][1], AudioObjectType(asc[2])>>

AvcCodec(bytes) ==
    LET avcc == BoxPayload(bytes, "avcC")
    IN  IF avcc = Unread \/ Len(avcc) < 4 \/ avcc[1] # 1 THEN Unread
        ELSE <<"avc1", avcc[2], avcc[3], avcc[4]>>

\* hls_codecs_from_init: one that cannot be read leaves all of them out.
CodecsFromInit(bytes) ==
    LET video == IF HasType(bytes, "avcC") THEN <<AvcCodec(bytes)>> ELSE <<>>
        plain == SelectSeq(<<"fLaC", "alac", "Opus", "ipcm">>, LAMBDA t : HasType(bytes, t))
        audio == IF HasType(bytes, "mp4a") THEN <<AacCodec(bytes)>>
                 ELSE IF plain # <<>> THEN << <<plain[1]>> >> ELSE <<>>
        all   == video \o audio
    IN  IF all = <<>> \/ Unread \in ToSet(all) THEN Unread ELSE all

AudioOnly(bytes) ==
    /\ \E t \in {"fLaC", "alac", "Opus", "mp4a", "ipcm", "fpcm"} : HasType(bytes, t)
    /\ ~\E t \in {"avcC", "hvcC", "av1C", "vpcC"} : HasType(bytes, t)

\* fmp4_content_type_from_init
ContentType(bytes) == IF AudioOnly(bytes) THEN "audio/mp4" ELSE "video/mp4"
-----------------------------------------------------------------------------
(* external: an encoder that writes the boxes and descriptors of its       *)
(* tracks, with lengths in as many bytes as it likes.                      *)
Box(type, body) == <<Len(body) + BoxHeader, TypeOf[type]>> \o body

Coded(tag, width, body) ==
    <<tag>> \o [i \in 1 .. width |-> IF i = width THEN Len(body) ELSE 128] \o body

AscOf(type) ==
    IF type < 31 THEN <<type * 8, 16>> ELSE <<31 * 8 + ((type - 32) \div 8), ((type - 32) % 8) * 32>>

EsOf(a) ==
    LET asc     == Coded(5, a.width, AscOf(a.type))
        decoder == Coded(4, a.width, <<a.oti>> \o [i \in 1 .. 12 |-> 0] \o asc)
        flags   == (IF a.depends THEN 128 ELSE 0) + (IF a.url THEN 64 ELSE 0)
                     + (IF a.ocr THEN 32 ELSE 0)
    IN  Coded(3, a.width, <<0, 1, flags>> \o (IF a.depends THEN <<0, 2>> ELSE <<>>)
              \o (IF a.url THEN <<2, 104, 105>> ELSE <<>>)
              \o (IF a.ocr THEN <<0, 7>> ELSE <<>>) \o decoder)

BytesOf(v, a) ==
    (CASE v.format = "none" -> <<>>
       [] v.format = "avcC" -> Box("avcC", <<1>> \o v.profile \o <<255>>)
       [] OTHER -> Box(v.format, <<1>>))
    \o (CASE a.format = "none" -> <<>>
          [] a.format = "mp4a" -> Box("mp4a", <<0>> \o Box("esds", <<0, 0, 0, 0>> \o EsOf(a)))
          [] OTHER -> Box(a.format, <<0>>))

InitInit == init_bytes = <<>> /\ init_tracks = [video |-> NoTrack, audio |-> NoTrack] /\ init_whole = TRUE

\* A stream's initialization is stored, once.
Unset == init_bytes = <<>> /\ init_whole

StoreInit(v, a, prefix) ==
    /\ init_bytes' = prefix \o BytesOf(v, a)
    /\ init_tracks' = [video |-> v, audio |-> a]
    /\ UNCHANGED init_whole

\* The bytes end early.
LoseTail ==
    /\ init_bytes # <<>>
    /\ init_bytes' = SubSeq(init_bytes, 1, Len(init_bytes) - 1)
    /\ init_whole' = FALSE
    /\ UNCHANGED init_tracks

InitNext ==
    \/ Unset /\ \E v \in Videos, a \in Audios, prefix \in Leaders : StoreInit(v, a, prefix)
    \/ LoseTail
InitSpec == InitInit /\ [][InitNext]_initVars
-----------------------------------------------------------------------------
\* What the tracks are, by what the encoder was given: only AVC has a video codec
\* string here, and float PCM has none.
Described ==
    LET v == init_tracks.video
        a == init_tracks.audio
    IN  (IF v.format = "avcC" THEN << <<"avc1">> \o v.profile >> ELSE <<>>)
        \o (CASE a.format \in {"none", "fpcm"} -> <<>>
              [] a.format = "mp4a" -> << <<"mp4a", a.oti, a.type>> >>
              [] OTHER -> << <<a.format>> >>)

\* Every initialization gives the codecs its encoder was given, whatever optional
\* fields and paddings it writes, also behind an esds of an impossible size; one
\* that is cut anywhere gives the first of them or nothing, never a wrong string; and audio is
\* told from video as soon as the bytes are whole (main.rs:13183-13332).
CodecsAreDescribed ==
    LET codecs == CodecsFromInit(init_bytes)
    IN  /\ init_whole => codecs = IF Described = <<>> THEN Unread ELSE Described
        /\ codecs # Unread => IsPrefix(codecs, Described)
        /\ init_whole => (ContentType(init_bytes) = "audio/mp4" <=>
                            init_tracks.video = NoTrack /\ init_tracks.audio # NoTrack)
=============================================================================
