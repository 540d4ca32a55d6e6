---------------------------- MODULE MCMediaPath ----------------------------
(***************************************************************************)
(* The components that media passes through on its way to a reader, each   *)
(* from its own initial states: focus says which one is running, the       *)
(* others rest.  They share no state, so this is as good as a run of each. *)
(***************************************************************************)
EXTENDS WarmSourceReplay, UdpFecReceiver, SequenceArrivals, MeshIngest, TailReads,
        ByteParts, SlotCodec, InitCodecs

CONSTANTS k1, k2, k3

\* The objects of the warm secondary, one of which expires early.
MCKeys == {k1, k2, k3}
MCDeadline == [k \in MCKeys |-> IF k = k1 THEN 1 ELSE 5]

\* Payloads that are, are not, and are almost slots and bundles.
Payloads == {<<>>, <<1>>, <<1, 2>>, <<-3, 1, 1, 1, 2>>, <<-3, 0, 2, 1, 2>>, <<-3, 1, 0, 1>>,
             <<-3, 1, 2, 1>>, <<-3, 1>>}
Bundles == {<<-4, 1, 1, 9, 1, 9, 2, 1, 2>>, <<-4, 1, 2, 9, 1, 9, 1, 1, 9, 2, 1, 2>>,
            <<-4, 1, 2, 9, 1, 9, 1, 1, 8, 1, 1>>, <<-4, 2, 1, 9, 1, 9, 2, 1, 2>>,
            <<-4, 1, 1, 9, 2, 9, 2, 1, 2>>, <<-4, 1, 1, 9, 1, 9, 1, 1, 2>>,
            <<-4, 1, 1, 9, 1, 9, 3, 1, 2>>}
SlotObject(kind, container, format, stream, seq, payload) ==
    [kind |-> kind, container |-> container, format |-> format, stream |-> stream,
     seq |-> seq, payload |-> payload]
Objects ==
    {SlotObject("media", c, f, 1, 0, p) : c \in {"fmp4", "opaque", "none"},
        f \in {"fmp4-slot-v1", "opaque-part-v1", "none"}, p \in Payloads}
    \cup {SlotObject("media", "none", "soundkit-v2-bundle", 1, 1, p) : p \in Bundles}
    \cup {SlotObject(k, "fmp4", "none", 1, 0, <<1>>) : k \in {"initialization", "discontinuity"}}
    \cup {SlotObject("media", "fmp4", "fmp4-slot-v1", 2, 0, <<-3, 1, 1, 1, 2>>)}
\* What carriers bring: plain bytes, slots and bundles, whole and broken; envelopes
\* of either stream, and one that is cut off; what looks like a canonical slot,
\* with its index as written, cut off, into its header and beyond its end; and
\* what looks like an access unit.
Carried(stream) == SlotObject("media", "none", "none", stream, 0, <<1, 2>>)
Indexed(tag, init, media) ==
    <<-1, 1, tag, Len(Envelope(Carried(1)))>> \o init \o media \o Envelope(Carried(1))
Legacy ==
    {<<1, 2>>, <<-3, 1, 1, 1, 2>>, <<-3, 1, 2, 1>>, <<-4, 1, 1, 1, 1, 1, 1, 1>>,
     <<1, 2, 3, 4, 5, 6, 7, 8>>}
    \cup {Envelope(Carried(1)), Envelope(Carried(2)), <<-2, 1, 0>>}
    \cup {EncodeCanonical(Carried(1)), <<-1, 1, 2>>}
    \cup {Indexed(tag, init, media) : tag \in {0, 2, 3}, init \in {<<0, 0>>, <<15, 1>>},
                                     media \in {<<10, 3>>, <<7, 2>>, <<15, 2>>}}
    \cup {UnitBytes(1, 0, <<7>>), <<-5, 1, 0, 0, 2, 1, 0, 7>>}
Units == {<<1>>, <<1, 2>>}

\* Tracks with every optional field and padding, behind boxes of impossible sizes.
MCVideos == [format : {"none", "hvcC", "av1C", "vpcC"}]
    \cup [format : {"avcC"}, profile : {<<100, 0, 31>>, <<66, 192, 30>>}]
MCAudios == [format : {"none", "fLaC", "alac", "Opus", "ipcm", "fpcm"}]
    \cup [format : {"mp4a"}, oti : {64}, type : {2, 29, 32, 42}, width : {1, 4},
          depends : BOOLEAN, url : BOOLEAN, ocr : BOOLEAN]
MCLeaders == {<<>>, Box("free", <<9, 9>>), <<1, TypeOf["esds"], 3>>, <<300, TypeOf["esds"]>>}

MCTailStreams == <<"a", "b">>
-----------------------------------------------------------------------------
VARIABLE focus

mediaVars == <<focus, vars, fecVars, arrivalVars, ingestVars, tailVars, partVars, slotVars, initVars>>

MediaInit ==
    /\ focus \in {"replay", "fec", "sequences", "ingest", "tail", "parts", "slots", "init"}
    /\ Init /\ FecInit /\ ArrivalInit /\ TailInit /\ PartsInit /\ SlotsInit /\ InitInit
    /\ IF focus = "ingest" THEN TRUE ELSE loop = CHOOSE l \in Loops : TRUE
    /\ IngestInit

MediaNext ==
    /\ UNCHANGED focus
    /\ IF focus = "replay" THEN Next ELSE UNCHANGED vars
    /\ IF focus = "fec" THEN FecNext ELSE UNCHANGED fecVars
    /\ IF focus = "sequences" THEN ArrivalNext ELSE UNCHANGED arrivalVars
    /\ IF focus = "ingest" THEN IngestNext ELSE UNCHANGED ingestVars
    /\ IF focus = "tail" THEN TailNext ELSE UNCHANGED tailVars
    /\ IF focus = "parts" THEN PartsNext ELSE UNCHANGED partVars
    /\ IF focus = "slots" THEN SlotsNext ELSE UNCHANGED slotVars
    /\ IF focus = "init" THEN InitNext ELSE UNCHANGED initVars

MediaSpec == MediaInit /\ [][MediaNext]_mediaVars
=============================================================================
