------------------------------ MODULE HlsFailover ------------------------------
(***************************************************************************)
(* The master playlist of an edge (AppRouter::hls_failover_playlist_-      *)
(* response, src/src/main.rs): the local stream, or its configured         *)
(* renditions, and the other edges of the region a player may turn to.     *)
(*                                                                         *)
(* The answer is put together over several reads - the overload flag,      *)
(* then what telemetry knows of the other edges, then the freshness of     *)
(* each rendition, and for an overloaded edge the other edges once more    *)
(* for each rendition - and all of it may change between two reads.        *)
(*                                                                         *)
(* Abstractions: a base URL is a number and two edges may share one; the   *)
(* load of an edge stands for its utilization and its readers; codec       *)
(* strings, bandwidths of variants and the text of the playlist are left   *)
(* out; a playlist without a variant is what MultivariantPlaylist refuses. *)
(* Every variant is one VariantStream accepts: a rendition's rates are     *)
(* positive and its average is at most its peak when it is parsed, the     *)
(* bandwidth of a plain stream is at least 1, and the URLs are checked     *)
(* where they are read.                                                    *)
(***************************************************************************)
EXTENDS Integers, Sequences, SequencesExt, FiniteSets, FiniteSetsExt, Maps

CONSTANTS RegionEdges,       \* other nodes of the region, by id
          EdgeStates,        \* what an edge may report
          PlainMasters,      \* streams without renditions
          Renditions,        \* HlsRenditionSpec: [master, stream, bandwidth]
          PlaybackUrls,      \* playback_base_url of the edges
          AlternativeLimit,  \* the take(8)
          RenditionStale,    \* hls_rendition_stale_ms
          HlsTimeLimit       \* bound: the clock stops here

NoUrl == 0

ASSUME HlsAssumption ==
    /\ RegionEdges \subseteq Nat /\ PlaybackUrls \subseteq Nat \ {0}
    /\ IsFiniteSet(RegionEdges) /\ IsFiniteSet(Renditions)
    /\ AlternativeLimit \in Nat \ {0} /\ RenditionStale \in Nat /\ HlsTimeLimit \in Nat
    /\ EdgeStates \subseteq [known : {TRUE}, edge : BOOLEAN, draining : BOOLEAN, overloaded : BOOLEAN,
                             load : Nat, url : PlaybackUrls \cup {NoUrl}]
    /\ PlainMasters \subseteq Nat /\ Renditions \subseteq [master : Nat \ PlainMasters, stream : Nat, bandwidth : Nat]

LocalUri == 0
Never == -1
RenditionStreams == {r.stream : r \in Renditions}
Masters == PlainMasters \cup {r.master : r \in Renditions}

VARIABLES edge_reports,   \* edge -> its snapshot in TelemetryState, or NoEdgeReport
          hls_overloaded, \* admission_snapshot().overloaded
          last_ingest,    \* stream_last_ingest_unix_ms of the renditions
          rendition_init, \* streams with an initialization
          hls_now,
          hls_request,    \* the request in progress
          hls_answer,     \* the last answer
          hls_rejections, \* record_rejection, while the request is in progress
          eligible_seen,  \* history: URLs eligible at some time in this request
          fresh_seen      \* history: renditions fresh at some time in this request

hlsVars == <<edge_reports, hls_overloaded, last_ingest, rendition_init, hls_now, hls_request,
             hls_answer, hls_rejections, eligible_seen, fresh_seen>>

NoEdgeReport == [known |-> FALSE]
EdgeReports == EdgeStates \cup {NoEdgeReport}
-----------------------------------------------------------------------------
\* An alternative that may be overloaded itself.
BugEligible(report) ==
    /\ report.known /\ report.edge /\ ~report.draining
    /\ report.url # NoUrl

Eligible(report) ==
    /\ report.known /\ report.edge /\ ~report.draining /\ ~report.overloaded
    /\ report.url # NoUrl

\* The least loaded first, then by id.
Ranked(reports) ==
    LET open == {e \in RegionEdges : Eligible(reports[e])}
    IN  InOrder(open, {p \in open \X open :
                          \/ reports[p[1]].load < reports[p[2]].load
                          \/ reports[p[1]].load = reports[p[2]].load /\ p[1] < p[2]})

\* Each URL once, where it is ranked first, and no more than the limit.
Alternatives(reports) ==
    LET ranked == Ranked(reports)
        first  == {i \in DOMAIN ranked :
                      \A j \in 1 .. i - 1 : reports[ranked[j]].url # reports[ranked[i]].url}
        places == InOrder(first, {p \in first \X first : p[1] < p[2]})
        urls   == [n \in DOMAIN places |-> reports[ranked[places[n]]].url]
    IN  SubSeq(urls, 1, IF Len(urls) < AlternativeLimit THEN Len(urls) ELSE AlternativeLimit)

\* HlsRenditionCatalog: the renditions of a master, the best first.
Catalog(master) ==
    LET all == {r \in Renditions : r.master = master}
    IN  InOrder(all, {p \in all \X all :
                         \/ p[1].bandwidth > p[2].bandwidth
                         \/ p[1].bandwidth = p[2].bandwidth /\ p[1].stream < p[2].stream})

\* fresh_hls_rendition_init
FreshRendition(stream, ingest, now) ==
    /\ ingest[stream] # Never /\ now - ingest[stream] <= RenditionStale
    /\ stream \in rendition_init
-----------------------------------------------------------------------------
NoHlsRequest == [step |-> "idle"]
NoAnswer == [status |-> 0, variants |-> <<>>, alternatives |-> <<>>]
EligibleUrls(reports) ==   \* history: the edges that are open, as a reader of telemetry knows
    {reports[e].url : e \in {e \in RegionEdges : reports[e] # NoEdgeReport /\ reports[e].edge
                                /\ ~(reports[e].draining \/ reports[e].overloaded)}}
FreshStreams(ingest, now) == {s \in RenditionStreams : FreshRendition(s, ingest, now)}

\* The overload flag is read first.
BeginMaster(master) ==
    /\ hls_request = NoHlsRequest
    /\ hls_request' = [step |-> "alternatives", master |-> master, overloaded |-> hls_overloaded,
                       alternatives |-> <<>>, todo |-> Catalog(master), active |-> <<>>,
                       variants |-> <<>>]
    /\ hls_rejections' = 0
    /\ eligible_seen' = EligibleUrls(edge_reports)
    /\ fresh_seen' = FreshStreams(last_ingest, hls_now)
    /\ hls_answer' = NoAnswer
    /\ UNCHANGED <<edge_reports, hls_overloaded, last_ingest, rendition_init, hls_now>>

ReadAlternatives ==
    /\ hls_request.step = "alternatives"
    /\ hls_request' = [hls_request EXCEPT
          !.alternatives = Alternatives(edge_reports),
          !.step = IF hls_request.master \in PlainMasters THEN "answer" ELSE "renditions"]
    /\ UNCHANGED <<edge_reports, hls_overloaded, last_ingest, rendition_init, hls_now, hls_answer,
                   hls_rejections, eligible_seen, fresh_seen>>

\* One rendition: demand for it is recorded, and it counts when it is fresh.
CheckRendition ==
    LET r == Head(hls_request.todo)
    IN  /\ hls_request.step = "renditions" /\ hls_request.todo # <<>>
        /\ hls_request' = [hls_request EXCEPT
              !.todo = Tail(@),
              !.active = IF FreshRendition(r.stream, last_ingest, hls_now) THEN Append(@, r.stream) ELSE @]
        /\ UNCHANGED <<edge_reports, hls_overloaded, last_ingest, rendition_init, hls_now,
                       hls_answer, hls_rejections, eligible_seen, fresh_seen>>

Variant(uri, stream) == [uri |-> uri, stream |-> stream]

\* All are checked: the local ones, or for an overloaded edge one more round.
RenditionsChecked ==
    /\ hls_request.step = "renditions" /\ hls_request.todo = <<>>
    /\ hls_request' = IF hls_request.overloaded
          THEN [hls_request EXCEPT !.step = "elsewhere", !.todo = hls_request.active]
          ELSE [hls_request EXCEPT !.step = "answer",
                   !.variants = [i \in DOMAIN hls_request.active |->
                                    Variant(LocalUri, hls_request.active[i])]]
    /\ UNCHANGED <<edge_reports, hls_overloaded, last_ingest, rendition_init, hls_now, hls_answer,
                   hls_rejections, eligible_seen, fresh_seen>>

\* The other edges are read again for each rendition.
RenditionElsewhere ==
    LET urls == Alternatives(edge_reports)
    IN  /\ hls_request.step = "elsewhere" /\ hls_request.todo # <<>>
        /\ hls_request' = [hls_request EXCEPT
              !.todo = Tail(@),
              !.variants = @ \o [i \in DOMAIN urls |-> Variant(urls[i], Head(hls_request.todo))]]
        /\ UNCHANGED <<edge_reports, hls_overloaded, last_ingest, rendition_init, hls_now,
                       hls_answer, hls_rejections, eligible_seen, fresh_seen>>

\* The variants of a stream without renditions: this edge, then the others.
PlainVariants(q) ==
    (IF q.overloaded THEN <<>> ELSE <<Variant(LocalUri, q.master)>>)
      \o [i \in DOMAIN q.alternatives |-> Variant(q.alternatives[i], q.master)]

\* A playlist, or with no variant a rejection: 429 for a plain stream, 503 for
\* one with renditions.
AnswerMaster ==
    LET q == hls_request
        plain == q.master \in PlainMasters
        variants == IF plain THEN PlainVariants(q) ELSE q.variants
    IN  /\ q.step = "answer" \/ (q.step = "elsewhere" /\ q.todo = <<>>)
        /\ hls_answer' = [status |-> IF variants # <<>> THEN 200 ELSE IF plain THEN 429 ELSE 503,
                          master |-> q.master, overloaded |-> q.overloaded,
                          alternatives |-> q.alternatives, active |-> q.active,
                          variants |-> variants]
        /\ hls_rejections' = IF variants = <<>> THEN hls_rejections + 1 ELSE hls_rejections
        /\ hls_request' = NoHlsRequest
        /\ UNCHANGED <<edge_reports, hls_overloaded, last_ingest, rendition_init, hls_now,
                       eligible_seen, fresh_seen>>
-----------------------------------------------------------------------------
(* What changes between two reads.                                         *)
InProgress == hls_request # NoHlsRequest

\* Telemetry brings a snapshot of an edge, or forgets a stale one.
EdgeReported(e, report) ==
    LET reports == [edge_reports EXCEPT ![e] = report]
    IN  /\ InProgress
        /\ edge_reports' = reports
        /\ eligible_seen' = eligible_seen \cup EligibleUrls(reports)
        /\ UNCHANGED <<hls_overloaded, last_ingest, rendition_init, hls_now, hls_request,
                       hls_answer, hls_rejections, fresh_seen>>

OverloadChanges ==
    /\ hls_overloaded' = ~hls_overloaded
    /\ UNCHANGED <<edge_reports, last_ingest, rendition_init, hls_now, hls_request, hls_answer,
                   hls_rejections, eligible_seen, fresh_seen>>

\* A rendition publishes, with or without an initialization.
RenditionIngests(s, brings) ==
    /\ last_ingest' = [last_ingest EXCEPT ![s] = hls_now]
    /\ rendition_init' = IF brings THEN rendition_init \cup {s} ELSE rendition_init
    /\ fresh_seen' = fresh_seen \cup ({s} \cap rendition_init')
    /\ UNCHANGED <<edge_reports, hls_overloaded, hls_now, hls_request, hls_answer, hls_rejections,
                   eligible_seen>>

HlsElapse ==
    /\ hls_now < HlsTimeLimit /\ hls_now' = hls_now + 1
    /\ UNCHANGED <<edge_reports, hls_overloaded, last_ingest, rendition_init, hls_request,
                   hls_answer, hls_rejections, eligible_seen, fresh_seen>>

HlsInit ==
    /\ edge_reports \in [RegionEdges -> EdgeReports]
    /\ hls_overloaded \in BOOLEAN
    /\ last_ingest = [s \in RenditionStreams |-> Never] /\ rendition_init = {}
    /\ hls_now = 0 /\ hls_request = NoHlsRequest
    /\ hls_answer = NoAnswer
    /\ hls_rejections = 0 /\ eligible_seen = {} /\ fresh_seen = {}

HlsNext ==
    \/ \E m \in Masters : BeginMaster(m)
    \/ ReadAlternatives \/ CheckRendition \/ RenditionsChecked \/ RenditionElsewhere \/ AnswerMaster
    \/ \E e \in RegionEdges, report \in EdgeReports : EdgeReported(e, report)
    \/ \E s \in RenditionStreams, brings \in BOOLEAN : RenditionIngests(s, brings)
    \/ OverloadChanges \/ HlsElapse

HlsSpec == HlsInit /\ [][HlsNext]_hlsVars
-----------------------------------------------------------------------------
VariantsOf(answer) == {answer.variants[i] : i \in DOMAIN answer.variants}
Answered == hls_answer # NoAnswer

\* A player is sent only to edges that took new players at some time of its
\* request, never back to an edge that was overloaded when it asked, and only to
\* renditions that were being published then, although the reads are far apart
\* (main.rs:11329-11475).
SentWhereServed ==
    Answered => \A v \in VariantsOf(hls_answer) :
        /\ IF v.uri = LocalUri THEN ~hls_answer.overloaded ELSE v.uri \in eligible_seen
        /\ v.stream # hls_answer.master => v.stream \in fresh_seen

\* A rejection is counted, once, and has its cause: a plain stream is refused only
\* by an overloaded edge that read no alternative, one with renditions only by an
\* overloaded edge or when none of them was fresh (main.rs:11443-11455).
RejectedOnlyWhenClosed ==
    Answered =>
        /\ (hls_rejections = 1) <=> hls_answer.status \in {429, 503}
        /\ hls_answer.status = 429 => hls_answer.overloaded /\ hls_answer.alternatives = <<>>
        /\ hls_answer.status = 503 => hls_answer.overloaded \/ hls_answer.active = <<>>

\* The master playlist, its type included.
HlsAnswerSound ==
    /\ hls_answer.status \in {0, 200, 429, 503}
    /\ hls_now \in 0 .. HlsTimeLimit /\ edge_reports \in [RegionEdges -> EdgeReports]
    /\ Len(hls_answer.alternatives) <= AlternativeLimit /\ IsInjective(hls_answer.alternatives)
    /\ SentWhereServed /\ RejectedOnlyWhenClosed
=============================================================================
