--------------------------- MODULE MCEdgeControl ---------------------------
(***************************************************************************)
(* The components of an edge around the media: telemetry, the fleet,       *)
(* replicas, measurements, subscriptions and status.  focus says which one *)
(* is running, the others rest in an initial state; they share no state,   *)
(* so this is as good as a run of each.                                    *)
(***************************************************************************)
EXTENDS TelemetryQueue, TelemetryDecoder, EdgeFleet, ReplicaPlacement,
        ReplicaRequests, LatencyHistogram, LinkTelemetry, StemSubscription, DeliveryCatalog,
        MeshStatus, EdgeResponses, OperationsDiscovery

\* Two edges of one region, and an operator who closes the whole region.
MCOperator == {[kind |-> "CloseNode", node |-> NoNode, region |-> "uk"]}
MCLoads == {[readers |-> 0, overloaded |-> FALSE], [readers |-> 1, overloaded |-> TRUE]}
MCPaths == {<<2, 1>>}
MCPeers == {<<1, 2>>, <<2, 1>>}
MCRegionOf == [e \in Edges |-> "uk"]

\* Four nodes in three regions of two continents, and a region without a node.
Node(region, continent, place, merit) ==
    [region |-> region, continent |-> continent, place |-> place, merit |-> merit]
MCNodes == <<Node(1, 1, 0, 1), Node(1, 1, 1, 2), Node(2, 1, 4, 0), Node(3, 2, 9, 1)>>
MCDemand == {<<1, 1>>, <<2, 1>>, <<5, 2>>}
MCPolicies == {[continent |-> 0, region |-> 0, cap |-> 4], [continent |-> 1, region |-> 0, cap |-> 4],
               [continent |-> 2, region |-> 0, cap |-> 2], [continent |-> 0, region |-> 1, cap |-> 4]}

MCBounds == <<1, 2, 5>>

MCPeerOf == [l \in Links |-> 1]

\* Objects a lease covers, and objects with too many channels or of another source.
Delivery(key, form, source, channels, bytes, deadline) ==
    [key |-> key, form |-> form, session |-> "s", source |-> source, channels |-> channels,
     rate |-> 1, bytes |-> bytes, deadline |-> deadline]
MCObjects == {Delivery(1, "canonical", "mic", 1, 1, 2), Delivery(2, "canonical", "mic", 2, 1, 2),
              Delivery(3, "canonical", "cam", 1, 2, 2), Delivery(4, "canonical", "mic", 1, 2, 1),
              Delivery(4, "talkback", "mic", 1, 1, 2)}
MCLease == [session |-> "s", sources |-> {"mic"}, max_channels |-> 1, max_bitrate |-> 1, expires |-> 2]
MCClaims == [scope : {"x", "none"}, operation : {"Subscribe", "Publish"}, class : {"Program", "Talkback"},
             sources : {{"mic", "cam"}, {"mic"}}, expires : {1, 2}, max_channels : {2, 3},
             max_datagram : {1, 2}]
MCConfigs == [scope : {"x", "y"}, channels : [{"mic", "cam"} -> {1, 2}], max_datagram : {1}]

\* A healthy node, one in trouble, and one that is behind.
Stream(epoch, object, age) ==
    [id |-> 1, epoch |-> epoch, object |-> object, gaps |-> 0, delay |-> 0, age |-> age,
     active |-> TRUE, local |-> TRUE]
View(draining, storage, links, errors, stream) ==
    [draining |-> draining, storage |-> storage, playback |-> ~draining, errors |-> errors,
     response_errors |-> Cardinality(errors), links |-> links, controlled |-> FALSE,
     authenticated |-> FALSE, stream |-> stream]
MCViews == {View(FALSE, 10, {1, 2}, {}, Stream(1, 5, 0)),
            View(TRUE, 96, {9}, {[status |-> 503, at |-> 0]}, Stream(2, 1, 2)),
            View(FALSE, 90, {}, {}, Stream(1, 2, 0))}
MCOrchestrations == {[linode |-> TRUE, discovery |-> FALSE, blocked |-> 0]}
MCLogs == {<<[status |-> "failed", created |-> 0], [status |-> "skipped", created |-> 1]>>}

\* The clock of a collector is ahead by the whole margin.
MCClockOf == ("e1" :> 0) @@ ("c1" :> 1) @@ ("c2" :> 0)
-----------------------------------------------------------------------------
VARIABLE focus

controlVars ==
    <<focus, telemetryQueueVars, telemetryDecoderVars, fleetVars, placementVars,
      demandVars, histogramVars, linkVars, stemVars, catalogVars, statusVars, responseVars, opsVars>>

ControlInit ==
    /\ focus \in {"queue", "decoder", "fleet", "placement", "requests", "histogram",
                  "links", "stems", "catalog", "status", "responses", "operations"}
    /\ TelemetryQueueInit /\ TelemetryDecoderInit /\ FleetInit /\ DemandInit
    /\ HistogramInit /\ LinkInit /\ StemInit /\ CatalogInit /\ StatusInit /\ ResponsesInit /\ OpsInit
    /\ IF focus = "placement" THEN TRUE
       ELSE /\ policy = CHOOSE p \in Policies : TRUE
            /\ storable = {} /\ replicas = {1} /\ hot = {} /\ demanded = {}
    /\ PlacementInit

ControlNext ==
    /\ UNCHANGED focus
    /\ IF focus = "queue" THEN TelemetryQueueNext ELSE UNCHANGED telemetryQueueVars
    /\ IF focus = "decoder" THEN TelemetryDecoderNext ELSE UNCHANGED telemetryDecoderVars
    /\ IF focus = "fleet" THEN FleetNext ELSE UNCHANGED fleetVars
    /\ IF focus = "placement" THEN PlacementNext ELSE UNCHANGED placementVars
    /\ IF focus = "requests" THEN DemandNext ELSE UNCHANGED demandVars
    /\ IF focus = "histogram" THEN HistogramNext ELSE UNCHANGED histogramVars
    /\ IF focus = "links" THEN LinkNext ELSE UNCHANGED linkVars
    /\ IF focus = "stems" THEN StemNext ELSE UNCHANGED stemVars
    /\ IF focus = "catalog" THEN CatalogNext ELSE UNCHANGED catalogVars
    /\ IF focus = "status" THEN StatusNext ELSE UNCHANGED statusVars
    /\ IF focus = "responses" THEN ResponsesNext ELSE UNCHANGED responseVars
    /\ IF focus = "operations" THEN OpsNext ELSE UNCHANGED opsVars

ControlSpec == ControlInit /\ [][ControlNext]_controlVars
=============================================================================
