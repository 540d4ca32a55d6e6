------------------------------- MODULE EdgeFleet -------------------------------
(***************************************************************************)
(* The fleet of edges and its control plane: every node keeps the latest   *)
(* telemetry of the others (TelemetryAggregator), plans the life of the    *)
(* edges of each region on that view (EdgeLifecyclePlanner,                *)
(* src/src/edge_lifecycle.rs), executes commands of its own and of its     *)
(* operator through the provisioner, and publishes them to the others      *)
(* (AppRouter, src/src/main.rs).                                           *)
(*                                                                         *)
(* Abstractions: telemetry is taken when it arrives, so that delay and     *)
(* loss are a view that is not refreshed; node ids are numbers; statuses   *)
(* and the command log are text for the operator; every node is an edge; a *)
(* node that is being deleted may still finish what it was doing.          *)
(***************************************************************************)
EXTENDS Integers, FiniteSets, FiniteSetsExt, Maps

CONSTANTS Edges,            \* node ids, a set of numbers
          BootEdges,        \* the edges that run at first
          TelemetryPaths,   \* <<from, to>> when from's telemetry, by either feed, reaches to
          ControlPaths,     \* <<from, to>> when to collects from's change feed
          RegionOf,         \* edge -> region
          ConfiguredMin, ConfiguredMax, ConfiguredScaleUp, ConfiguredIdleTime,
          ConfiguredCooldown,
          StaleAfter,       \* stale_after_ms, 0 keeps every snapshot
          OperatorRequests, \* requests of the operator: [kind, node, region]
          Loads,            \* what an edge may be serving: [readers, overloaded]
          FleetTimeLimit,   \* bound: the clock stops here
          CommandLimit      \* bound: commands executed

\* EdgeLifecycleConfig::normalized
MinEdges    == Max({ConfiguredMin, 1})
MaxEdges    == Max({ConfiguredMax, MinEdges})
ScaleUp     == Max({ConfiguredScaleUp, 1})
IdleTime    == Max({ConfiguredIdleTime, 1})
Cooldown    == Max({ConfiguredCooldown, 1})

NoNode   == 0
NoRegion == "no region"

ASSUME FleetAssumption ==
    /\ Edges \subseteq Nat \ {NoNode} /\ IsFiniteSet(Edges)
    /\ BootEdges \subseteq Edges /\ DOMAIN RegionOf = Edges
    /\ Loads \subseteq [readers : Nat, overloaded : BOOLEAN]
    /\ TelemetryPaths \cup ControlPaths \subseteq {p \in Edges \X Edges : p[1] # p[2]}
    /\ {ConfiguredMin, ConfiguredMax, ConfiguredScaleUp, ConfiguredIdleTime,
        ConfiguredCooldown, StaleAfter, FleetTimeLimit, CommandLimit} \subseteq Nat

VARIABLES fleet,      \* edge -> what the node itself knows
          views,      \* edge -> the aggregator's snapshots
          planners,   \* edge -> region -> [last, samples]
          executing,  \* the commands in execution, several of one node at a time
          envelopes,  \* published commands that have not arrived
          fleet_now,
          issued,     \* history: commands with the nodes they resolved to
          created     \* history: commands the executor created an instance for

fleetVars == <<fleet, views, planners, executing, envelopes, fleet_now, issued, created>>

Regions == {RegionOf[e] : e \in Edges}
Booted == [up |-> TRUE, draining |-> FALSE, readers |-> 0, overloaded |-> FALSE, responded |-> -1]
Up == {e \in Edges : fleet[e].up}
-----------------------------------------------------------------------------
\* TelemetryAggregator::is_stale
IsStale(snapshot) == StaleAfter > 0 /\ fleet_now - snapshot.updated > StaleAfter

\* EdgeServiceSnapshot::from_node: the load of the edge and its lifecycle.
EdgeService(e) == [responded |-> fleet[e].responded, readers |-> fleet[e].readers,
                   overloaded |-> fleet[e].overloaded, draining |-> fleet[e].draining]

\* local_mesh_snapshot
LocalSnapshot(e) ==
    LET s == EdgeService(e)
    IN  [responded |-> s.responded, readers |-> s.readers, overloaded |-> s.overloaded,
         draining |-> s.draining, updated |-> fleet_now]

\* snapshots_with_local drops what is stale for good.
Fresh(e) == Retain(views[e], LAMBDA s : ~IsStale(s))

WithLocal(e) == With(Fresh(e), e, LocalSnapshot(e))

\* ingest_snapshot: the latest arrival replaces what is there.
IngestSnapshot(from, to) ==
    /\ <<from, to>> \in TelemetryPaths /\ {from, to} \subseteq Up
    /\ views' = [views EXCEPT ![to] = With(@, from, LocalSnapshot(from))]
    /\ UNCHANGED <<fleet, planners, executing, envelopes, fleet_now, issued, created>>
-----------------------------------------------------------------------------
\* The edges of a region in a view, and those of them that do not drain.
InRegion(nodes, r) == {e \in DOMAIN nodes : RegionOf[e] = r}

\* Draining edges counted as live.
BugLiveEdges(nodes, r) == InRegion(nodes, r)

LiveEdges(nodes, r) == {e \in InRegion(nodes, r) : ~nodes[e].draining}

Leads(e, nodes, r) ==
    LiveEdges(nodes, r) # {} /\ e = Min(LiveEdges(nodes, r))

Pressure(nodes, r) ==
    \/ \E e \in LiveEdges(nodes, r) : nodes[e].overloaded
    \/ MapThenSumSet(LAMBDA e : nodes[e].readers, LiveEdges(nodes, r)) >= ScaleUp

\* A node that never answered is as old as its snapshot.
Activity(s) == IF s.responded = -1 THEN s.updated ELSE s.responded

IdleEdges(nodes, r) ==
    {e \in LiveEdges(nodes, r) :
        nodes[e].readers = 0 /\ fleet_now - Activity(nodes[e]) >= IdleTime}

\* The edge that is idle longest, and of several the one with the smallest id.
LongestIdle(nodes, r) ==
    CHOOSE e \in IdleEdges(nodes, r) : \A o \in IdleEdges(nodes, r) :
        \/ Activity(nodes[e]) < Activity(nodes[o])
        \/ Activity(nodes[e]) = Activity(nodes[o]) /\ e <= o

\* Samples above two are not told apart.
Samples(planner, nodes, r) ==
    IF Pressure(nodes, r) THEN Min({planner[r].samples + 1, 2}) ELSE 0

Provisions(e, planner, nodes, r) ==
    /\ Cardinality(LiveEdges(nodes, r)) < MaxEdges
    /\ Samples(planner, nodes, r) >= 2
    /\ Leads(e, nodes, r)
    /\ fleet_now - planner[r].last >= Cooldown

Closes(e, planner, nodes, r) ==
    /\ ~Provisions(e, planner, nodes, r)
    /\ Cardinality(LiveEdges(nodes, r)) > MinEdges
    /\ Leads(e, nodes, r)
    /\ IdleEdges(nodes, r) # {}

ProvisionRequest(r) == [kind |-> "ProvisionNode", node |-> NoNode, region |-> r]
CloseRequest(e) == [kind |-> "CloseNode", node |-> e, region |-> RegionOf[e]]

\* EdgeLifecyclePlanner::plan: the samples move in every region of the view.
Planned(e, planner, nodes) ==
    [r \in Regions |->
        IF InRegion(nodes, r) = {} THEN planner[r]
        ELSE [last    |-> IF Provisions(e, planner, nodes, r) THEN fleet_now ELSE planner[r].last,
              samples |-> Samples(planner, nodes, r)]]

PlannedRequests(e, planner, nodes) ==
    {ProvisionRequest(r) : r \in {q \in Regions : Provisions(e, planner, nodes, q)}}
    \cup {CloseRequest(LongestIdle(nodes, r)) : r \in {q \in Regions : Closes(e, planner, nodes, q)}}
-----------------------------------------------------------------------------
\* selected_control_target_node_ids
SelectedTargets(e, request) ==
    IF request.kind = "ProvisionNode" THEN {}
    ELSE IF request.node # NoNode THEN {request.node}
    ELSE IF request.region = NoRegion THEN {}
    ELSE InRegion(WithLocal(e), request.region)

\* control_targets_local
TargetsLocal(e, request, targets) ==
    IF targets # {} THEN e \in targets
    ELSE IF request.node # NoNode THEN e = request.node
    ELSE IF request.region # NoRegion THEN RegionOf[e] = request.region
    ELSE TRUE

\* apply_control_locally, without the provisioner's part.
Drained(f, e, request, targets) ==
    IF request.kind = "CloseNode" /\ TargetsLocal(e, request, targets)
    THEN [f EXCEPT ![e].draining = TRUE] ELSE f

\* Every edge that gets the command provisions.
BugExecutesAt(e, envelope) == envelope.request.kind = "ProvisionNode"

\* The provisioner runs where the command originated.
ExecutesAt(e, envelope) == envelope.request.kind = "ProvisionNode" /\ envelope.origin = e

\* execute_control up to the provisioner: the command has its number and its
\* targets, and has drained this node if it is one.  Handlers and the planner
\* execute commands side by side.
Begin(e, request, planned) ==
    LET targets == SelectedTargets(e, request)
        id      == Cardinality(issued) + 1
    IN  /\ Cardinality(issued) < CommandLimit
        /\ executing' = executing \cup
              {[id |-> id, origin |-> e, request |-> request, targets |-> targets,
                planned |-> planned, step |-> "provision"]}
        /\ fleet' = Drained(fleet, e, request, targets)
        /\ issued' = issued \cup {[id |-> id, request |-> request, targets |-> targets]}

\* The operator's request on the control API of e.
OperatorControl(e, request) ==
    /\ e \in Up
    /\ Begin(e, request, FALSE)
    /\ views' = [views EXCEPT ![e] =
          IF request.node = NoNode /\ request.region # NoRegion /\ request.kind # "ProvisionNode"
          THEN Fresh(e) ELSE @]
    /\ UNCHANGED <<planners, envelopes, fleet_now, created>>

\* run_edge_lifecycle: its loop waits for the command it planned; a node leads no
\* region but its own, so that a plan has one action at most.
RunEdgeLifecycle(e) ==
    LET nodes    == WithLocal(e)
        requests == PlannedRequests(e, planners[e], nodes)
    IN  /\ e \in Up /\ ~\E c \in executing : c.origin = e /\ c.planned
        /\ views' = [views EXCEPT ![e] = Fresh(e)]
        /\ planners' = [planners EXCEPT ![e] = Planned(e, planners[e], nodes)]
        /\ IF requests = {} THEN UNCHANGED <<executing, fleet, issued>>
           ELSE \E request \in requests : Begin(e, request, TRUE)
        /\ UNCHANGED <<envelopes, fleet_now, created>>

\* run_linode: "skipped" without a known region or credentials, "failed" also when the
\* call has timed out, and then with or without an instance.
CreatesInstance == [off |-> {FALSE}, done |-> {TRUE}, skipped |-> {FALSE}, failed |-> BOOLEAN]

\* ProvisionExecutor::run stops at a backend that failed or was skipped; the
\* script that follows it may start a node itself, or fail and leave none.
ScriptRuns(linode) == linode \in {"off", "done"}

\* A request without a region is for the region of the node that executes it.
RequestedRegion(c) == IF c.request.region = NoRegion THEN RegionOf[c.origin] ELSE c.request.region

ProvisionRun(c) ==
    \E linode \in DOMAIN CreatesInstance : \E instance \in CreatesInstance[linode] :
        IF instance \/ ScriptRuns(linode)
        THEN \/ UNCHANGED fleet
             \/ \E n \in Edges \ Up :
                   RegionOf[n] = RequestedRegion(c) /\ fleet' = [fleet EXCEPT ![n] = Booted]
        ELSE UNCHANGED fleet

\* close_linode, then the script whatever it answered: the named node's instance
\* is deleted, or is left because nothing matched or the call failed.
ProvisionClose(c) ==
    \/ fleet' = [fleet EXCEPT ![c.request.node].up = FALSE]
    \/ UNCHANGED fleet

\* The provisioner's part of execute_control has been awaited.
ControlProvisioned(c) ==
    LET executes == ExecutesAt(c.origin, c)
    IN  /\ c.step = "provision"
        /\ CASE executes -> ProvisionRun(c)
             [] c.request.kind = "CloseNode" /\ c.request.node # NoNode -> ProvisionClose(c)
             [] OTHER -> UNCHANGED fleet
        /\ created' = IF executes THEN created \cup {<<c.id, c.origin>>} ELSE created
        /\ executing' = (executing \ {c}) \cup {[c EXCEPT !.step = "publish"]}
        /\ UNCHANGED <<views, planners, envelopes, fleet_now, issued>>

ControlEnvelope(c) == [id |-> c.id, origin |-> c.origin, request |-> c.request, targets |-> c.targets]

\* ControlDispatch::publish reaches whoever is connected to the change feed.
PublishControl(c) ==
    /\ c.step = "publish"
    /\ \E connected \in SUBSET {n \in Up : <<c.origin, n>> \in ControlPaths} :
          envelopes' = envelopes \cup {[to |-> n, envelope |-> ControlEnvelope(c)] : n \in connected}
    /\ executing' = executing \ {c}
    /\ UNCHANGED <<fleet, views, planners, fleet_now, issued, created>>

\* ingest_control_payload
IngestControl(m) ==
    /\ envelopes' = envelopes \ {m}
    /\ IF m.to \in Up /\ m.envelope.origin # m.to
          /\ TargetsLocal(m.to, m.envelope.request, m.envelope.targets)
       THEN /\ fleet' = Drained(fleet, m.to, m.envelope.request, m.envelope.targets)
            /\ created' = IF ExecutesAt(m.to, m.envelope)
                          THEN created \cup {<<m.envelope.id, m.to>>} ELSE created
       ELSE UNCHANGED <<fleet, created>>
    /\ UNCHANGED <<views, planners, executing, fleet_now, issued>>
-----------------------------------------------------------------------------
\* external: players come and go, and a response is recorded.
ServePlayers(e, load) ==
    /\ e \in Up
    /\ fleet' = [fleet EXCEPT ![e].readers = load.readers, ![e].overloaded = load.overloaded,
                              ![e].responded = fleet_now]
    /\ UNCHANGED <<views, planners, executing, envelopes, fleet_now, issued, created>>

FleetElapse ==
    /\ fleet_now < FleetTimeLimit
    /\ fleet_now' = fleet_now + 1
    /\ UNCHANGED <<fleet, views, planners, executing, envelopes, issued, created>>

FleetInit ==
    /\ fleet = [e \in Edges |-> [Booted EXCEPT !.up = e \in BootEdges]]
    /\ views = [e \in Edges |-> EmptyMap]
    /\ planners = [e \in Edges |-> [r \in Regions |-> [last |-> -Cooldown, samples |-> 0]]]
    /\ executing = {} /\ envelopes = {} /\ fleet_now = 0 /\ issued = {} /\ created = {}

FleetNext ==
    \/ \E path \in TelemetryPaths : IngestSnapshot(path[1], path[2])
    \/ \E e \in Edges :
          \/ \E request \in OperatorRequests : OperatorControl(e, request)
          \/ RunEdgeLifecycle(e)
          \/ \E load \in Loads : ServePlayers(e, load)
    \/ \E c \in executing : ControlProvisioned(c) \/ PublishControl(c)
    \/ \E m \in envelopes : IngestControl(m)
    \/ FleetElapse

FleetSpec == FleetInit /\ [][FleetNext]_fleetVars
-----------------------------------------------------------------------------
\* The type of the fleet's state.
FleetTypeOK ==
    /\ fleet \in [Edges -> [up : BOOLEAN, draining : BOOLEAN, readers : {load.readers : load \in Loads} \cup {0},
                            overloaded : BOOLEAN, responded : -1 .. FleetTimeLimit]]
    /\ \A e \in Edges : DOMAIN views[e] \subseteq Edges \ {e}
    /\ planners \in [Edges -> [Regions -> [last : -Cooldown .. FleetTimeLimit, samples : 0 .. 2]]]
    /\ fleet_now \in 0 .. FleetTimeLimit

\* A command reaches the nodes it means and no others, at every hop: a node
\* drains only if some command named it, or named its region or everyone, and an
\* instance is created by one executor for one provision command, although every
\* node receives the command (main.rs:11613-11637, 11696-11755).
CommandsHitTheirTargets ==
    /\ \A e \in Edges : fleet[e].draining =>
          \E c \in issued :
             /\ c.request.kind = "CloseNode"
             /\ \/ c.request.node = e
                \/ c.request.node = NoNode /\ c.request.region \in {NoRegion, RegionOf[e]}
    /\ \A x, y \in created : x[1] = y[1] => x = y
    /\ \A x \in created : \E c \in issued : c.id = x[1] /\ c.request.kind = "ProvisionNode"

\* The edges of a region that run and that nothing is about to close.
Serving(r) ==
    {e \in Edges : RegionOf[e] = r /\ fleet[e].up /\ ~fleet[e].draining
        /\ ~\E c \in executing : c.request = CloseRequest(e)
        /\ ~\E m \in envelopes : m.envelope.request = CloseRequest(e)}

Informed(e) ==
    \A o \in {n \in Up \ {e} : RegionOf[n] = RegionOf[e]} : o \in DOMAIN views[e]
                        /\ [views[e][o] EXCEPT !.updated = 0] = [LocalSnapshot(o) EXCEPT !.updated = 0]

\* A controller that plans on a view that is up to date, with no command on its
\* way, leaves the minimum of edges serving in every region
\* (edge_lifecycle.rs:90-146).
InformedCloseKeepsMinimum ==
    [][\A c \in executing' :
         /\ c.planned /\ Informed(c.origin) /\ executing = {} /\ envelopes = {}
         /\ \A o \in Edges : ~fleet[o].up => o \notin DOMAIN Fresh(c.origin)
         => \A r \in Regions :
              LET before == Serving(r) IN
              Cardinality(before) >= MinEdges => Cardinality(Serving(r)') >= MinEdges]_fleetVars

\* Commands of the fleet, its type included.
FleetSound == FleetTypeOK /\ CommandsHitTheirTargets
=============================================================================
