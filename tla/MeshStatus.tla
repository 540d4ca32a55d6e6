------------------------------- MODULE MeshStatus -------------------------------
(***************************************************************************)
(* What a node reports of the mesh (src/src/main.rs): the                  *)
(* TelemetryAggregator keeps the latest snapshot of every other node and   *)
(* the nodes whose snapshots have aged out; a collector per telemetry peer *)
(* and the receiver of telemetry datagrams feed it, and a query derives    *)
(* the status: nodes, links, stream lag, alerts and activity               *)
(* (MeshApiSnapshot::from_snapshots).                                      *)
(*                                                                         *)
(* An ingest takes two locks one after the other, so that a query falls in *)
(* between.  Snapshots arrive late, repeatedly and out of order.           *)
(*                                                                         *)
(* Abstractions: a query is one step.  The code keeps the lock of the      *)
(* snapshots while it ages out, remembers and reads the stale nodes, which *)
(* are two acquisitions of the second lock, and has released it when it    *)
(* reads the peers' states and the commands and derives the rest; an       *)
(* ingest that falls in between is one that comes before or after here.    *)
(* The content of a snapshot is one of a few views; texts and byte totals  *)
(* are left out.  The alert on relay processing is in LatencyHistogram.    *)
(***************************************************************************)
EXTENDS Integers, Sequences, FiniteSets, FiniteSetsExt, Maps

CONSTANTS StatusNodes,      \* the other nodes, a set of numbers
          StatusLocal,      \* this node, a number
          Collectors,       \* telemetry peers, each with its collector
          FecCollector,     \* the receiver of telemetry datagrams
          StatusViews,      \* contents of a snapshot:
                            \*   [draining, storage, playback, links, controlled, authenticated,
                            \*    errors: the failed ones of recent_responses,
                            \*    response_errors: the counter,
                            \*    stream: [id, epoch, object, gaps, delay, age, active, local]]
          Orchestrations,   \* [linode, discovery, blocked]: the orchestration status
          CommandLogs,      \* recent commands of this node: sequences of [status, created]
          StatusStaleAfter, \* stale_after_ms
          StaleLimit,       \* nodes remembered as stale: 32
          LagWarn, StorageWarn, StorageError, ActivationWarn, IngestStale,
          ActivityLimit,    \* MESH_ACTIVITY_LIMIT
          StatusTimeLimit,  \* bound: the clock
          IngestLimit       \* bound: snapshots ingested

ASSUME StatusAssumption ==
    /\ StatusNodes \subseteq Nat /\ StatusLocal \in Nat \ StatusNodes
    /\ FecCollector \notin Collectors
    /\ {StatusStaleAfter, LagWarn, StorageWarn, StorageError, ActivationWarn, IngestStale,
        StatusTimeLimit, IngestLimit} \subseteq Nat
    /\ {StaleLimit, ActivityLimit} \subseteq Nat \ {0}
    /\ \A v \in StatusViews :
          /\ v.stream.object \in Nat \cup {-1} /\ v.stream.age \in Nat
          /\ IsFiniteSet(v.errors) /\ \A e \in v.errors : e.at \in Nat
    /\ CommandLogs \subseteq Seq([status : STRING, created : Nat])

VARIABLES latest,       \* snapshots: node -> [updated, view]
          stale_nodes,  \* set of [node, updated, age]
          ingesting,    \* feed -> the node whose snapshot it has inserted, or None
          peer_state,   \* TelemetryPeerMonitor: collector -> state
          status_now, ingests,
          report,       \* history: the answer of the last step, if it was a query
          known,        \* history: nodes that were ever ingested
          excused       \* history: nodes cut off the full stale list, or aged out by a
                        \* query amid their own ingest

statusVars == <<latest, stale_nodes, ingesting, peer_state, status_now, ingests, report,
                known, excused>>

NoReport == [nodes |-> {}]
None == -1
Feeds == Collectors \cup {FecCollector}
-----------------------------------------------------------------------------
\* TelemetryPeerMonitor under connect_telemetry_peer and its retry loop
SetPeer(c, from, to) ==
    /\ peer_state[c] \in from
    /\ ingesting[c] = None
    /\ peer_state' = [peer_state EXCEPT ![c] = to]
    /\ report' = NoReport
    /\ UNCHANGED <<latest, stale_nodes, ingesting, status_now, ingests, known, excused>>

PeerConnecting(c)   == SetPeer(c, {"configured", "error", "disconnected"}, "connecting")
PeerConnected(c)    == SetPeer(c, {"connecting"}, "connected")
PeerFailed(c)       == SetPeer(c, {"connecting"}, "error")
PeerDisconnected(c) == SetPeer(c, {"connected"}, "disconnected")

\* ingest_snapshot, first lock: the snapshot replaces what is there, newer or not.
\* Datagrams need no connection.
InsertSnapshot(c, n, updated, view) ==
    /\ c \in Collectors => peer_state[c] = "connected"
    /\ ingesting[c] = None /\ ingests < IngestLimit
    /\ latest' = With(latest, n, [updated |-> updated, view |-> view])
    /\ ingesting' = [ingesting EXCEPT ![c] = n]
    /\ ingests' = ingests + 1
    /\ known' = known \cup {n} /\ excused' = excused \ {n}
    /\ report' = NoReport
    /\ UNCHANGED <<stale_nodes, peer_state, status_now>>

\* A node that reports again and stays on the list of stale ones.
BugForgetStale(c) ==
    /\ ingesting[c] # None
    /\ ingesting' = [ingesting EXCEPT ![c] = None]
    /\ report' = NoReport
    /\ UNCHANGED <<latest, stale_nodes, peer_state, status_now, ingests, known, excused>>

\* Second lock: the node is no longer remembered as stale.
ForgetStale(c) ==
    /\ ingesting[c] # None
    /\ stale_nodes' = {s \in stale_nodes : s.node # ingesting[c]}
    /\ ingesting' = [ingesting EXCEPT ![c] = None]
    /\ report' = NoReport
    /\ UNCHANGED <<latest, peer_state, status_now, ingests, known, excused>>
-----------------------------------------------------------------------------
Busy(n) == \E c \in Feeds : ingesting[c] = n

AgedOut(s) == StatusStaleAfter > 0 /\ status_now - s.updated > StatusStaleAfter

\* remember_stale_nodes: an entry replaces the node's earlier one; the StaleLimit
\* oldest stay, by the age they had when they aged out.
Remembered(gone) ==
    LET all == gone \cup {s \in stale_nodes : \A g \in gone : g.node # s.node}
        sorted == InOrder(all, {p \in all \X all :
                      p[1].age > p[2].age \/ (p[1].age = p[2].age /\ p[1].node < p[2].node)})
    IN  {sorted[i] : i \in 1 .. Min({StaleLimit, Cardinality(all)})}

\* snapshots_with_local: what aged out is dropped and remembered.
Gone == {[node |-> n, updated |-> latest[n].updated, age |-> status_now - latest[n].updated] :
            n \in {m \in DOMAIN latest : AgedOut(latest[m])}}

StatusFresh == Without(latest, {n \in DOMAIN latest : AgedOut(latest[n])})
-----------------------------------------------------------------------------
(* MeshApiSnapshot::from_snapshots; views is node -> view, this node's own included. *)

Connections(views) ==
    UNION {{[source |-> n, target |-> t] : t \in views[n].links} : n \in DOMAIN views}

\* Streams that can be compared: their id, epoch and head object.
StreamOf(views, n) == views[n].stream
Comparable(views) == {n \in DOMAIN views : StreamOf(views, n).object # None}

SameStream(a, b) == a.id = b.id /\ a.epoch = b.epoch

\* annotate_stream_lag
Lag(views, n) ==
    IF n \notin Comparable(views) THEN 0
    ELSE Max({StreamOf(views, m).object : m \in {m \in Comparable(views) :
                  SameStream(StreamOf(views, m), StreamOf(views, n))}}) - StreamOf(views, n).object

AlertIf(condition, level, code, count, seen) ==
    IF condition THEN {[level |-> level, code |-> code, count |-> count, seen |-> seen]} ELSE {}

CountAlert(S, level, code) == AlertIf(S # {}, level, code, Cardinality(S), status_now)

LinkAlerts(views, relayed) ==
    LET links == Connections(views)
        few   == Cardinality(DOMAIN views) <= 1
    IN  AlertIf(few, "warn", "mesh_single_node", Cardinality(DOMAIN views), status_now)
        \cup AlertIf(~few /\ links = {} /\ ~relayed, "error", "mesh_no_links",
                     Cardinality(DOMAIN views), status_now)
        \cup CountAlert({l \in links : l.target \notin DOMAIN views}, "warn", "mesh_unknown_peers")

NodeAlerts(views) ==
    LET full  == {n \in DOMAIN views : views[n].storage >= StorageError}
        tight == {n \in DOMAIN views : views[n].storage >= StorageWarn}
    IN  CountAlert({n \in DOMAIN views : views[n].draining}, "warn", "nodes_draining")
        \cup CountAlert({n \in DOMAIN views : ~views[n].playback}, "warn", "edge_playback_missing")
        \cup CountAlert(full, "error", "storage_exhausted")
        \cup (IF full = {} THEN CountAlert(tight, "warn", "storage_pressure") ELSE {})

\* The latest of the failed responses that are kept, and how many were counted.
ResponseAlert(views) ==
    LET errors == UNION {views[n].errors : n \in DOMAIN views}
        last   == CHOOSE e \in errors : \A f \in errors : f.at <= e.at
        count  == MapThenSumSet(LAMBDA n : views[n].response_errors, DOMAIN views)
    IN  IF errors = {} THEN {}
        ELSE AlertIf(TRUE, IF last.status >= 500 THEN "error" ELSE "warn",
                     "edge_response_errors", count, last.at)

CommandAlert(commands) ==
    LET of(status) == {i \in DOMAIN commands : commands[i].status = status}
        issue == Max({0} \cup {commands[i].created : i \in of("failed") \cup of("skipped")})
    IN  IF of("failed") # {}
        THEN AlertIf(TRUE, "error", "control_failures", Cardinality(of("failed")), issue)
        ELSE AlertIf(of("skipped") # {}, "warn", "control_skipped", Cardinality(of("skipped")), issue)

OrchestrationAlerts(o) ==
    AlertIf(o.linode /\ ~o.discovery, "warn", "linode_private_discovery_inactive", 1, status_now)
    \cup CountAlert({c \in Collectors : peer_state[c] # "connected"}, "warn", "telemetry_peer_unavailable")
    \cup AlertIf(o.blocked > 0, "warn", "provision_backend_blocked", o.blocked, status_now)

StaleAlert(stale) ==
    AlertIf(stale # {}, "warn", "telemetry_snapshot_stale", Cardinality(stale),
            Max({0} \cup {s.updated : s \in stale}))

StreamAlerts(views) ==
    LET own      == StreamOf(views, StatusLocal)
        quiet(n) == StreamOf(views, n).active /\ StreamOf(views, n).age > IngestStale
        others   == {n \in DOMAIN views \ {StatusLocal} : quiet(n)}
        epochs(id) == {StreamOf(views, n).epoch : n \in {m \in DOMAIN views : StreamOf(views, m).id = id}}
                      \ {None}
        split    == {id \in {StreamOf(views, n).id : n \in DOMAIN views} : Cardinality(epochs(id)) > 1}
    IN  AlertIf(own.local /\ own.age > IngestStale, "warn", "local_ingest_stale", 1,
                status_now - own.age)
        \cup AlertIf(others # {}, "warn", "mesh_stream_stale", Cardinality(others),
                     IF others = {} THEN 0
                     ELSE status_now - Min({StreamOf(views, n).age : n \in others}))
        \cup CountAlert({n \in DOMAIN views : StreamOf(views, n).gaps > 0}, "warn", "canonical_publication_gap")
        \cup CountAlert({n \in DOMAIN views : StreamOf(views, n).delay > ActivationWarn}, "warn",
                     "canonical_epoch_activation_slow")
        \cup AlertIf(split # {}, "warn", "canonical_epoch_divergence",
                     IF split = {} THEN 0 ELSE Cardinality(epochs(CHOOSE id \in split : TRUE)), status_now)

\* A node under a relay session is expected to run behind.
LagAlert(views) ==
    CountAlert({n \in DOMAIN views : Lag(views, n) > LagWarn /\ ~views[n].controlled}, "warn",
            "mesh_stream_lagging")

MeshAlerts(views, stale, commands, o) ==
    LinkAlerts(views, views[StatusLocal].controlled \/ views[StatusLocal].authenticated)
    \cup NodeAlerts(views) \cup ResponseAlert(views)
    \cup CommandAlert(commands) \cup OrchestrationAlerts(o) \cup StaleAlert(stale)
    \cup StreamAlerts(views) \cup LagAlert(views)

\* derive_mesh_activity: this summary, the alerts and the commands, newest first,
\* at most ActivityLimit of them (entries of the same time are all kept here).
MeshActivity(alerts, commands) ==
    LET all == {[code |-> "mesh_snapshot", seen |-> status_now]}
               \cup {[code |-> a.code, seen |-> a.seen] : a \in alerts}
               \cup {[code |-> commands[i].status, seen |-> commands[i].created] : i \in DOMAIN commands}
    IN  {a \in all : Cardinality({b \in all : b.seen > a.seen}) < ActivityLimit}

\* A query with this node's own view.
QueryStatus(own, commands, o) ==
    LET fresh == StatusFresh
        views == With([n \in DOMAIN fresh |-> fresh[n].view], StatusLocal, own)
        stale == IF Gone = {} THEN stale_nodes ELSE Remembered(Gone)
        gone  == {g.node : g \in Gone}
        before == {s.node : s \in stale_nodes}
    IN  /\ latest' = fresh
        /\ stale_nodes' = stale
        /\ excused' = excused \cup {n \in gone : Busy(n)}
                     \cup (IF Cardinality(gone \cup before) > StaleLimit
                           THEN (gone \cup before) \ {s.node : s \in stale} ELSE {})
        /\ LET alerts == MeshAlerts(views, stale, commands, o)
           IN  report' = [nodes |-> DOMAIN views, stale |-> {s.node : s \in stale}, views |-> views,
                          lag |-> [n \in DOMAIN views |-> Lag(views, n)], alerts |-> alerts,
                          activity |-> MeshActivity(alerts, commands)]
        /\ UNCHANGED <<ingesting, peer_state, status_now, ingests, known>>

StatusElapse ==
    /\ status_now < StatusTimeLimit
    /\ status_now' = status_now + 1
    /\ report' = NoReport
    /\ UNCHANGED <<latest, stale_nodes, ingesting, peer_state, ingests, known, excused>>

StatusInit ==
    /\ latest = EmptyMap /\ stale_nodes = {} /\ status_now = 0 /\ ingests = 0
    /\ ingesting = [c \in Feeds |-> None]
    /\ peer_state = [c \in Collectors |-> "configured"]
    /\ report = NoReport /\ known = {} /\ excused = {}

StatusNext ==
    \/ \E c \in Collectors : \/ PeerConnecting(c) \/ PeerConnected(c) \/ PeerFailed(c)
                             \/ PeerDisconnected(c)
    \/ \E c \in Feeds : ForgetStale(c)
    \/ \E c \in Feeds, n \in StatusNodes, updated \in 0 .. status_now, view \in StatusViews :
          InsertSnapshot(c, n, updated, view)
    \/ \E own \in StatusViews, commands \in CommandLogs, o \in Orchestrations :
          QueryStatus(own, commands, o)
    \/ StatusElapse

StatusSpec == StatusInit /\ [][StatusNext]_statusVars
-----------------------------------------------------------------------------
\* A node is never lost from the status: once seen it is either fresh or
\* remembered as stale, unless it was cut off a full stale list (truncate(32)) or a query
\* aged its snapshot out between the two locks of that snapshot's own ingest
\* (main.rs:7913-7925, the one race that forgets a node).  And no node is both
\* fresh and remembered as stale once its ingest is finished.
NodesAccounted ==
    \A n \in known :
        /\ \/ n \in DOMAIN latest \/ \E s \in stale_nodes : s.node = n
           \/ n \in excused
        /\ Busy(n) \/ n \notin DOMAIN latest \/ \A s \in stale_nodes : s.node # n

\* The status agrees with itself: a node is said to lag only behind a node of
\* the same stream and epoch in the same report, by exactly their distance;
\* lag is never reported against an epoch that was left; and activity that was
\* cut off is not newer than any that is shown (main.rs:9490-9510, 10022-10087).
ReportIsConsistent ==
    report # NoReport =>
        /\ \A n \in report.nodes : report.lag[n] > 0 =>
              \E m \in report.nodes :
                 LET a == report.views[n].stream
                     b == report.views[m].stream
                 IN  a.id = b.id /\ a.epoch = b.epoch /\ b.object = a.object + report.lag[n]
        /\ (\E a \in report.alerts : a.code = "telemetry_snapshot_stale") = (report.stale # {})
        /\ \A a \in report.alerts : (\A x \in report.activity : x.code # a.code) =>
              \A x \in report.activity : x.seen >= a.seen

\* Both.
StatusIsSound == NodesAccounted /\ ReportIsConsistent
=============================================================================
