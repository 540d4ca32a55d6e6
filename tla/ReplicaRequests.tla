---------------------------- MODULE ReplicaRequests ----------------------------
(***************************************************************************)
(* When a node asks the mesh for a replica of a stream (src/src/main.rs):  *)
(* a read that misses (request_replica_for_stream) and the planner's tick  *)
(* (request_planned_local_replica) share DemandTracker, which lets one     *)
(* request through per interval.  Both read the clock before they take the *)
(* stream's entry, so that they may come in the other order.               *)
(*                                                                         *)
(* Abstractions: what the planner plans is ReplicaPlacement's; here the    *)
(* plan either places a replica on this node or does not.  The request is  *)
(* sent, or sending it fails, which the caller only logs.                  *)
(***************************************************************************)
EXTENDS Integers, FiniteSets, Maps

CONSTANTS DemandStreams, DemandThreads,
          RequestMinInterval,   \* REPLICA_REQUEST_MIN_INTERVAL_MS
          DemandTimeLimit       \* bound: the clock stays below

ASSUME RequestAssumption == RequestMinInterval \in Nat /\ DemandTimeLimit \in Nat

VARIABLES last_request,   \* last_replica_request_unix_ms
          locally_fresh,  \* stream_is_locally_fresh
          demand,         \* thread -> where it stands
          demand_now,     \* now_unix_ms, the wall clock
          asked           \* history: <<stream, now, number>> of the requests let through

demandVars == <<last_request, locally_fresh, demand, demand_now, asked>>

NoDemand == [pc |-> "idle"]
-----------------------------------------------------------------------------
\* A read of a stream that arrives here anyway ends at once; a planned request
\* goes on only if the plan names this node.
ReadMisses(t, s) ==
    /\ demand[t] = NoDemand /\ s \notin locally_fresh
    /\ demand' = [demand EXCEPT ![t] = [pc |-> "clocked", stream |-> s, now |-> demand_now]]
    /\ UNCHANGED <<last_request, locally_fresh, demand_now, asked>>

PlanNamesNode(t, s) ==
    /\ demand[t] = NoDemand
    /\ demand' = [demand EXCEPT ![t] = [pc |-> "clocked", stream |-> s, now |-> demand_now]]
    /\ UNCHANGED <<last_request, locally_fresh, demand_now, asked>>

\* A subtraction that wraps when the clock is set back.
BugDue(s, now) ==
    s \notin DOMAIN last_request
    \/ (now - last_request[s]) % (2 * DemandTimeLimit) >= RequestMinInterval

\* saturating_sub: a clock reading older than the last request is no time at all.
Due(s, now) ==
    s \notin DOMAIN last_request \/ now - last_request[s] >= RequestMinInterval

\* should_request_replica, under the entry's lock.
ShouldRequest(t) ==
    LET d == demand[t]
    IN  /\ d.pc = "clocked"
        /\ IF Due(d.stream, d.now)
           THEN /\ last_request' = With(last_request, d.stream, d.now)
                /\ asked' = asked \cup {<<d.stream, d.now, Cardinality(asked)>>}
                /\ demand' = [demand EXCEPT ![t].pc = "requesting"]
           ELSE demand' = [demand EXCEPT ![t] = NoDemand] /\ UNCHANGED <<last_request, asked>>
        /\ UNCHANGED <<locally_fresh, demand_now>>

\* mesh.request_replica answers; a failure does not give the interval back.
ReplicaRequested(t) ==
    /\ demand[t].pc = "requesting"
    /\ demand' = [demand EXCEPT ![t] = NoDemand]
    /\ UNCHANGED <<last_request, locally_fresh, demand_now, asked>>

\* external: media of a stream starts or stops arriving; the wall clock moves.
FreshnessChanges(s) ==
    /\ locally_fresh' = IF s \in locally_fresh THEN locally_fresh \ {s} ELSE locally_fresh \cup {s}
    /\ UNCHANGED <<last_request, demand, demand_now, asked>>

ClockMoves ==
    /\ demand_now' \in {demand_now - 1, demand_now + 1} \cap (0 .. DemandTimeLimit)
    /\ UNCHANGED <<last_request, locally_fresh, demand, asked>>

DemandInit ==
    /\ last_request = EmptyMap /\ locally_fresh = {} /\ asked = {} /\ demand_now = 0
    /\ demand = [t \in DemandThreads |-> NoDemand]

DemandNext ==
    \/ \E t \in DemandThreads :
          \/ \E s \in DemandStreams : ReadMisses(t, s) \/ PlanNamesNode(t, s)
          \/ ShouldRequest(t) \/ ReplicaRequested(t)
    \/ \E s \in DemandStreams : FreshnessChanges(s)
    \/ ClockMoves

DemandSpec == DemandInit /\ [][DemandNext]_demandVars
-----------------------------------------------------------------------------
\* The type of the tracker and its callers.
DemandTypeOK ==
    /\ DOMAIN last_request \subseteq DemandStreams
    /\ \A s \in DOMAIN last_request : last_request[s] \in 0 .. DemandTimeLimit
    /\ locally_fresh \subseteq DemandStreams
    /\ \A t \in DemandThreads : demand[t].pc \in {"idle", "clocked", "requesting"}

\* Two requests for one stream that the tracker let through have clock readings
\* an interval apart, also when the callers reach the entry in the other order
\* than they read the clock, and when the wall clock is set back
\* (main.rs:7859-7883).
RequestsSpaced ==
    \A x, y \in asked : x[1] = y[1] /\ x # y => x[2] - y[2] >= RequestMinInterval
                                                \/ y[2] - x[2] >= RequestMinInterval

\* Requests for replicas, the tracker's type included.
RequestsSound == DemandTypeOK /\ RequestsSpaced
=============================================================================
