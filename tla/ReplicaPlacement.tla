---------------------------- MODULE ReplicaPlacement ----------------------------
(***************************************************************************)
(* The replica planner (src/src/replication.rs, and its inputs in          *)
(* plan_replicas_from_snapshots, src/src/main.rs).  A plan fills scopes    *)
(* one after the other: every continent and every region up to its         *)
(* baseline, in order, then the regions with hot demand in the order of a  *)
(* hash map.  Each step of this module places one replica or finishes one  *)
(* scope; when a plan is done it may be carried out and planned again.     *)
(*                                                                         *)
(* Abstractions: places are points on a line; the weights of storage,      *)
(* throughput and load are one number, Merit, which the distance to the    *)
(* nearest replica, up to DistanceCap, adds to.                            *)
(***************************************************************************)
EXTENDS Integers, Sequences, SequencesExt, FiniteSets, FiniteSetsExt

CONSTANTS MeshNodes,        \* node id (a number) -> [region, continent, place, merit]
          DemandRegions,    \* <<region, continent>> of demand signals
          Policies,         \* [continent, region, cap]: the baselines and
                            \* max_new_replicas_per_plan
          MinMirrorDistance, DistanceCap

ASSUME PlacementAssumption ==
    /\ DOMAIN MeshNodes \subseteq Nat /\ IsFiniteSet(DOMAIN MeshNodes)
    /\ \A n \in DOMAIN MeshNodes : MeshNodes[n].place \in Int /\ MeshNodes[n].merit \in Int
    /\ \A n \in DOMAIN MeshNodes, d \in DemandRegions :   \* a demand takes its continent from
          MeshNodes[n].region = d[1] => MeshNodes[n].continent = d[2]   \* the nodes of its region
    /\ Policies \subseteq [continent : Nat, region : Nat, cap : Nat]
    /\ {MinMirrorDistance, DistanceCap} \subseteq Nat

VARIABLES policy,     \* ReplicationPolicy
          storable,   \* can_store: the nodes with room that do not drain
          replicas,   \* existing_replicas
          hot,        \* demand regions above a threshold
          todo,       \* scopes the plan has still to fill, in order
          demanded,   \* demand regions not looked at
          selected,   \* placements of the plan, in order
          round       \* 1, and 2 for a plan on top of one that was carried out

placementVars == <<policy, storable, replicas, hot, todo, demanded, selected, round>>

Nodes == DOMAIN MeshNodes
-----------------------------------------------------------------------------
\* Scopes; ordered_counts visits the names of the nodes' scopes in order.
Continent(c) == [continent |-> c]
Region(r)    == [region |-> r]

Matches(n, scope) ==
    IF "region" \in DOMAIN scope THEN MeshNodes[n].region = scope.region
    ELSE MeshNodes[n].continent = scope.continent

Ordered(names) == SetToSortSeq(names, LAMBDA a, b : a < b)

Baseline ==
    (IF policy.continent = 0 THEN <<>> ELSE
        [i \in 1 .. Cardinality({MeshNodes[n].continent : n \in Nodes}) |->
            [scope  |-> Continent(Ordered({MeshNodes[n].continent : n \in Nodes})[i]),
             target |-> policy.continent, otherwise |-> <<>>]])
    \o
    (IF policy.region = 0 THEN <<>> ELSE
        [i \in 1 .. Cardinality({MeshNodes[n].region : n \in Nodes}) |->
            [scope  |-> Region(Ordered({MeshNodes[n].region : n \in Nodes})[i]),
             target |-> policy.region, otherwise |-> <<>>]])

Placed == replicas \cup Range(selected)

\* count_replicas_in_scope
CountReplicas(scope) == Cardinality({n \in Placed : Matches(n, scope)})
-----------------------------------------------------------------------------
Abs(x) == IF x < 0 THEN -x ELSE x

\* min_distance_to_node_refs; without replicas it is infinite.
Distance(n) ==
    IF Placed = {} THEN DistanceCap + MinMirrorDistance
    ELSE Min({Abs(MeshNodes[n].place - MeshNodes[o].place) : o \in Placed})

Score(n) == MeshNodes[n].merit + Min({Distance(n), DistanceCap})

Candidates(scope) == {n \in Nodes : Matches(n, scope)} \cap (storable \ Placed)

FarEnough(scope) == {n \in Candidates(scope) : Distance(n) >= MinMirrorDistance}

Pool(scope) == IF FarEnough(scope) # {} THEN FarEnough(scope) ELSE Candidates(scope)

\* choose_candidate: the best of the pool, the last of several.
Chosen(scope) ==
    CHOOSE n \in Pool(scope) : \A o \in Pool(scope) :
        Score(n) > Score(o) \/ (Score(n) = Score(o) /\ n >= o)

\* One turn of fill_scope's loop.
PlaceReplica ==
    LET scope == Head(todo).scope
    IN  /\ todo # <<>>
        /\ CountReplicas(scope) < Head(todo).target
        /\ Len(selected) < policy.cap
        /\ Candidates(scope) # {}
        /\ selected' = Append(selected, Chosen(scope))
        /\ todo' = [todo EXCEPT ![1].otherwise = <<>>]
        /\ UNCHANGED <<policy, storable, replicas, hot, demanded, round>>

\* fill_scope returns; a demand region that got no replica tries its continent.
LeaveScope ==
    LET scope == Head(todo).scope
    IN  /\ todo # <<>>
        /\ \/ CountReplicas(scope) >= Head(todo).target
           \/ Len(selected) >= policy.cap
           \/ Candidates(scope) = {}
        /\ todo' = Head(todo).otherwise \o Tail(todo)
        /\ UNCHANGED <<policy, storable, replicas, hot, demanded, selected, round>>

\* A fallback that always adds a replica.
BugFallsBack(d) == <<[scope |-> Continent(d[2]), target |-> CountReplicas(Continent(d[2])) + 1,
                      otherwise |-> <<>>]>>

\* What is left to try after the region of a demand.
FallsBack(d) == <<[scope |-> Continent(d[2]), target |-> 1, otherwise |-> <<>>]>>

\* The next entry of demand_by_region; demand_is_hot or it is skipped.
TakeDemand(d) ==
    /\ todo = <<>> /\ d \in demanded
    /\ demanded' = demanded \ {d}
    /\ todo' = IF d \in hot
               THEN <<[scope |-> Region(d[1]), target |-> 1, otherwise |-> FallsBack(d)]>>
               ELSE <<>>
    /\ UNCHANGED <<policy, storable, replicas, hot, selected, round>>

PlanDone == todo = <<>> /\ demanded = {}

\* The plan is carried out and the planner runs again on the same nodes.
CarryOut ==
    /\ PlanDone /\ round = 1
    /\ replicas' = Placed
    /\ selected' = <<>> /\ todo' = Baseline /\ demanded' = hot
    /\ round' = 2
    /\ UNCHANGED <<policy, storable, hot>>

\* Without a replica and without demand there is nothing to plan.
PlacementInit ==
    /\ policy \in Policies
    /\ storable \in SUBSET Nodes
    /\ replicas \in SUBSET Nodes
    /\ hot \in SUBSET DemandRegions
    /\ demanded \in {{}, DemandRegions} /\ hot \subseteq demanded
    /\ replicas # {} \/ demanded # {}
    /\ todo = Baseline /\ selected = <<>> /\ round = 1

PlacementNext ==
    PlaceReplica \/ LeaveScope \/ (\E d \in DemandRegions : TakeDemand(d)) \/ CarryOut

PlacementSpec == PlacementInit /\ [][PlacementNext]_placementVars
-----------------------------------------------------------------------------
\* The type of the planner's state.
PlacementTypeOK ==
    /\ replicas \cup storable \subseteq Nodes /\ hot \subseteq DemandRegions
    /\ selected \in Seq(Nodes) /\ Len(selected) <= policy.cap
    /\ round \in 1 .. 2

\* A finished plan that did not hit its cap has done what could be done: a scope
\* is at its baseline or has no node left that could store the stream, and a hot
\* region has a replica, or has none to offer and its continent has one, or
\* neither has (replication.rs:113-200).  The regions may be visited in any order.
PlanCoversDemand ==
    PlanDone /\ Len(selected) < policy.cap =>
        /\ \A i \in DOMAIN Baseline :
              \/ CountReplicas(Baseline[i].scope) >= Baseline[i].target
              \/ Candidates(Baseline[i].scope) = {}
        /\ \A d \in hot :
              \/ CountReplicas(Region(d[1])) > 0
              \/ Candidates(Region(d[1])) = {}
                 /\ (CountReplicas(Continent(d[2])) > 0 \/ Candidates(Continent(d[2])) = {})

\* A plan that was carried out is not extended by the next one, as long as the
\* cap cannot have cut it short: planning every few seconds on the same nodes
\* does not add replicas for ever, whatever order the hash map had each time.
PlanSettles ==
    round = 2 /\ Cardinality(replicas) < policy.cap => selected = <<>>

\* A plan of replicas, its type included.
PlacementSound == PlacementTypeOK /\ PlanCoversDemand /\ PlanSettles
=============================================================================
