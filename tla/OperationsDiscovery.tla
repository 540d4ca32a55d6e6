--------------------------- MODULE OperationsDiscovery ---------------------------
(***************************************************************************)
(* Where the operators' console of the whole fleet is (operations_-        *)
(* discovery_response and operations_snapshot_response, src/src/main.rs).  *)
(* One collector at a time holds a lease; it puts a snapshot of the fleet  *)
(* into a file of every edge, with what was left of its lease then.  An    *)
(* edge reads its clock, looks at the file, reads it, and answers with the *)
(* snapshot or a redirect to the collector when it finds the lease still   *)
(* running.  The file may be replaced, and the lease end or pass to        *)
(* another collector, between any two of these steps.                      *)
(*                                                                         *)
(* Abstractions: the collector and its lease are external; the fields of a *)
(* committed proof (schema, authority, quorum, term, fencing generation)   *)
(* are one flag; so are the rules for an endpoint.  Every clock differs    *)
(* from true time by a constant.  The edges are those with a configured    *)
(* file: one without it answers 503 to discovery and its own status, the   *)
(* one of MeshStatus, to the API, and no lease is involved.                *)
(***************************************************************************)
EXTENDS Integers

CONSTANTS OpsEdges, OpsCollectors,
          ClockOf,        \* edge or collector -> its clock minus true time
          LeaseMargin,    \* OPERATIONS_LEASE_SAFETY_MARGIN_MS
          FutureMargin,   \* how far ahead a snapshot may be, 1000 ms
          OpsStale,       \* OPERATIONS_SNAPSHOT_STALE_MS
          LeaseLength,    \* external: how long a lease is granted
          OpsTimeLimit    \* bound: the clock stops here

\* No collector's clock is ahead of an edge's by more than the margin.
ASSUME OpsAssumption ==
    /\ ClockOf \in [OpsEdges \cup OpsCollectors -> Int]
    /\ {LeaseMargin, FutureMargin, OpsStale, LeaseLength, OpsTimeLimit} \subseteq Nat
    /\ \A e \in OpsEdges, c \in OpsCollectors : ClockOf[c] - ClockOf[e] <= LeaseMargin

VARIABLES ops_now,
          lease,         \* the lease granted last: [who, from, until]
          ops_file,      \* edge -> what its file is
          ops_request,   \* edge -> the request it answers
          ops_answer     \* edge -> its last answer

opsVars == <<ops_now, lease, ops_file, ops_request, ops_answer>>

NoFile == [file |-> "missing"]
NoOpsRequest == [step |-> "idle"]
NoOpsAnswer == [status |-> 0]
-----------------------------------------------------------------------------
\* external: the lease is renewed, or granted when it has run out.
GrantLease(c) ==
    /\ lease.who = c \/ lease.until <= ops_now
    /\ lease' = [who |-> c, from |-> IF lease.until > ops_now THEN lease.from ELSE ops_now,
                 until |-> ops_now + LeaseLength]
    /\ UNCHANGED <<ops_now, ops_file, ops_request, ops_answer>>

\* external: the holder replaces the file of an edge.
WriteSnapshot(e, committed, endpoint) ==
    /\ lease.until > ops_now
    /\ ops_file' = [ops_file EXCEPT ![e] =
          [file |-> "snapshot", committed |-> committed, endpoint |-> endpoint,
           updated |-> ops_now + ClockOf[lease.who], remaining |-> lease.until - ops_now,
           lease |-> lease]]
    /\ UNCHANGED <<ops_now, lease, ops_request, ops_answer>>

\* external: the file is missing, no bounded regular file, or not JSON.
BreakFile(e, file) ==
    /\ ops_file' = [ops_file EXCEPT ![e] = [file |-> file]]
    /\ UNCHANGED <<ops_now, lease, ops_request, ops_answer>>
-----------------------------------------------------------------------------
\* The route of the console or of its API: now_unix_ms() before the file.
BeginOps(e, kind) ==
    /\ ops_request[e] = NoOpsRequest
    /\ ops_request' = [ops_request EXCEPT ![e] =
          [step |-> "stat", kind |-> kind, clock |-> ops_now + ClockOf[e], started |-> ops_now]]
    /\ ops_answer' = [ops_answer EXCEPT ![e] = NoOpsAnswer]
    /\ UNCHANGED <<ops_now, lease, ops_file>>

Answers503(e) ==
    /\ ops_answer' = [ops_answer EXCEPT ![e] = [status |-> 503]]
    /\ ops_request' = [ops_request EXCEPT ![e] = NoOpsRequest]

\* symlink_metadata
StatFile(e) ==
    /\ ops_request[e].step = "stat"
    /\ IF ops_file[e].file \in {"missing", "irregular"} THEN Answers503(e)
       ELSE /\ ops_request' = [ops_request EXCEPT ![e].step = "read"]
            /\ UNCHANGED ops_answer
    /\ UNCHANGED <<ops_now, lease, ops_file>>

\* saturating_sub: a snapshot from ahead of this clock is new.
AgeAt(clock, updated) == IF clock > updated THEN clock - updated ELSE 0

FreshAt(clock, updated) == updated <= clock + FutureMargin /\ AgeAt(clock, updated) <= OpsStale

\* A lease without its safety margin.
BugLeaseRuns(clock, f) == f.remaining > AgeAt(clock, f.updated)

\* More is left of the lease than its age and the margin.
LeaseRuns(clock, f) == f.remaining > AgeAt(clock, f.updated) + LeaseMargin

\* read_current_operations_snapshot of what is in the file by now.
Current(clock, f) ==
    /\ f.file = "snapshot" /\ f.committed
    /\ FreshAt(clock, f.updated)
    /\ LeaseRuns(clock, f)

\* The snapshot with 200, or 307 to the endpoint of its collector.
StatusOf(kind) == IF kind = "discovery" THEN 307 ELSE 200

ReadFile(e) ==
    LET q == ops_request[e]
        f == ops_file[e]
    IN  /\ q.step = "read"
        /\ IF Current(q.clock, f) /\ (q.kind = "discovery" => f.endpoint = "safe")
           THEN /\ ops_answer' = [ops_answer EXCEPT ![e] =
                      [status |-> StatusOf(q.kind), lease |-> f.lease,
                       started |-> q.started, at |-> ops_now]]
                /\ ops_request' = [ops_request EXCEPT ![e] = NoOpsRequest]
           ELSE Answers503(e)
        /\ UNCHANGED <<ops_now, lease, ops_file>>

OpsElapse ==
    /\ ops_now < OpsTimeLimit
    /\ ops_now' = ops_now + 1
    /\ UNCHANGED <<lease, ops_file, ops_request, ops_answer>>

OpsInit ==
    /\ ops_now = 0
    /\ lease = [who |-> CHOOSE c \in OpsCollectors : TRUE, from |-> 0, until |-> 0]
    /\ ops_file = [e \in OpsEdges |-> NoFile]
    /\ ops_request = [e \in OpsEdges |-> NoOpsRequest]
    /\ ops_answer = [e \in OpsEdges |-> NoOpsAnswer]

OpsNext ==
    \/ \E c \in OpsCollectors : GrantLease(c)
    \/ \E e \in OpsEdges :
          \/ \E committed \in BOOLEAN, endpoint \in {"safe", "unsafe"} :
                WriteSnapshot(e, committed, endpoint)
          \/ \E file \in {"missing", "irregular", "invalid"} : BreakFile(e, file)
          \/ \E kind \in {"discovery", "snapshot"} : BeginOps(e, kind)
          \/ StatFile(e) \/ ReadFile(e)
    \/ OpsElapse

OpsSpec == OpsInit /\ [][OpsNext]_opsVars
-----------------------------------------------------------------------------
Served(e) == ops_answer[e].status \in {200, 307}

\* A snapshot or a redirect is of a collector whose lease was in force at some
\* time between the request and its answer, although its clock may be ahead and
\* the file is read after the edge's clock; so while one collector's lease runs,
\* requests that begin and end within it are sent to no other
\* (main.rs:13493-13598).
SentToTheHolder ==
    \A e \in OpsEdges : Served(e) =>
        LET a == ops_answer[e]
        IN  /\ a.lease.until > a.started /\ a.lease.from <= a.at
            /\ a.started >= lease.from => a.lease.who = lease.who

\* Discovery of the collector, its type included.
DiscoverySound ==
    /\ \A e \in OpsEdges : ops_answer[e].status \in {0, 200, 307, 503}
    /\ lease.until <= ops_now + LeaseLength
    /\ SentToTheHolder
=============================================================================
