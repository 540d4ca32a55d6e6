---------------------------- MODULE SubscribeGate ----------------------------
(***************************************************************************)
(* Edge subscription authorization (src/subscribe_authorization.rs): the   *)
(* CurrentSubscribeRegistry follows a controller's ordered invalidations,  *)
(* and the EdgeSubscribeGate turns a capability into a SubscriptionLease   *)
(* that is revalidated against the registry while it is used.              *)
(*                                                                         *)
(* Carrier connections call authorize() from several threads.  The         *)
(* registry lock is released before the capability is verified and the     *)
(* admission mutex before the request is checked further, so invalidations *)
(* and other requests fall in between; each locked section is one step.    *)
(* Invalidations reach the edge late, repeatedly, out of order or never,   *)
(* snapshots late or repeatedly.                                           *)
(*                                                                         *)
(* One session is modelled.  Its epoch stands for session_epoch,           *)
(* media_authorization_epoch and media_policy_version, any of which makes  *)
(* a binding stale.  The verifier belongs to another crate: it accepts a   *)
(* capability for the exact binding it was issued for, within the clock    *)
(* skew, and calls the replay guard last.  Requests that are malformed,    *)
(* and the metrics, are left out.                                          *)
(*                                                                         *)
(* A definition named Bug... is a deliberately wrong variant of the        *)
(* definition that follows it: it shows that a property can fail.          *)
(***************************************************************************)
EXTENDS Integers, Sequences, FiniteSets, FiniteSetsExt

CONSTANTS
  Bindings,        \* CurrentSubscribeBinding: [key, endpoint, epoch, grant]
  Events,          \* contents of an invalidation: [epoch, endpoint, grant]
  NoEndpoint,      \* endpoint of an event that concerns the whole session
  Capabilities,    \* [id, binding, expires, key_bound]
  Connections,     \* connection_id
  Threads,         \* threads that run authorize()
  Idle,            \* no request
  MaxActive,       \* MAX_ACTIVE_SUBSCRIPTIONS
  Skew,            \* clock_skew_seconds
  MaxEvents,       \* bound: events of the controller
  MaxSnapshots,    \* bound: snapshots of the controller
  MaxInstalls,     \* bound: installations of a binding or a snapshot
  MaxRequests,     \* bound: authorization requests
  MaxTime          \* bound: the clock

ASSUME GateAssumption ==
  /\ MaxActive \in Nat \ {0}
  /\ Skew \in Nat
  /\ {MaxEvents, MaxSnapshots, MaxInstalls, MaxRequests, MaxTime} \subseteq Nat
  /\ \A c \in Capabilities : c.binding \in Bindings /\ c.expires \in Nat

\* What a thread keeps of the request it authorizes
Request == [pc : {"verify", "check"}, binding : Bindings, revision : Nat,
            capability : Capabilities, connection : Connections, proof : BOOLEAN,
            now : Nat, id : Nat, pending : BOOLEAN]

ASSUME IdleAssumption == Idle \notin Request

VARIABLES
  \* --- controller ----------------------------------------------------------
  outbox,        \* its invalidations, in delivery_sequence order
  snapshots,     \* snapshots it has sent: [boundary, bindings]
  received,      \* history: sequences apply_invalidation was called with
  \* --- CurrentSubscribeRegistry ----------------------------------------------
  next_revision, last_invalidation_sequence, required_snapshot_boundary, synchronized,
  bindings,      \* key -> [binding, revision, active, since]; since is history:
                 \* the invalidations applied when install() put it there
  installs,
  \* --- EdgeSubscribeGate ------------------------------------------------------
  admissions,    \* capability -> [fingerprint, expires, state]
  requests,      \* next_reservation_id, less one
  request,       \* per thread: the request it authorizes, or Idle
  leases,        \* the leases that were issued
  now

controller == <<outbox, snapshots>>
registry   == <<next_revision, last_invalidation_sequence, required_snapshot_boundary,
                synchronized, bindings>>
gate       == <<admissions, requests, request, leases>>
vars       == <<controller, received, registry, installs, gate, now>>

Keys == {b.key : b \in Bindings}
Committed == 0     \* AdmissionState; a reservation id otherwise
EmptyTable == [x \in {} |-> x]
Put(f, k, v) == [x \in DOMAIN f \cup {k} |-> IF x = k THEN v ELSE f[x]]
Keep(f, S)   == [x \in DOMAIN f \cap S |-> f[x]]

\* What an invalidation makes stale
StaleUnder(b, e) ==
  \/ b.epoch < e.epoch
  \/ e.endpoint # NoEndpoint /\ b.endpoint = e.endpoint /\ b.grant < e.grant

CurrentAt(b, sequence) == \A i \in 1..sequence : ~StaleUnder(b, outbox[i])

(***************************************************************************)
(* The controller (external): it appends invalidations and takes exact     *)
(* snapshots of what is current.                                           *)
(***************************************************************************)
PublishInvalidation(e) ==
  /\ Len(outbox) < MaxEvents
  /\ outbox' = Append(outbox, e)
  /\ UNCHANGED <<snapshots, received, registry, installs, gate, now>>

TakeSnapshot(S) ==
  /\ Cardinality(snapshots) < MaxSnapshots
  /\ \A b \in S : CurrentAt(b, Len(outbox))
  /\ snapshots' = snapshots \cup {[boundary |-> Len(outbox), bindings |-> S]}
  /\ UNCHANGED <<outbox, received, registry, installs, gate, now>>

(***************************************************************************)
(* CurrentSubscribeRegistry                                                *)
(***************************************************************************)
\* The control client installs a binding.  install() compares it with no
\* invalidation: one that an invalidation applied before has overtaken is
\* installed as active.
Install(b) ==
  /\ installs < MaxInstalls
  /\ synchronized
  /\ b.key \notin DOMAIN bindings
  /\ Cardinality(DOMAIN bindings) < MaxActive
  /\ next_revision' = next_revision + 1
  /\ bindings' = Put(bindings, b.key, [binding |-> b, revision |-> next_revision + 1,
                                       active |-> TRUE, since |-> last_invalidation_sequence])
  /\ installs' = installs + 1
  /\ UNCHANGED <<controller, received, last_invalidation_sequence,
                 required_snapshot_boundary, synchronized, gate, now>>

\* Numbers for the keys in K, one each, above n
Revisions(n, K) == CHOOSE f \in [K -> (n + 1)..(n + Cardinality(K))] :
                     \A k, m \in K : k # m => f[k] # f[m]

\* The next event in order: every active binding it makes stale is revoked,
\* under a new revision.
ApplyInOrder(sequence) ==
  LET revoked == {k \in DOMAIN bindings :
                    bindings[k].active /\ StaleUnder(bindings[k].binding, outbox[sequence])}
      fresh   == Revisions(next_revision, revoked)
  IN  /\ synchronized
      /\ sequence = last_invalidation_sequence + 1
      /\ last_invalidation_sequence' = sequence
      /\ bindings' = [k \in DOMAIN bindings |->
                        IF k \in revoked
                          THEN [bindings[k] EXCEPT !.revision = fresh[k], !.active = FALSE]
                          ELSE bindings[k]]
      /\ next_revision' = next_revision + Cardinality(revoked)
      /\ UNCHANGED <<synchronized, required_snapshot_boundary>>

\* A detected gap fences every lease until a snapshot covers it.
FenceGap(sequence) ==
  /\ sequence > last_invalidation_sequence
  /\ ~synchronized \/ sequence # last_invalidation_sequence + 1
  /\ synchronized' = FALSE
  /\ required_snapshot_boundary' = Max({required_snapshot_boundary, sequence})
  /\ UNCHANGED <<next_revision, last_invalidation_sequence, bindings>>

ApplyInvalidation(sequence) ==
  /\ received' = received \cup {sequence}
  /\ \/ sequence <= last_invalidation_sequence /\ UNCHANGED registry
     \/ ApplyInOrder(sequence)
     \/ FenceGap(sequence)
  /\ UNCHANGED <<controller, installs, gate, now>>

\* A snapshot that is accepted whatever gap was seen since it was taken.
BugSnapshotAccepted(s) ==
  /\ Cardinality(s.bindings) <= MaxActive
  /\ s.boundary >= last_invalidation_sequence

SnapshotAccepted(s) ==
  /\ Cardinality(s.bindings) <= MaxActive
  /\ s.boundary >= last_invalidation_sequence
  /\ s.boundary >= required_snapshot_boundary

\* Revisions that start again with every snapshot.
BugSnapshotRevisions(s) == Revisions(0, {b.key : b \in s.bindings})

SnapshotRevisions(s) == Revisions(next_revision, {b.key : b \in s.bindings})

InstallSnapshot(s) ==
  /\ installs < MaxInstalls
  /\ SnapshotAccepted(s)
  /\ bindings' = [k \in {b.key : b \in s.bindings} |->
                    [binding |-> CHOOSE b \in s.bindings : b.key = k,
                     revision |-> SnapshotRevisions(s)[k], active |-> TRUE, since |-> 0]]
  /\ next_revision' = next_revision + Cardinality(s.bindings)
  /\ last_invalidation_sequence' = s.boundary
  /\ required_snapshot_boundary' = 0
  /\ synchronized' = TRUE
  /\ installs' = installs + 1
  /\ UNCHANGED <<controller, received, gate, now>>

\* resolve(): what the registry says of a key
Resolves(key) == synchronized /\ key \in DOMAIN bindings /\ bindings[key].active

\* revalidate() of a lease against the registry
RegistryAccepts(l) ==
  Resolves(l.binding.key) /\ bindings[l.binding.key].revision = l.revision

(***************************************************************************)
(* EdgeSubscribeGate::authorize                                            *)
(***************************************************************************)
\* The binding is resolved under the registry's read lock, and the request
\* keeps what it saw.
Resolve(t, key, c, connection, proof) ==
  /\ request[t] = Idle
  /\ requests < MaxRequests
  /\ Resolves(key)
  /\ requests' = requests + 1
  /\ request' = [request EXCEPT ![t] =
       [pc |-> "verify", binding |-> bindings[key].binding, revision |-> bindings[key].revision,
        capability |-> c, connection |-> connection, proof |-> proof,
        now |-> now, id |-> requests + 1, pending |-> FALSE]]
  /\ UNCHANGED <<controller, received, registry, installs, admissions, leases, now>>

\* SubscribeAdmissionFingerprint
Fingerprint(r) == [key |-> r.binding.key, connection |-> r.connection]

\* What the verifier accepts (external)
Verified(r) ==
  r.capability.binding = r.binding /\ r.now < r.capability.expires + Skew

\* A committed admission is renewed by the connection that holds it; anything
\* else that is stored is a replay.
Readmits(stored, r) == stored.fingerprint = Fingerprint(r) /\ stored.state = Committed

HasRoom(table) == Cardinality(DOMAIN table) < MaxActive

\* check_and_admit, under the admission mutex
Admit(t) ==
  LET r    == request[t]
      live == Keep(admissions, {c \in Capabilities :
                                  c \in DOMAIN admissions => admissions[c].expires > r.now})
      new  == r.capability \notin DOMAIN live
  IN  /\ request[t] # Idle /\ r.pc = "verify"
      /\ Verified(r)
      /\ IF new /\ HasRoom(live)
           THEN /\ admissions' = Put(live, r.capability,
                     [fingerprint |-> Fingerprint(r), expires |-> r.capability.expires,
                      state |-> r.id])
                /\ request' = [request EXCEPT ![t].pc = "check", ![t].pending = TRUE]
         ELSE IF ~new /\ Readmits(live[r.capability], r)
           THEN /\ admissions' = live
                /\ request' = [request EXCEPT ![t].pc = "check"]
         ELSE /\ admissions' = live
              /\ request' = [request EXCEPT ![t] = Idle]
      /\ UNCHANGED <<controller, received, registry, installs, requests, leases, now>>

VerifierRejects(t) ==
  /\ request[t] # Idle /\ request[t].pc = "verify"
  /\ ~Verified(request[t])
  /\ request' = [request EXCEPT ![t] = Idle]
  /\ UNCHANGED <<controller, received, registry, installs, admissions, requests, leases, now>>

\* The checks after the verifier: expiry without skew, and the client key
Acceptable(r) == r.now < r.capability.expires /\ (r.capability.key_bound => r.proof)

\* The guard is dropped: a reservation that is still its own is removed.
Rollback(t) ==
  LET r    == request[t]
      owns == /\ r.pending
              /\ r.capability \in DOMAIN admissions
              /\ admissions[r.capability].state = r.id
  IN  /\ request[t] # Idle /\ r.pc = "check"
      /\ ~Acceptable(r)
      /\ admissions' = IF owns THEN Keep(admissions, Capabilities \ {r.capability})
                       ELSE admissions
      /\ request' = [request EXCEPT ![t] = Idle]
      /\ UNCHANGED <<controller, received, registry, installs, requests, leases, now>>

\* commit() of the reservation that is still its own
Committing(r) ==
  IF /\ r.pending
     /\ r.capability \in DOMAIN admissions
     /\ admissions[r.capability].state = r.id
    THEN [admissions EXCEPT ![r.capability].state = Committed]
    ELSE admissions

\* The request is accepted and the lease returned.
Commit(t) ==
  LET r == request[t]
  IN  /\ request[t] # Idle /\ r.pc = "check"
      /\ Acceptable(r)
      /\ admissions' = Committing(r)
      /\ leases' = leases \cup {[binding |-> r.binding, revision |-> r.revision,
                                  capability |-> r.capability, connection |-> r.connection]}
      /\ request' = [request EXCEPT ![t] = Idle]
      /\ UNCHANGED <<controller, received, registry, installs, requests, now>>

Elapse ==
  /\ now < MaxTime
  /\ now' = now + 1
  /\ UNCHANGED <<controller, received, registry, installs, gate>>

-----------------------------------------------------------------------------
Init ==
  /\ outbox = <<>> /\ snapshots = {} /\ received = {}
  /\ next_revision = 0
  /\ last_invalidation_sequence = 0
  /\ required_snapshot_boundary = 0
  /\ synchronized = TRUE
  /\ bindings = EmptyTable
  /\ installs = 0
  /\ admissions = EmptyTable
  /\ requests = 0
  /\ request = [t \in Threads |-> Idle]
  /\ leases = {}
  /\ now = 0

\* The finite sets of bindings with one binding per key
Exact == {S \in SUBSET Bindings : IsFiniteSet(S) /\ \A b, c \in S : b.key = c.key => b = c}

RegistryNext ==
  \/ \E e \in Events : PublishInvalidation(e)
  \/ \E S \in Exact : TakeSnapshot(S)
  \/ \E b \in Bindings : Install(b)
  \/ \E sequence \in 1..Len(outbox) : ApplyInvalidation(sequence)
  \/ \E s \in snapshots : InstallSnapshot(s)

GateNext ==
  \E t \in Threads :
    \/ \E key \in Keys, c \in Capabilities, connection \in Connections, proof \in BOOLEAN :
         Resolve(t, key, c, connection, proof)
    \/ Admit(t)
    \/ VerifierRejects(t)
    \/ Rollback(t)
    \/ Commit(t)

Next == RegistryNext \/ GateNext \/ Elapse

Spec == Init /\ [][Next]_vars

-----------------------------------------------------------------------------
(***************************************************************************)
(* Properties.                                                             *)
(***************************************************************************)
\* The values every variable ranges over.
TypeOK ==
  /\ outbox \in Seq(Events)
  /\ \A s \in snapshots : s.boundary \in 0..MaxEvents /\ s.bindings \in Exact
  /\ received \subseteq 1..MaxEvents
  /\ next_revision \in Nat
  /\ last_invalidation_sequence \in 0..Len(outbox)
  /\ required_snapshot_boundary \in 0..Len(outbox)
  /\ synchronized \in BOOLEAN
  /\ DOMAIN bindings \subseteq Keys
  /\ \A k \in DOMAIN bindings :
       /\ bindings[k].binding \in Bindings /\ bindings[k].binding.key = k
       /\ bindings[k].revision \in 1..next_revision
       /\ bindings[k].active \in BOOLEAN
       /\ bindings[k].since \in 0..last_invalidation_sequence
  /\ installs \in 0..MaxInstalls
  /\ DOMAIN admissions \subseteq Capabilities
  /\ Cardinality(DOMAIN admissions) <= MaxActive
  /\ \A c \in DOMAIN admissions : admissions[c].state \in 0..MaxRequests
  /\ requests \in 0..MaxRequests
  /\ now \in 0..MaxTime

\* A lease that still revalidates is current: no invalidation the edge has
\* received in any form - applied, repeated, or only noticed as a gap - makes
\* its binding stale, however snapshots and invalidations overtook each other
\* and whatever happened while the lease was being issued.  A binding of a
\* snapshot is held to every invalidation.  One that install() put there is
\* held to those after the last one applied by then: install() takes its
\* caller's word for the earlier ones, which are never applied again.
RevalidatedIsCurrent ==
  \A l \in leases : RegistryAccepts(l) =>
    \A i \in received :
      i > bindings[l.binding.key].since => ~StaleUnder(l.binding, outbox[i])

\* A lease the registry has refused once for its binding is refused for ever:
\* revisions are never reused, so neither a snapshot nor a new installation of
\* the same key revives it.
RefusalIsFinal ==
  [][\A l \in leases : ~RegistryAccepts(l) => ~RegistryAccepts(l)']_vars

\* A capability is held by one connection: for as long as a lease has not
\* expired, the table holds the committed admission of its own connection, so
\* no other connection can be admitted with the same capability.
LeaseHoldsAdmission ==
  \A l \in leases : now < l.capability.expires =>
    /\ l.capability \in DOMAIN admissions
    /\ admissions[l.capability].state = Committed
    /\ admissions[l.capability].fingerprint =
         [key |-> l.binding.key, connection |-> l.connection]

\* No reservation is leaked: a pending admission belongs to a request that is
\* still being authorized, which will commit it or take it back.
PendingIsOwned ==
  \A c \in DOMAIN admissions : admissions[c].state # Committed =>
    \E t \in Threads :
      /\ request[t] # Idle
      /\ request[t].capability = c /\ request[t].pending
      /\ request[t].id = admissions[c].state

\* Authorization while invalidations arrive late, twice or not at all
\* (subscribe_authorization.rs:330-1010): a lease that revalidates is current, a
\* capability is held by one connection, and no reservation is leaked.
GateSound == TypeOK /\ RevalidatedIsCurrent /\ LeaseHoldsAdmission /\ PendingIsOwned
=============================================================================
