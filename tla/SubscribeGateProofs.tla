------------------------- MODULE SubscribeGateProofs -------------------------
(***************************************************************************)
(* Proofs about SubscribeGate, for every set of bindings, capabilities,    *)
(* connections and threads, every skew and every bound: a lease that       *)
(* revalidates is current, a capability is held by one connection, no      *)
(* reservation is leaked, and a refusal is final.  And about               *)
(* DeliveryCatalog, for every catalog, lease and limit: what a subscriber  *)
(* is shown and handed is what its lease covers, and the delivery buffer's *)
(* count is exact.                                                         *)
(***************************************************************************)
EXTENDS SubscribeGate, DeliveryCatalog, SequenceFacts, FiniteSetTheorems, TLAPS

USE GateAssumption, IdleAssumption

(***************************************************************************)
(* The inductive invariant.                                                *)
(***************************************************************************)
\* An entry of the registry.
Registered == [binding : Bindings, revision : Nat, active : BOOLEAN, since : Nat]

\* The controller's and the registry's variables: what TypeOK says of them,
\* and that the sequence numbers stay within what was published.
RegistryTypes ==
  /\ outbox \in Seq(Events) /\ Len(outbox) \in 0..MaxEvents
  /\ \A s \in snapshots : s.boundary \in 0..Len(outbox) /\ s.bindings \in Exact
  /\ received \subseteq 1..Len(outbox)
  /\ next_revision \in Nat
  /\ last_invalidation_sequence \in 0..Len(outbox)
  /\ required_snapshot_boundary \in 0..Len(outbox)
  /\ synchronized \in BOOLEAN
  /\ bindings \in [DOMAIN bindings -> Registered]
  /\ \A k \in DOMAIN bindings :
       /\ bindings[k].binding.key = k /\ bindings[k].revision \in 1..next_revision
       /\ bindings[k].since <= last_invalidation_sequence
  /\ IsFiniteSet(DOMAIN bindings)
  /\ installs \in 0..MaxInstalls

\* An entry of the admission table.
Admission == [fingerprint : [key : Keys, connection : Connections],
              expires : Nat, state : 0..MaxRequests]

\* The table of admissions, and the finiteness its capacity check rests on.
AdmissionTypes ==
  /\ admissions \in [DOMAIN admissions -> Admission]
  /\ DOMAIN admissions \subseteq Capabilities
  /\ IsFiniteSet(DOMAIN admissions)
  /\ Cardinality(DOMAIN admissions) <= MaxActive

\* The requests under way, the leases and the clock.
RequestTypes ==
  /\ requests \in 0..MaxRequests
  /\ request \in [Threads -> Request \cup {Idle}]
  /\ \A t \in Threads : request[t] # Idle => request[t].id \in 1..requests
  /\ leases \subseteq [binding : Bindings, revision : Nat,
                       capability : Capabilities, connection : Connections]
  /\ now \in 0..MaxTime

\* The gate's variables.
GateTypes == AdmissionTypes /\ RequestTypes

\* None of the invalidations after one, up to another, makes a binding stale.
CurrentSince(b, from, to) == \A i \in (from + 1)..to : ~StaleUnder(b, outbox[i])

\* Whatever the snapshots hold is current up to their boundary, and whatever
\* the registry holds is current for the invalidations applied since it was
\* installed.
HeldIsCurrent ==
  /\ \A k \in DOMAIN bindings : bindings[k].active =>
       CurrentSince(bindings[k].binding, bindings[k].since, last_invalidation_sequence)
  /\ \A s \in snapshots : \A b \in s.bindings : CurrentAt(b, s.boundary)

\* An invalidation that was received was applied, or the registry is fenced
\* until a snapshot covers it.
ReceivedIsCovered ==
  \A i \in received :
    \/ i <= last_invalidation_sequence
    \/ ~synchronized /\ i <= required_snapshot_boundary

\* A binding seen under some revision is the one the registry still holds
\* under that revision, if it holds it at all.
SeenUnder(b, revision) ==
  /\ revision <= next_revision
  /\ b.key \in DOMAIN bindings /\ bindings[b.key].active
       /\ bindings[b.key].revision = revision => bindings[b.key].binding = b

\* Leases and requests carry a binding with the revision it was seen under.
RevisionsIdentify ==
  /\ \A l \in leases : SeenUnder(l.binding, l.revision)
  /\ \A t \in Threads : request[t] # Idle =>
       SeenUnder(request[t].binding, request[t].revision)

\* A request that the replay guard has admitted has its entry for as long as
\* the capability has not expired: its own reservation, or the committed
\* admission it renews.
EntryHeld(r) ==
  r.pc = "check" /\ now < r.capability.expires =>
    /\ r.capability \in DOMAIN admissions
    /\ admissions[r.capability].fingerprint = Fingerprint(r)
    /\ admissions[r.capability].state = IF r.pending THEN r.id ELSE Committed

\* Requests under way have distinct ids and a clock reading of the past, and
\* reserve only when they are admitted.
RequestsOK ==
  /\ \A t \in Threads : request[t] # Idle =>
       /\ request[t].now <= now
       /\ request[t].pc = "verify" => ~request[t].pending
       /\ EntryHeld(request[t])
  /\ \A t, u \in Threads :
       t # u /\ request[t] # Idle /\ request[u] # Idle => request[t].id # request[u].id

\* An admission lives as long as its capability.
ExpiryOK == \A c \in DOMAIN admissions : admissions[c].expires = c.expires

\* The registry accounts for everything it has received.
RegistryInv == RegistryTypes /\ HeldIsCurrent /\ ReceivedIsCovered

\* Admissions belong to the requests and the leases that hold them.
AdmissionInv == RequestsOK /\ ExpiryOK /\ LeaseHoldsAdmission /\ PendingIsOwned

\* The inductive invariant.
GateInv == RegistryInv /\ GateTypes /\ RevisionsIdentify /\ AdmissionInv

(***************************************************************************)
(* Lemmas about the model's operators.                                     *)
(***************************************************************************)
\* The registry can number any finite set of keys above a revision, so the
\* numbers Revisions chooses exist.
LEMMA RevisionsType ==
  ASSUME NEW n \in Nat, NEW K, IsFiniteSet(K)
  PROVE  /\ Cardinality(K) \in Nat
         /\ Revisions(n, K) \in [K -> (n + 1)..(n + Cardinality(K))]
<1>. DEFINE m == Cardinality(K)
<1>1. m \in Nat
  BY FS_CardinalityType
<1>2. IsFiniteSet((n + 1)..(n + m)) /\ Cardinality((n + 1)..(n + m)) = m
  <2>. DEFINE a == n + 1
              z == n + m
  <2>1. a \in Int /\ z \in Int /\ (IF a > z THEN 0 ELSE z - a + 1) = m
    BY <1>1
  <2>. HIDE DEF a, z, m
  <2>2. IsFiniteSet(a..z) /\ Cardinality(a..z) = IF a > z THEN 0 ELSE z - a + 1
    BY <2>1, FS_Interval
  <2>. QED
    BY <2>1, <2>2 DEF a, z
<1>3. PICK f \in Bijection(K, (n + 1)..(n + m)) : TRUE
  BY <1>2, FS_SameCardinalityBij DEF ExistsBijection
<1>4. /\ f \in [K -> (n + 1)..(n + m)]
      /\ \A k, j \in K : k # j => f[k] # f[j]
  BY <1>3 DEF Bijection, Injection, IsInjective
<1>. QED
  BY <1>1, <1>4 DEF Revisions

\* The keys of an exact set are finitely many, and no more than its bindings.
LEMMA KeysOfExact ==
  ASSUME NEW S \in Exact
  PROVE  LET K == {b.key : b \in S}
         IN  /\ IsFiniteSet(K) /\ IsFiniteSet(S)
             /\ Cardinality(K) \in Nat /\ Cardinality(S) \in Nat
             /\ Cardinality(K) <= Cardinality(S)
             /\ \A k \in K : LET b == CHOOSE x \in S : x.key = k
                              IN  b \in S /\ b \in Bindings /\ b.key = k
<1>. DEFINE K == {b.key : b \in S}
            f == [b \in S |-> b.key]
<1>1. IsFiniteSet(S) /\ S \subseteq Bindings
  BY DEF Exact
<1>2. f \in Surjection(S, K)
  BY DEF Surjection
<1>3. IsFiniteSet(K) /\ Cardinality(K) <= Cardinality(S)
  BY <1>1, <1>2, FS_Surjection
<1>4. Cardinality(K) \in Nat /\ Cardinality(S) \in Nat
  BY <1>1, <1>3, FS_CardinalityType
<1>5. ASSUME NEW k \in K
      PROVE  LET b == CHOOSE x \in S : x.key = k
             IN  b \in S /\ b \in Bindings /\ b.key = k
  BY <1>1
<1>. QED
  BY <1>1, <1>3, <1>4, <1>5

\* An invalidation that is appended leaves those before it in place.
LEMMA AppendKeeps ==
  ASSUME NEW e \in Events, outbox \in Seq(Events), outbox' = Append(outbox, e)
  PROVE  /\ outbox' \in Seq(Events) /\ Len(outbox') = Len(outbox) + 1
         /\ Len(outbox) \in Nat
         /\ \A i \in 1..Len(outbox) : outbox'[i] = outbox[i]
         /\ \A b, n : n \in 0..Len(outbox) /\ CurrentAt(b, n) => CurrentAt(b, n)'
         /\ \A b, m, n : m \in Nat /\ n \in 0..Len(outbox) /\ CurrentSince(b, m, n)
              => CurrentSince(b, m, n)'
<1>1. /\ outbox' \in Seq(Events) /\ Len(outbox') = Len(outbox) + 1
      /\ Len(outbox) \in Nat
      /\ \A i \in 1..Len(outbox) : outbox'[i] = outbox[i]
  OBVIOUS
<1>2. ASSUME NEW b, NEW n, n \in 0..Len(outbox), CurrentAt(b, n)
      PROVE  CurrentAt(b, n)'
  BY <1>1, <1>2 DEF CurrentAt
<1>3. ASSUME NEW b, NEW m \in Nat, NEW n \in 0..Len(outbox), CurrentSince(b, m, n)
      PROVE  CurrentSince(b, m, n)'
  BY <1>1, <1>3 DEF CurrentSince
<1>. QED
  BY <1>1, <1>2, <1>3

(***************************************************************************)
(* The registry.                                                           *)
(***************************************************************************)
\* The controller only adds to what it has published.
LEMMA ControllerKeepsRegistry ==
  ASSUME RegistryInv,
         \/ \E e \in Events : PublishInvalidation(e)
         \/ \E S \in Exact : TakeSnapshot(S)
  PROVE  RegistryInv'
<1>1. ASSUME NEW e \in Events, PublishInvalidation(e)
      PROVE  RegistryInv'
  <2>1. outbox' = Append(outbox, e) /\ Len(outbox) < MaxEvents
    BY <1>1 DEF PublishInvalidation
  <2>2. /\ outbox' \in Seq(Events) /\ Len(outbox') = Len(outbox) + 1
        /\ Len(outbox) \in Nat
        /\ \A b, n : n \in 0..Len(outbox) /\ CurrentAt(b, n) => CurrentAt(b, n)'
        /\ \A b, m, n : m \in Nat /\ n \in 0..Len(outbox) /\ CurrentSince(b, m, n)
             => CurrentSince(b, m, n)'
    BY <2>1, AppendKeeps DEF RegistryInv, RegistryTypes
  <2>3. RegistryTypes'
    BY <1>1, <2>1, <2>2 DEF PublishInvalidation, RegistryInv, RegistryTypes, registry
  <2>4. HeldIsCurrent'
    BY <1>1, <2>2
    DEF PublishInvalidation, RegistryInv, RegistryTypes, Registered, HeldIsCurrent, registry
  <2>5. ReceivedIsCovered'
    BY <1>1 DEF PublishInvalidation, RegistryInv, ReceivedIsCovered, registry
  <2>. QED
    BY <2>3, <2>4, <2>5 DEF RegistryInv
<1>2. ASSUME NEW S \in Exact, TakeSnapshot(S)
      PROVE  RegistryInv'
  <2>1. RegistryTypes'
    BY <1>2 DEF TakeSnapshot, RegistryInv, RegistryTypes, registry
  <2>2. HeldIsCurrent'
    BY <1>2 DEF TakeSnapshot, RegistryInv, HeldIsCurrent, CurrentAt, CurrentSince, registry
  <2>3. ReceivedIsCovered'
    BY <1>2 DEF TakeSnapshot, RegistryInv, ReceivedIsCovered, registry
  <2>. QED
    BY <2>1, <2>2, <2>3 DEF RegistryInv
<1>. QED
  BY <1>1, <1>2

\* A binding that is installed has a revision of its own, and no invalidation
\* has been applied since.
LEMMA InstallKeepsRegistry ==
  ASSUME RegistryInv, NEW b \in Bindings, Install(b)
  PROVE  RegistryInv'
<1>. DEFINE entry == [binding |-> b, revision |-> next_revision + 1, active |-> TRUE,
                      since |-> last_invalidation_sequence]
<1>1. bindings' = Put(bindings, b.key, entry) /\ b.key \notin DOMAIN bindings
  BY DEF Install
<1>2. /\ DOMAIN bindings' = DOMAIN bindings \cup {b.key}
      /\ bindings'[b.key] = entry
      /\ \A k \in DOMAIN bindings : bindings'[k] = bindings[k]
  BY <1>1 DEF Put
<1>3. bindings' \in [DOMAIN bindings' -> Registered]
  BY <1>1, <1>2 DEF Put, RegistryInv, RegistryTypes, Registered
<1>4. IsFiniteSet(DOMAIN bindings')
  <2>1. IsFiniteSet(DOMAIN bindings \cup {b.key})
    BY FS_AddElement DEF RegistryInv, RegistryTypes
  <2>. QED
    BY <1>2, <2>1, Zenon
<1>5. /\ next_revision' = next_revision + 1
      /\ installs' \in 0..MaxInstalls
      /\ UNCHANGED <<outbox, snapshots, received, last_invalidation_sequence,
                     required_snapshot_boundary, synchronized>>
  BY DEF Install, controller, RegistryInv, RegistryTypes
<1>6. RegistryTypes'
  <2>1. /\ next_revision \in Nat
        /\ \A k \in DOMAIN bindings :
             /\ bindings[k].binding.key = k /\ bindings[k].revision \in 1..next_revision
             /\ bindings[k].since <= last_invalidation_sequence
        /\ last_invalidation_sequence \in Nat
    BY DEF RegistryInv, RegistryTypes
  <2>2. \A k \in DOMAIN bindings' :
          /\ bindings'[k].binding.key = k /\ bindings'[k].revision \in 1..(next_revision + 1)
          /\ bindings'[k].since <= last_invalidation_sequence
    BY <1>2, <2>1
  <2>. QED
    BY <1>3, <1>4, <1>5, <2>2 DEF RegistryInv, RegistryTypes
<1>7. HeldIsCurrent'
  <2>1. ASSUME NEW k \in DOMAIN bindings', bindings'[k].active
        PROVE  CurrentSince(bindings'[k].binding, bindings'[k].since, last_invalidation_sequence)
    <3>1. CASE k = b.key
      <4>1. /\ bindings'[k].since = last_invalidation_sequence
            /\ last_invalidation_sequence \in Nat
        BY <1>2, <3>1 DEF RegistryInv, RegistryTypes
      <4>. QED
        BY <4>1 DEF CurrentSince
    <3>2. CASE k \in DOMAIN bindings
      BY <1>2, <2>1, <3>2 DEF RegistryInv, HeldIsCurrent
    <3>. QED
      BY <1>2, <3>1, <3>2
  <2>. QED
    BY <1>5, <2>1 DEF RegistryInv, HeldIsCurrent, CurrentAt, CurrentSince
<1>8. ReceivedIsCovered'
  BY DEF Install, RegistryInv, ReceivedIsCovered
<1>. QED
  BY <1>6, <1>7, <1>8 DEF RegistryInv

\* The bindings that an invalidation revokes.
Revoked(sequence) ==
  {k \in DOMAIN bindings :
     bindings[k].active /\ StaleUnder(bindings[k].binding, outbox[sequence])}

\* An event in order keeps every binding, marks those it makes stale inactive
\* under a revision that was never used, and keeps the others as they were.
LEMMA InOrderFacts ==
  ASSUME RegistryTypes, NEW sequence \in 1..Len(outbox), ApplyInOrder(sequence)
  PROVE  /\ DOMAIN bindings' = DOMAIN bindings
         /\ next_revision' \in Nat /\ next_revision' >= next_revision
         /\ bindings' \in [DOMAIN bindings' -> Registered]
         /\ \A k \in DOMAIN bindings :
              /\ bindings'[k].binding = bindings[k].binding
              /\ bindings'[k].since = bindings[k].since
              /\ bindings'[k].revision \in 1..next_revision'
              /\ bindings'[k].active =>
                   /\ bindings[k].active /\ bindings'[k].revision = bindings[k].revision
                   /\ ~StaleUnder(bindings[k].binding, outbox[sequence])
<1>. DEFINE fresh == Revisions(next_revision, Revoked(sequence))
<1>1. next_revision \in Nat /\ IsFiniteSet(DOMAIN bindings)
  BY DEF RegistryTypes
<1>2. IsFiniteSet(Revoked(sequence))
  <2>1. Revoked(sequence) \in SUBSET DOMAIN bindings
    BY DEF Revoked
  <2>. QED
    BY <1>1, <2>1, FS_Subset
<1>3. /\ Cardinality(Revoked(sequence)) \in Nat
      /\ fresh \in [Revoked(sequence) -> (next_revision + 1)..(next_revision + Cardinality(Revoked(sequence)))]
  BY <1>1, <1>2, RevisionsType
<1>. DEFINE n == Cardinality(Revoked(sequence))
<1>9. next_revision' = next_revision + n
  BY DEF ApplyInOrder, Revoked
<1>4. bindings' = [k \in DOMAIN bindings |->
                     IF k \in Revoked(sequence)
                       THEN [bindings[k] EXCEPT !.revision = fresh[k], !.active = FALSE]
                       ELSE bindings[k]]
  BY DEF ApplyInOrder, Revoked
<1>. HIDE DEF fresh, n
<1>5. /\ bindings \in [DOMAIN bindings -> Registered]
      /\ \A k \in DOMAIN bindings : bindings[k].revision \in 1..next_revision
  BY DEF RegistryTypes
<1>6. next_revision' \in Nat /\ next_revision' >= next_revision
  <2>1. n \in Nat
    BY <1>3 DEF n
  <2>. QED
    BY <1>1, <1>9, <2>1
<1>7. ASSUME NEW k \in DOMAIN bindings
      PROVE  /\ bindings'[k] \in Registered
             /\ bindings'[k].binding = bindings[k].binding
             /\ bindings'[k].since = bindings[k].since
             /\ bindings'[k].revision \in 1..next_revision'
             /\ bindings'[k].active =>
                  /\ bindings[k].active /\ bindings'[k].revision = bindings[k].revision
                  /\ ~StaleUnder(bindings[k].binding, outbox[sequence])
  <2>1. CASE k \in Revoked(sequence)
    <3>1. bindings'[k] = [bindings[k] EXCEPT !.revision = fresh[k], !.active = FALSE]
      BY <1>4, <2>1
    <3>2. fresh[k] \in (next_revision + 1)..next_revision'
      BY <1>3, <1>9, <2>1 DEF n
    <3>3. bindings[k] \in Registered
      BY <1>5
    <3>4. fresh[k] \in Nat /\ fresh[k] \in 1..next_revision'
      BY <1>1, <1>6, <3>2
    <3>. QED
      BY <3>1, <3>3, <3>4 DEF Registered
  <2>2. CASE k \notin Revoked(sequence)
    <3>1. bindings'[k] = bindings[k]
      BY <1>4, <2>2
    <3>2. bindings[k].active => ~StaleUnder(bindings[k].binding, outbox[sequence])
      BY <2>2 DEF Revoked
    <3>3. bindings[k].revision \in 1..next_revision'
      BY <1>1, <1>5, <1>6
    <3>. QED
      BY <1>5, <3>1, <3>2, <3>3
  <2>. QED
    BY <2>1, <2>2
<1>. QED
  BY <1>4, <1>6, <1>7

\* An invalidation in any order: applied, repeated or fenced.
LEMMA InvalidationKeepsRegistry ==
  ASSUME RegistryInv, NEW sequence \in 1..Len(outbox), ApplyInvalidation(sequence)
  PROVE  RegistryInv'
<1>. USE DEF RegistryInv
<1>1. /\ received' = received \cup {sequence}
      /\ UNCHANGED <<outbox, snapshots, installs>>
  BY DEF ApplyInvalidation, controller
<1>2. CASE sequence <= last_invalidation_sequence /\ UNCHANGED registry
  <2>1. RegistryTypes'
    BY <1>1, <1>2 DEF RegistryTypes, registry
  <2>2. HeldIsCurrent'
    BY <1>1, <1>2 DEF HeldIsCurrent, CurrentAt, CurrentSince, registry
  <2>3. ReceivedIsCovered'
    BY <1>1, <1>2 DEF ReceivedIsCovered, registry
  <2>. QED
    BY <2>1, <2>2, <2>3
<1>3. CASE ApplyInOrder(sequence)
  <2>1. /\ DOMAIN bindings' = DOMAIN bindings
        /\ next_revision' \in Nat
        /\ bindings' \in [DOMAIN bindings' -> Registered]
        /\ \A k \in DOMAIN bindings :
             /\ bindings'[k].binding = bindings[k].binding
             /\ bindings'[k].since = bindings[k].since
             /\ bindings'[k].revision \in 1..next_revision'
             /\ bindings'[k].active =>
                  /\ bindings[k].active
                  /\ ~StaleUnder(bindings[k].binding, outbox[sequence])
    BY <1>3, InOrderFacts
  <2>2. /\ sequence = last_invalidation_sequence + 1
        /\ last_invalidation_sequence' = sequence
        /\ UNCHANGED <<synchronized, required_snapshot_boundary>>
        /\ synchronized
    BY <1>3 DEF ApplyInOrder
  <2>3. RegistryTypes'
    <3>1. \A k \in DOMAIN bindings' :
            /\ bindings'[k].binding.key = k /\ bindings'[k].revision \in 1..next_revision'
            /\ bindings'[k].since <= last_invalidation_sequence'
      <4>. SUFFICES ASSUME NEW k \in DOMAIN bindings'
                    PROVE  /\ bindings'[k].binding.key = k
                           /\ bindings'[k].revision \in 1..next_revision'
                           /\ bindings'[k].since <= last_invalidation_sequence'
        OBVIOUS
      <4>1. k \in DOMAIN bindings
        BY <2>1
      <4>2. /\ bindings[k].binding.key = k
            /\ bindings[k].since <= last_invalidation_sequence
            /\ last_invalidation_sequence \in Nat
        BY <4>1 DEF RegistryTypes
      <4>3. bindings[k].since \in Nat
        BY <4>1 DEF RegistryTypes, Registered
      <4>4. /\ bindings'[k].binding = bindings[k].binding
            /\ bindings'[k].since = bindings[k].since
            /\ bindings'[k].revision \in 1..next_revision'
        BY <2>1, <4>1
      <4>. HIDE DEF RegistryInv
      <4>. QED
        BY <2>2, <4>2, <4>3, <4>4
    <3>2. IsFiniteSet(DOMAIN bindings')
      BY <2>1, Zenon DEF RegistryTypes
    <3>3. /\ last_invalidation_sequence' \in 0..Len(outbox)
          /\ received' \subseteq 1..Len(outbox)
      BY <1>1, <2>2 DEF RegistryTypes
    <3>. QED
      BY <1>1, <2>1, <2>2, <3>1, <3>2, <3>3 DEF RegistryTypes
  <2>4. HeldIsCurrent'
    <3>1. ASSUME NEW k \in DOMAIN bindings', bindings'[k].active
          PROVE  CurrentSince(bindings[k].binding, bindings[k].since,
                              last_invalidation_sequence)'
      <4>1. /\ CurrentSince(bindings[k].binding, bindings[k].since, last_invalidation_sequence)
            /\ ~StaleUnder(bindings[k].binding, outbox[sequence])
            /\ bindings'[k].binding = bindings[k].binding
            /\ bindings'[k].since = bindings[k].since
        BY <2>1, <3>1 DEF HeldIsCurrent
      <4>2. last_invalidation_sequence \in Nat /\ bindings[k].since \in Nat
        BY <2>1, <3>1 DEF RegistryTypes, Registered
      <4>. QED
        BY <1>1, <2>2, <4>1, <4>2 DEF CurrentSince
    <3>2. \A s \in snapshots' : \A b \in s.bindings : CurrentAt(b, s.boundary)'
      BY <1>1 DEF HeldIsCurrent, CurrentAt
    <3>. QED
      BY <3>1, <3>2 DEF HeldIsCurrent
  <2>5. ReceivedIsCovered'
    BY <1>1, <2>2 DEF ReceivedIsCovered, RegistryTypes
  <2>. QED
    BY <2>3, <2>4, <2>5
<1>4. CASE FenceGap(sequence)
  <2>1. /\ ~synchronized' /\ synchronized' \in BOOLEAN
        /\ UNCHANGED <<next_revision, last_invalidation_sequence, bindings>>
        /\ required_snapshot_boundary' \in 0..Len(outbox)
        /\ required_snapshot_boundary' >= sequence
        /\ required_snapshot_boundary' >= required_snapshot_boundary
    <3>1. /\ required_snapshot_boundary \in Nat /\ sequence \in Nat
          /\ required_snapshot_boundary \in 0..Len(outbox)
      BY DEF RegistryTypes
    <3>2. /\ synchronized' = FALSE
          /\ UNCHANGED <<next_revision, last_invalidation_sequence, bindings>>
      BY <1>4 DEF FenceGap
    <3>. DEFINE m == Max({required_snapshot_boundary, sequence})
    <3>3. /\ m = required_snapshot_boundary \/ m = sequence
          /\ m >= required_snapshot_boundary /\ m >= sequence
      <4>1. required_snapshot_boundary \in Int /\ sequence \in Int
        BY <3>1
      <4>2. m = IF required_snapshot_boundary >= sequence THEN required_snapshot_boundary ELSE sequence
        BY <4>1, MaxOfTwo, Zenon
      <4>. QED
        BY <3>1, <4>2
    <3>4. required_snapshot_boundary' = m
      BY <1>4 DEF FenceGap
    <3>. HIDE DEF m
    <3>5. /\ required_snapshot_boundary' \in 0..Len(outbox)
          /\ required_snapshot_boundary' >= sequence
          /\ required_snapshot_boundary' >= required_snapshot_boundary
      BY <3>1, <3>3, <3>4
    <3>. QED
      BY <3>2, <3>5, Zenon
  <2>2. RegistryTypes'
    BY <1>1, <2>1 DEF RegistryTypes
  <2>3. HeldIsCurrent'
    BY <1>1, <2>1 DEF HeldIsCurrent, CurrentAt, CurrentSince
  <2>4. ReceivedIsCovered'
    BY <1>1, <2>1 DEF ReceivedIsCovered, RegistryTypes
  <2>. QED
    BY <2>2, <2>3, <2>4
<1>. QED
  BY <1>2, <1>3, <1>4 DEF ApplyInvalidation

\* A snapshot replaces the table: one active binding per key of the snapshot,
\* each under a revision that was never used.
LEMMA SnapshotFacts ==
  ASSUME RegistryTypes, NEW s \in snapshots, InstallSnapshot(s)
  PROVE  /\ next_revision' \in Nat /\ next_revision' >= next_revision
         /\ IsFiniteSet(DOMAIN bindings')
         /\ bindings' \in [DOMAIN bindings' -> Registered]
         /\ \A k \in DOMAIN bindings' :
              /\ bindings'[k].binding \in s.bindings
              /\ bindings'[k].binding.key = k
              /\ bindings'[k].since = 0
              /\ bindings'[k].revision \in (next_revision + 1)..next_revision'
<1>. DEFINE K == {b.key : b \in s.bindings}
            n == Cardinality(s.bindings)
            m == Cardinality(K)
            fresh == Revisions(next_revision, K)
            held(k) == CHOOSE b \in s.bindings : b.key = k
<1>1. next_revision \in Nat /\ s.bindings \in Exact
  BY DEF RegistryTypes
<1>2. /\ IsFiniteSet(K) /\ m \in Nat /\ n \in Nat /\ m <= n
      /\ \A k \in K : held(k) \in s.bindings /\ held(k) \in Bindings /\ held(k).key = k
  BY <1>1, KeysOfExact, Zenon
<1>3. fresh \in [K -> (next_revision + 1)..(next_revision + m)]
  BY <1>1, <1>2, RevisionsType, Zenon
<1>4. next_revision' = next_revision + n
  BY DEF InstallSnapshot
<1>5. bindings' = [k \in K |-> [binding |-> held(k), revision |-> fresh[k], active |-> TRUE,
                              since |-> 0]]
  BY DEF InstallSnapshot, SnapshotRevisions
<1>. HIDE DEF K, n, m, fresh, held
<1>6. next_revision' \in Nat /\ next_revision' >= next_revision
  BY <1>1, <1>2, <1>4
<1>7. ASSUME NEW k \in K
      PROVE  fresh[k] \in (next_revision + 1)..next_revision' /\ fresh[k] \in Nat
  <2>1. fresh[k] \in (next_revision + 1)..(next_revision + m)
    BY <1>3
  <2>. QED
    BY <1>1, <1>2, <1>4, <2>1
<1>8. DOMAIN bindings' = K
  BY <1>5
<1>9. IsFiniteSet(DOMAIN bindings')
  BY <1>2, <1>8, Zenon
<1>10. ASSUME NEW k \in K
       PROVE  /\ bindings'[k].binding \in s.bindings
              /\ bindings'[k].binding.key = k
              /\ bindings'[k].since = 0
              /\ bindings'[k].revision \in (next_revision + 1)..next_revision'
              /\ bindings'[k] \in Registered
  BY <1>2, <1>5, <1>7 DEF Registered
<1>11. bindings' \in [DOMAIN bindings' -> Registered]
  BY <1>5, <1>8, <1>10
<1>. QED
  BY <1>6, <1>8, <1>9, <1>10, <1>11

\* A snapshot that is accepted covers everything that was received.
LEMMA SnapshotKeepsRegistry ==
  ASSUME RegistryInv, NEW s \in snapshots, InstallSnapshot(s)
  PROVE  RegistryInv'
<1>. USE DEF RegistryInv
<1>1. /\ next_revision' \in Nat
      /\ next_revision \in Nat
      /\ IsFiniteSet(DOMAIN bindings')
      /\ bindings' \in [DOMAIN bindings' -> Registered]
      /\ \A k \in DOMAIN bindings' :
           /\ bindings'[k].binding \in s.bindings
           /\ bindings'[k].binding.key = k
           /\ bindings'[k].since = 0
           /\ bindings'[k].revision \in (next_revision + 1)..next_revision'
  <2>1. RegistryTypes /\ next_revision \in Nat
    BY DEF RegistryTypes
  <2>. QED
    BY <2>1, SnapshotFacts
<1>2. /\ s.boundary \in 0..Len(outbox)
      /\ s.boundary >= last_invalidation_sequence
      /\ s.boundary >= required_snapshot_boundary
      /\ last_invalidation_sequence' = s.boundary
      /\ required_snapshot_boundary' = 0
      /\ installs' \in 0..MaxInstalls
      /\ UNCHANGED <<outbox, snapshots, received>>
  BY DEF InstallSnapshot, SnapshotAccepted, controller, RegistryTypes
<1>3. synchronized' = TRUE
  BY DEF InstallSnapshot
<1>4. RegistryTypes'
  <2>1. \A k \in DOMAIN bindings' :
          /\ bindings'[k].binding.key = k /\ bindings'[k].revision \in 1..next_revision'
          /\ bindings'[k].since <= last_invalidation_sequence'
    BY <1>1, <1>2
  <2>2. /\ last_invalidation_sequence' \in 0..Len(outbox)
        /\ required_snapshot_boundary' \in 0..Len(outbox)
    BY <1>2
  <2>3. synchronized' \in BOOLEAN
    BY <1>3
  <2>. QED
    BY <1>1, <1>2, <2>1, <2>2, <2>3 DEF RegistryTypes
<1>5. HeldIsCurrent'
  <2>1. \A k \in DOMAIN bindings' :
          CurrentAt(bindings'[k].binding, s.boundary) /\ bindings'[k].since = 0
    BY <1>1 DEF HeldIsCurrent
  <2>. QED
    BY <1>2, <2>1 DEF HeldIsCurrent, CurrentAt, CurrentSince
<1>6. ReceivedIsCovered'
  <2>1. \A i \in received : i <= s.boundary
    BY <1>2 DEF ReceivedIsCovered, RegistryTypes
  <2>. QED
    BY <1>2, <2>1 DEF ReceivedIsCovered
<1>. QED
  BY <1>4, <1>5, <1>6

\* Every step keeps the registry's invariant.
LEMMA RegistryStep ==
  ASSUME RegistryInv, [Next]_vars
  PROVE  RegistryInv'
<1>1. CASE RegistryNext
  BY <1>1, ControllerKeepsRegistry, InstallKeepsRegistry, InvalidationKeepsRegistry,
     SnapshotKeepsRegistry
  DEF RegistryNext
<1>2. CASE UNCHANGED <<controller, received, registry, installs>>
  <2>1. UNCHANGED <<outbox, snapshots, received, next_revision, last_invalidation_sequence,
                    required_snapshot_boundary, synchronized, bindings, installs>>
    BY <1>2 DEF controller, registry
  <2>2. RegistryTypes'
    BY <2>1 DEF RegistryInv, RegistryTypes
  <2>3. HeldIsCurrent'
    BY <2>1 DEF RegistryInv, HeldIsCurrent, CurrentAt, CurrentSince
  <2>4. ReceivedIsCovered'
    BY <2>1 DEF RegistryInv, ReceivedIsCovered
  <2>. QED
    BY <2>2, <2>3, <2>4 DEF RegistryInv
<1>3. CASE GateNext
  <2>1. UNCHANGED <<controller, received, registry, installs>>
    BY <1>3 DEF GateNext, Resolve, Admit, VerifierRejects, Rollback, Commit
  <2>. QED
    BY <1>2, <2>1
<1>4. CASE Elapse
  BY <1>2, <1>4 DEF Elapse
<1>5. CASE UNCHANGED vars
  BY <1>2, <1>5 DEF vars
<1>. QED
  BY <1>1, <1>3, <1>4, <1>5 DEF Next

(***************************************************************************)
(* The types of the gate.                                                  *)
(***************************************************************************)
\* Removing admissions keeps the table in its type and within its capacity.
LEMMA KeepAdmissions ==
  ASSUME AdmissionTypes, NEW S
  PROVE  LET live == Keep(admissions, S)
         IN  /\ live \in [DOMAIN live -> Admission]
             /\ DOMAIN live = DOMAIN admissions \cap S
             /\ DOMAIN live \subseteq Capabilities
             /\ IsFiniteSet(DOMAIN live)
             /\ Cardinality(DOMAIN live) <= MaxActive
<1>. DEFINE live == Keep(admissions, S)
<1>1. DOMAIN live = DOMAIN admissions \cap S
  BY DEF Keep
<1>2. live \in [DOMAIN live -> Admission]
  BY DEF Keep, AdmissionTypes
<1>3. DOMAIN live \in SUBSET DOMAIN admissions
  BY <1>1
<1>4. IsFiniteSet(DOMAIN live) /\ Cardinality(DOMAIN live) <= Cardinality(DOMAIN admissions)
  <2>. HIDE DEF live
  <2>. QED
    BY <1>3, FS_Subset DEF AdmissionTypes
<1>5. /\ Cardinality(DOMAIN live) \in Nat /\ Cardinality(DOMAIN admissions) \in Nat
      /\ Cardinality(DOMAIN admissions) <= MaxActive /\ MaxActive \in Nat
  <2>. HIDE DEF live
  <2>. QED
    BY <1>4, FS_CardinalityType DEF AdmissionTypes
<1>6. Cardinality(DOMAIN live) <= MaxActive
  <2>. HIDE DEF live
  <2>. QED
    BY <1>4, <1>5
<1>7. DOMAIN live \subseteq Capabilities
  BY <1>1 DEF AdmissionTypes
<1>. QED
  BY <1>1, <1>2, <1>4, <1>6, <1>7

\* Reserving in a table that has room keeps it within its capacity.
LEMMA ReserveType ==
  ASSUME NEW live, live \in [DOMAIN live -> Admission],
         DOMAIN live \subseteq Capabilities, IsFiniteSet(DOMAIN live),
         HasRoom(live), NEW c \in Capabilities, NEW v \in Admission
  PROVE  LET table == Put(live, c, v)
         IN  /\ table \in [DOMAIN table -> Admission]
             /\ DOMAIN table \subseteq Capabilities
             /\ IsFiniteSet(DOMAIN table)
             /\ Cardinality(DOMAIN table) <= MaxActive
<1>. DEFINE table == Put(live, c, v)
<1>1. DOMAIN table = DOMAIN live \cup {c}
  BY DEF Put
<1>2. table \in [DOMAIN table -> Admission]
  BY DEF Put
<1>3. /\ IsFiniteSet(DOMAIN live \cup {c})
      /\ Cardinality(DOMAIN live \cup {c}) =
           IF c \in DOMAIN live THEN Cardinality(DOMAIN live) ELSE Cardinality(DOMAIN live) + 1
      /\ Cardinality(DOMAIN live) \in Nat
  BY FS_AddElement, FS_CardinalityType
<1>4. Cardinality(DOMAIN live) < MaxActive /\ MaxActive \in Nat
  BY DEF HasRoom
<1>5. Cardinality(DOMAIN live \cup {c}) <= MaxActive
  BY <1>3, <1>4
<1>6. IsFiniteSet(DOMAIN table) /\ Cardinality(DOMAIN table) <= MaxActive
  BY <1>1, <1>3, <1>5, Zenon
<1>. QED
  BY <1>1, <1>2, <1>6

(***************************************************************************)
(* check_and_admit, case by case.                                          *)
(***************************************************************************)
\* The admissions that have not expired when a request is checked.
Live(r) ==
  Keep(admissions, {c \in Capabilities :
                      c \in DOMAIN admissions => admissions[c].expires > r.now})

\* A capability that no live admission holds is reserved,
Reserves(t) ==
  LET r == request[t]
  IN  /\ r.capability \notin DOMAIN Live(r) /\ HasRoom(Live(r))
      /\ admissions' = Put(Live(r), r.capability,
                           [fingerprint |-> Fingerprint(r), expires |-> r.capability.expires,
                            state |-> r.id])
      /\ request' = [request EXCEPT ![t] = [r EXCEPT !.pc = "check", !.pending = TRUE]]

\* one that its own connection holds is renewed,
Renews(t) ==
  LET r == request[t]
  IN  /\ r.capability \in DOMAIN Live(r) /\ Readmits(Live(r)[r.capability], r)
      /\ admissions' = Live(r)
      /\ request' = [request EXCEPT ![t] = [r EXCEPT !.pc = "check"]]

\* and anything else is refused.
Refuses(t) ==
  /\ admissions' = Live(request[t])
  /\ request' = [request EXCEPT ![t] = Idle]

\* A request that the replay guard sees takes one of the three ways.
LEMMA AdmitCases ==
  ASSUME RequestTypes, NEW t \in Threads, Admit(t)
  PROVE  /\ request[t] \in Request /\ request[t] # Idle /\ request[t].pc = "verify"
         /\ Reserves(t) \/ Renews(t) \/ Refuses(t)
         /\ UNCHANGED <<requests, leases, now>>
<1>. DEFINE r == request[t]
<1>1. r \in Request /\ r # Idle /\ r.pc = "verify"
  BY DEF Admit, RequestTypes
<1>2. UNCHANGED <<requests, leases, now>>
  BY DEF Admit
<1>3. /\ r.pc \in {"verify", "check"} /\ r.pending \in BOOLEAN
      /\ [request EXCEPT ![t].pc = "check", ![t].pending = TRUE]
           = [request EXCEPT ![t] = [r EXCEPT !.pc = "check", !.pending = TRUE]]
      /\ [request EXCEPT ![t].pc = "check"] = [request EXCEPT ![t] = [r EXCEPT !.pc = "check"]]
  BY <1>1 DEF RequestTypes, Request
<1>4. CASE r.capability \notin DOMAIN Live(r) /\ HasRoom(Live(r))
  <2>1. Reserves(t)
    BY <1>3, <1>4 DEF Admit, Reserves, Live
  <2>. QED
    BY <1>1, <1>2, <2>1
<1>5. CASE r.capability \in DOMAIN Live(r) /\ Readmits(Live(r)[r.capability], r)
  <2>1. Renews(t)
    BY <1>3, <1>5 DEF Admit, Renews, Live
  <2>. QED
    BY <1>1, <1>2, <2>1
<1>6. CASE /\ ~(r.capability \notin DOMAIN Live(r) /\ HasRoom(Live(r)))
           /\ ~(r.capability \in DOMAIN Live(r) /\ Readmits(Live(r)[r.capability], r))
  <2>1. Refuses(t)
    BY <1>6 DEF Admit, Refuses, Live
  <2>. QED
    BY <1>1, <1>2, <2>1
<1>. QED
  BY <1>4, <1>5, <1>6

\* What retaining the live admissions leaves.
LEMMA LiveFacts ==
  ASSUME AdmissionTypes, NEW r
  PROVE  /\ DOMAIN Live(r) = {c \in DOMAIN admissions : admissions[c].expires > r.now}
         /\ \A c \in DOMAIN Live(r) : Live(r)[c] = admissions[c]
         /\ Live(r) \in [DOMAIN Live(r) -> Admission]
         /\ DOMAIN Live(r) \subseteq Capabilities
         /\ IsFiniteSet(DOMAIN Live(r))
         /\ Cardinality(DOMAIN Live(r)) <= MaxActive
<1>1. /\ DOMAIN Live(r) = {c \in DOMAIN admissions : admissions[c].expires > r.now}
      /\ \A c \in DOMAIN Live(r) : Live(r)[c] = admissions[c]
  BY DEF Live, Keep, AdmissionTypes
<1>2. /\ Live(r) \in [DOMAIN Live(r) -> Admission]
      /\ DOMAIN Live(r) \subseteq Capabilities
      /\ IsFiniteSet(DOMAIN Live(r))
      /\ Cardinality(DOMAIN Live(r)) <= MaxActive
  BY KeepAdmissions, Zenon DEF Live
<1>. QED
  BY <1>1, <1>2

\* Giving one thread a request, or none, keeps the requests in their type.
LEMMA RequestBecomes ==
  ASSUME RequestTypes, NEW t \in Threads, NEW r,
         request' = [request EXCEPT ![t] = r],
         requests' \in 0..MaxRequests, requests' >= requests,
         r = Idle \/ (r \in Request /\ r.id \in 1..requests'),
         UNCHANGED <<leases, now>>
  PROVE  RequestTypes'
<1>1. /\ request' \in [Threads -> Request \cup {Idle}]
      /\ request'[t] = r
      /\ \A u \in Threads : u # t => request'[u] = request[u]
  BY DEF RequestTypes
<1>2. requests \in 0..MaxRequests
      /\ \A u \in Threads : request[u] # Idle => request[u].id \in 1..requests
  BY DEF RequestTypes
<1>3. \A u \in Threads : request'[u] # Idle => request'[u].id \in 1..requests'
  BY <1>1, <1>2
<1>. QED
  BY <1>1, <1>3 DEF RequestTypes

\* The admission step keeps the gate's types.
LEMMA AdmitType ==
  ASSUME GateTypes, NEW t \in Threads, Admit(t)
  PROVE  GateTypes'
<1>. DEFINE r == request[t]
<1>1. /\ r \in Request /\ r # Idle
      /\ Reserves(t) \/ Renews(t) \/ Refuses(t)
      /\ UNCHANGED <<requests, leases, now>>
  BY AdmitCases DEF GateTypes
<1>2. r.capability \in Capabilities /\ r.id \in 1..requests /\ requests \in 0..MaxRequests
  BY <1>1 DEF GateTypes, RequestTypes, Request
<1>3. /\ Live(r) \in [DOMAIN Live(r) -> Admission]
      /\ DOMAIN Live(r) \subseteq Capabilities
      /\ IsFiniteSet(DOMAIN Live(r))
      /\ Cardinality(DOMAIN Live(r)) <= MaxActive
  BY LiveFacts, Zenon DEF GateTypes
<1>4. AdmissionTypes'
  <2>1. CASE Reserves(t)
    <3>. DEFINE v == [fingerprint |-> Fingerprint(r), expires |-> r.capability.expires,
                      state |-> r.id]
    <3>1. v \in Admission
      <4>1. Fingerprint(r) \in [key : Keys, connection : Connections]
        BY <1>1 DEF Request, Fingerprint, Keys
      <4>2. r.capability.expires \in Nat /\ r.id \in 0..MaxRequests
        BY <1>2
      <4>. QED
        BY <4>1, <4>2 DEF Admission
    <3>2. admissions' = Put(Live(r), r.capability, v) /\ HasRoom(Live(r))
      BY <2>1 DEF Reserves
    <3>. HIDE DEF v, r
    <3>3. /\ Put(Live(r), r.capability, v) \in [DOMAIN Put(Live(r), r.capability, v) -> Admission]
          /\ DOMAIN Put(Live(r), r.capability, v) \subseteq Capabilities
          /\ IsFiniteSet(DOMAIN Put(Live(r), r.capability, v))
          /\ Cardinality(DOMAIN Put(Live(r), r.capability, v)) <= MaxActive
      BY <1>2, <1>3, <3>1, <3>2, ReserveType, Zenon
    <3>. QED
      BY <3>2, <3>3, Zenon DEF AdmissionTypes
  <2>2. CASE Renews(t) \/ Refuses(t)
    <3>1. admissions' = Live(r)
      BY <2>2 DEF Renews, Refuses
    <3>. QED
      BY <1>3, <3>1, Zenon DEF AdmissionTypes
  <2>. QED
    BY <1>1, <2>1, <2>2
<1>5. RequestTypes'
  <2>1. ASSUME NEW q, request' = [request EXCEPT ![t] = q],
               q = Idle \/ (q \in Request /\ q.id = r.id)
        PROVE  RequestTypes'
    <3>1. RequestTypes /\ requests' \in 0..MaxRequests /\ requests' >= requests
      BY <1>1, <1>2 DEF GateTypes
    <3>2. q = Idle \/ (q \in Request /\ q.id \in 1..requests')
      BY <1>1, <1>2, <2>1
    <3>. QED
      BY <1>1, <2>1, <3>1, <3>2, RequestBecomes
  <2>2. /\ [r EXCEPT !.pc = "check", !.pending = TRUE] \in Request
        /\ [r EXCEPT !.pc = "check", !.pending = TRUE].id = r.id
        /\ [r EXCEPT !.pc = "check"] \in Request
        /\ [r EXCEPT !.pc = "check"].id = r.id
    BY <1>1 DEF Request
  <2>. QED
    BY <1>1, <2>1, <2>2 DEF Reserves, Renews, Refuses
<1>. QED
  BY <1>4, <1>5 DEF GateTypes

\* A request commits or takes back a reservation only when it is its own.
Owns(r) ==
  /\ r.pending /\ r.capability \in DOMAIN admissions
  /\ admissions[r.capability].state = r.id

\* commit() changes the state of the request's own reservation, at most.
LEMMA CommitFacts ==
  ASSUME GateTypes, NEW t \in Threads, Commit(t)
  PROVE  LET r == request[t]
         IN  /\ r \in Request /\ r # Idle /\ r.pc = "check"
             /\ DOMAIN admissions' = DOMAIN admissions
             /\ admissions' \in [DOMAIN admissions -> Admission]
             /\ \A c \in DOMAIN admissions :
                  /\ admissions'[c].fingerprint = admissions[c].fingerprint
                  /\ admissions'[c].expires = admissions[c].expires
                  /\ admissions'[c].state =
                       IF Owns(r) /\ c = r.capability THEN Committed ELSE admissions[c].state
             /\ leases' = leases \cup {[binding |-> r.binding, revision |-> r.revision,
                                         capability |-> r.capability,
                                         connection |-> r.connection]}
             /\ request' = [request EXCEPT ![t] = Idle]
             /\ UNCHANGED <<requests, now>>
<1>. DEFINE r == request[t]
<1>1. r \in Request /\ r # Idle /\ r.pc = "check"
  BY DEF Commit, GateTypes, RequestTypes
<1>2. /\ admissions \in [DOMAIN admissions -> Admission]
      /\ MaxRequests \in Nat
  BY DEF GateTypes, AdmissionTypes
<1>3. admissions' = IF Owns(r) THEN [admissions EXCEPT ![r.capability].state = Committed]
                    ELSE admissions
  BY DEF Commit, Committing, Owns
<1>4. /\ leases' = leases \cup {[binding |-> r.binding, revision |-> r.revision,
                                   capability |-> r.capability, connection |-> r.connection]}
      /\ request' = [request EXCEPT ![t] = Idle]
      /\ UNCHANGED <<requests, now>>
  BY DEF Commit
<1>. HIDE DEF r
<1>5. /\ DOMAIN admissions' = DOMAIN admissions
      /\ admissions' \in [DOMAIN admissions -> Admission]
      /\ \A c \in DOMAIN admissions :
           /\ admissions'[c].fingerprint = admissions[c].fingerprint
           /\ admissions'[c].expires = admissions[c].expires
           /\ admissions'[c].state =
                IF Owns(r) /\ c = r.capability THEN Committed ELSE admissions[c].state
  <2>1. CASE Owns(r)
    BY <1>2, <1>3, <2>1 DEF Owns, Admission, Committed
  <2>2. CASE ~Owns(r)
    BY <1>2, <1>3, <2>2
  <2>. QED
    BY <2>1, <2>2
<1>. QED
  BY <1>1, <1>4, <1>5 DEF r

\* The dropped guard removes the request's own reservation, at most.
LEMMA RollbackFacts ==
  ASSUME GateTypes, NEW t \in Threads, Rollback(t)
  PROVE  LET r == request[t]
         IN  /\ r \in Request /\ r # Idle /\ r.pc = "check"
             /\ DOMAIN admissions' = {c \in DOMAIN admissions : ~(Owns(r) /\ c = r.capability)}
             /\ \A c \in DOMAIN admissions' : admissions'[c] = admissions[c]
             /\ AdmissionTypes'
             /\ request' = [request EXCEPT ![t] = Idle]
             /\ UNCHANGED <<requests, leases, now>>
<1>. DEFINE r == request[t]
            kept == Keep(admissions, Capabilities \ {r.capability})
<1>1. r \in Request /\ r # Idle /\ r.pc = "check"
  BY DEF Rollback, GateTypes, RequestTypes
<1>2. admissions' = IF Owns(r) THEN kept ELSE admissions
  BY DEF Rollback, Owns
<1>3. request' = [request EXCEPT ![t] = Idle] /\ UNCHANGED <<requests, leases, now>>
  BY DEF Rollback
<1>4. DOMAIN admissions \subseteq Capabilities
  BY DEF GateTypes, AdmissionTypes
<1>5. /\ kept \in [DOMAIN kept -> Admission]
      /\ DOMAIN kept \subseteq Capabilities
      /\ IsFiniteSet(DOMAIN kept)
      /\ Cardinality(DOMAIN kept) <= MaxActive
  BY KeepAdmissions, Zenon DEF GateTypes
<1>6. DOMAIN kept = DOMAIN admissions \ {r.capability}
      /\ \A c \in DOMAIN kept : kept[c] = admissions[c]
  BY <1>4 DEF Keep
<1>. HIDE DEF r, kept
<1>7. CASE Owns(r)
  <2>1. admissions' = kept
    BY <1>2, <1>7
  <2>2. AdmissionTypes'
    BY <1>5, <2>1, Zenon DEF AdmissionTypes
  <2>3. /\ DOMAIN admissions' = {c \in DOMAIN admissions : ~(Owns(r) /\ c = r.capability)}
        /\ \A c \in DOMAIN admissions' : admissions'[c] = admissions[c]
    BY <1>6, <1>7, <2>1
  <2>. QED
    BY <1>1, <1>3, <2>2, <2>3 DEF r
<1>8. CASE ~Owns(r)
  <2>1. admissions' = admissions
    BY <1>2, <1>8
  <2>2. AdmissionTypes'
    BY <2>1, Zenon DEF AdmissionTypes, GateTypes
  <2>3. DOMAIN admissions' = {c \in DOMAIN admissions : ~(Owns(r) /\ c = r.capability)}
    BY <1>8, <2>1
  <2>. QED
    BY <1>1, <1>3, <2>1, <2>2, <2>3 DEF r
<1>. QED
  BY <1>7, <1>8

\* Every step keeps the gate's variables in their types.
LEMMA GateTypesStep ==
  ASSUME RegistryTypes, GateTypes, [Next]_vars
  PROVE  GateTypes'
<1>. USE DEF GateTypes
<1>1. ASSUME NEW t \in Threads, NEW key \in Keys, NEW c \in Capabilities,
             NEW connection \in Connections, NEW proof \in BOOLEAN,
             Resolve(t, key, c, connection, proof)
      PROVE  GateTypes'
  <2>. DEFINE r == [pc |-> "verify", binding |-> bindings[key].binding,
                    revision |-> bindings[key].revision, capability |-> c,
                    connection |-> connection, proof |-> proof,
                    now |-> now, id |-> requests + 1, pending |-> FALSE]
  <2>1. /\ requests' = requests + 1 /\ requests < MaxRequests
        /\ request' = [request EXCEPT ![t] = r]
        /\ UNCHANGED <<admissions, leases, now>>
        /\ key \in DOMAIN bindings
    BY <1>1 DEF Resolve, Resolves
  <2>2. bindings[key].binding \in Bindings /\ bindings[key].revision \in Nat
    BY <2>1 DEF RegistryTypes, Registered
  <2>3. requests \in 0..MaxRequests /\ now \in Nat
    BY DEF RequestTypes
  <2>4. r \in Request /\ r.id = requests + 1
    BY <2>2, <2>3 DEF Request
  <2>5. requests' \in 0..MaxRequests /\ requests' >= requests /\ r.id \in 1..requests'
    BY <2>1, <2>3, <2>4
  <2>6. RequestTypes'
    <3>. HIDE DEF r
    <3>. QED
      BY <2>1, <2>4, <2>5, RequestBecomes
  <2>7. AdmissionTypes'
    BY <2>1, Zenon DEF AdmissionTypes
  <2>. QED
    BY <2>6, <2>7
<1>2. ASSUME NEW t \in Threads, VerifierRejects(t)
      PROVE  GateTypes'
  <2>1. /\ request' = [request EXCEPT ![t] = Idle]
        /\ UNCHANGED <<requests, admissions, leases, now>>
    BY <1>2 DEF VerifierRejects
  <2>2. requests' \in 0..MaxRequests /\ requests' >= requests
    BY <2>1 DEF RequestTypes
  <2>3. RequestTypes'
    BY <2>1, <2>2, RequestBecomes
  <2>4. AdmissionTypes'
    BY <2>1, Zenon DEF AdmissionTypes
  <2>. QED
    BY <2>3, <2>4
<1>3. ASSUME NEW t \in Threads, Rollback(t)
      PROVE  GateTypes'
  <2>1. /\ request' = [request EXCEPT ![t] = Idle]
        /\ UNCHANGED <<requests, leases, now>>
        /\ AdmissionTypes'
    BY <1>3, RollbackFacts
  <2>2. requests' \in 0..MaxRequests /\ requests' >= requests
    BY <2>1 DEF RequestTypes
  <2>3. RequestTypes'
    BY <2>1, <2>2, RequestBecomes
  <2>. QED
    BY <2>1, <2>3
<1>4. ASSUME NEW t \in Threads, Commit(t)
      PROVE  GateTypes'
  <2>. DEFINE r == request[t]
  <2>1. /\ r \in Request /\ DOMAIN admissions' = DOMAIN admissions
        /\ admissions' \in [DOMAIN admissions -> Admission]
        /\ request' = [request EXCEPT ![t] = Idle]
        /\ leases' = leases \cup {[binding |-> r.binding, revision |-> r.revision,
                                    capability |-> r.capability, connection |-> r.connection]}
        /\ UNCHANGED <<requests, now>>
    BY <1>4, CommitFacts
  <2>2. AdmissionTypes'
    BY <2>1, Zenon DEF AdmissionTypes
  <2>3. leases' \subseteq [binding : Bindings, revision : Nat,
                           capability : Capabilities, connection : Connections]
    BY <2>1 DEF RequestTypes, Request
  <2>4. /\ request' \in [Threads -> Request \cup {Idle}]
        /\ \A u \in Threads : request'[u] # Idle => request'[u].id \in 1..requests'
    BY <2>1 DEF RequestTypes
  <2>. QED
    BY <2>1, <2>2, <2>3, <2>4 DEF RequestTypes
<1>5. CASE GateNext
  BY <1>1, <1>2, <1>3, <1>4, <1>5, AdmitType DEF GateNext
<1>6. CASE UNCHANGED <<admissions, requests, request, leases>> /\ now' \in 0..MaxTime
  <2>1. AdmissionTypes'
    BY <1>6, Zenon DEF AdmissionTypes
  <2>2. RequestTypes'
    BY <1>6 DEF RequestTypes
  <2>. QED
    BY <2>1, <2>2
<1>7. CASE UNCHANGED <<gate, now>>
  BY <1>6, <1>7 DEF gate, RequestTypes
<1>8. CASE RegistryNext
  BY <1>7, <1>8
  DEF RegistryNext, PublishInvalidation, TakeSnapshot, Install, ApplyInvalidation, InstallSnapshot
<1>9. CASE Elapse
  BY <1>6, <1>9 DEF Elapse, gate, RequestTypes
<1>10. CASE UNCHANGED vars
  BY <1>7, <1>10 DEF vars
<1>. QED
  BY <1>5, <1>8, <1>9, <1>10 DEF Next

(***************************************************************************)
(* Revisions identify what was seen.                                       *)
(***************************************************************************)
\* The registry never lowers its revision, and an active binding it holds
\* after a step under a revision that was already used is one it held before,
\* under the same revision, while it was synchronized after the step.
LEMMA RevisionsAreFresh ==
  ASSUME RegistryTypes, RegistryNext
  PROVE  /\ next_revision \in Nat /\ next_revision' \in Nat
         /\ next_revision' >= next_revision
         /\ \A k \in DOMAIN bindings' :
              bindings'[k].active /\ bindings'[k].revision <= next_revision =>
                /\ k \in DOMAIN bindings /\ bindings[k].active
                /\ bindings'[k].revision = bindings[k].revision
                /\ bindings'[k].binding = bindings[k].binding
                /\ synchronized' => synchronized
<1>1. next_revision \in Nat
  BY DEF RegistryTypes
<1>2. CASE UNCHANGED <<next_revision, bindings, synchronized>>
  BY <1>1, <1>2
<1>3. ASSUME NEW e \in Events, PublishInvalidation(e)
      PROVE  UNCHANGED <<next_revision, bindings, synchronized>>
  BY <1>3 DEF PublishInvalidation, registry
<1>4. ASSUME NEW S \in Exact, TakeSnapshot(S)
      PROVE  UNCHANGED <<next_revision, bindings, synchronized>>
  BY <1>4 DEF TakeSnapshot, registry
<1>5. ASSUME NEW b \in Bindings, Install(b)
      PROVE  /\ next_revision' = next_revision + 1
             /\ DOMAIN bindings' = DOMAIN bindings \cup {b.key}
             /\ bindings'[b.key].revision = next_revision + 1
             /\ \A k \in DOMAIN bindings : bindings'[k] = bindings[k]
             /\ synchronized
  BY <1>5 DEF Install, Put
<1>6. ASSUME NEW sequence \in 1..Len(outbox), ApplyInOrder(sequence)
      PROVE  /\ DOMAIN bindings' = DOMAIN bindings
             /\ next_revision' \in Nat /\ next_revision' >= next_revision
             /\ \A k \in DOMAIN bindings :
                  /\ bindings'[k].binding = bindings[k].binding
                  /\ bindings'[k].active =>
                       bindings[k].active /\ bindings'[k].revision = bindings[k].revision
             /\ synchronized
  <2>1. synchronized
    BY <1>6 DEF ApplyInOrder
  <2>. QED
    BY <1>6, <2>1, InOrderFacts
<1>7. ASSUME NEW sequence \in 1..Len(outbox), FenceGap(sequence)
      PROVE  UNCHANGED <<next_revision, bindings>> /\ ~synchronized'
  BY <1>7 DEF FenceGap
<1>8. ASSUME NEW s \in snapshots, InstallSnapshot(s)
      PROVE  /\ next_revision' \in Nat /\ next_revision' >= next_revision
             /\ \A k \in DOMAIN bindings' : bindings'[k].revision > next_revision
  <2>1. /\ next_revision' \in Nat /\ next_revision' >= next_revision
        /\ \A k \in DOMAIN bindings' :
             bindings'[k].revision \in (next_revision + 1)..next_revision'
    BY <1>8, SnapshotFacts
  <2>. QED
    BY <1>1, <2>1
<1>9. CASE \E b \in Bindings : Install(b)
  <2>1. PICK b \in Bindings : Install(b)
    BY <1>9
  <2>2. /\ next_revision' = next_revision + 1
        /\ DOMAIN bindings' = DOMAIN bindings \cup {b.key}
        /\ bindings'[b.key].revision = next_revision + 1
        /\ \A k \in DOMAIN bindings : bindings'[k] = bindings[k]
        /\ synchronized
    BY <1>5, <2>1
  <2>. QED
    BY <1>1, <2>2
<1>10. CASE \E sequence \in 1..Len(outbox) : ApplyInOrder(sequence)
  BY <1>1, <1>6, <1>10
<1>11. CASE \E sequence \in 1..Len(outbox) : FenceGap(sequence)
  BY <1>1, <1>7, <1>11
<1>12. CASE \E s \in snapshots : InstallSnapshot(s)
  <2>1. PICK s \in snapshots : InstallSnapshot(s)
    BY <1>12
  <2>2. /\ next_revision' \in Nat /\ next_revision' >= next_revision
        /\ \A k \in DOMAIN bindings' : bindings'[k].revision > next_revision
    BY <1>8, <2>1
  <2>3. \A k \in DOMAIN bindings' : bindings'[k].revision \in Nat
    <3>1. bindings' \in [DOMAIN bindings' -> Registered]
      BY <2>1, SnapshotFacts
    <3>. QED
      BY <3>1 DEF Registered
  <2>. QED
    BY <1>1, <2>2, <2>3
<1>13. CASE \E sequence \in 1..Len(outbox) : ApplyInvalidation(sequence)
  <2>1. PICK sequence \in 1..Len(outbox) : ApplyInvalidation(sequence)
    BY <1>13
  <2>2. CASE UNCHANGED registry
    BY <1>2, <2>2 DEF registry
  <2>. QED
    BY <1>10, <1>11, <2>1, <2>2 DEF ApplyInvalidation
<1>. QED
  BY <1>2, <1>3, <1>4, <1>9, <1>12, <1>13 DEF RegistryNext

\* What was seen under a revision keeps the identity of that revision.
LEMMA SeenStaysSeen ==
  ASSUME RegistryTypes, RegistryNext, NEW b \in Bindings, NEW revision \in Nat,
         SeenUnder(b, revision)
  PROVE  SeenUnder(b, revision)'
<1>1. /\ next_revision \in Nat /\ next_revision' \in Nat
      /\ next_revision' >= next_revision
      /\ \A k \in DOMAIN bindings' :
           bindings'[k].active /\ bindings'[k].revision <= next_revision =>
             /\ k \in DOMAIN bindings /\ bindings[k].active
             /\ bindings'[k].revision = bindings[k].revision
             /\ bindings'[k].binding = bindings[k].binding
  BY RevisionsAreFresh
<1>2. revision <= next_revision /\ revision <= next_revision'
  BY <1>1 DEF SeenUnder
<1>3. ASSUME b.key \in DOMAIN bindings', bindings'[b.key].active,
             bindings'[b.key].revision = revision
      PROVE  bindings'[b.key].binding = b
  <2>1. /\ b.key \in DOMAIN bindings /\ bindings[b.key].active
        /\ bindings[b.key].revision = revision
        /\ bindings'[b.key].binding = bindings[b.key].binding
    BY <1>1, <1>2, <1>3
  <2>. QED
    BY <2>1 DEF SeenUnder
<1>. QED
  BY <1>2, <1>3 DEF SeenUnder

\* Every step keeps the revisions of leases and requests meaningful.
LEMMA RevisionsStep ==
  ASSUME RegistryTypes, GateTypes, RevisionsIdentify, [Next]_vars
  PROVE  RevisionsIdentify'
<1>. USE DEF GateTypes, RequestTypes
<1>1. CASE RegistryNext
  <2>1. UNCHANGED <<leases, request>>
    BY <1>1
    DEF RegistryNext, PublishInvalidation, TakeSnapshot, Install, ApplyInvalidation,
        InstallSnapshot, gate
  <2>2. \A l \in leases : SeenUnder(l.binding, l.revision)'
    <3>1. \A l \in leases : /\ l.binding \in Bindings /\ l.revision \in Nat
                            /\ SeenUnder(l.binding, l.revision)
      BY DEF RevisionsIdentify
    <3>. QED
      BY <1>1, <3>1, SeenStaysSeen
  <2>3. \A t \in Threads : request[t] # Idle =>
          /\ request[t].binding \in Bindings /\ request[t].revision \in Nat
          /\ SeenUnder(request[t].binding, request[t].revision)
    BY DEF RevisionsIdentify, Request
  <2>4. ASSUME NEW t \in Threads, request'[t] # Idle
        PROVE  SeenUnder(request[t].binding, request[t].revision)'
    <3>. DEFINE b == request[t].binding
                n == request[t].revision
    <3>1. b \in Bindings /\ n \in Nat /\ SeenUnder(b, n) /\ request'[t] = request[t]
      BY <2>1, <2>3, <2>4
    <3>2. \A x \in Bindings, y \in Nat : SeenUnder(x, y) => SeenUnder(x, y)'
      BY <1>1, SeenStaysSeen
    <3>. QED
      BY <3>1, <3>2 DEF SeenUnder
  <2>. QED
    BY <2>1, <2>2, <2>4 DEF RevisionsIdentify
<1>2. ASSUME UNCHANGED <<bindings, next_revision>>
      PROVE  \A b, n : SeenUnder(b, n) => SeenUnder(b, n)'
  BY <1>2 DEF SeenUnder
<1>3. ASSUME NEW t \in Threads, NEW key \in Keys, NEW c \in Capabilities,
             NEW connection \in Connections, NEW proof \in BOOLEAN,
             Resolve(t, key, c, connection, proof)
      PROVE  RevisionsIdentify'
  <2>1. /\ key \in DOMAIN bindings
        /\ request'[t].binding = bindings[key].binding
        /\ request'[t].revision = bindings[key].revision
        /\ \A u \in Threads : u # t => request'[u] = request[u]
        /\ UNCHANGED <<leases, bindings, next_revision>>
    BY <1>3 DEF Resolve, Resolves, registry
  <2>2. SeenUnder(bindings[key].binding, bindings[key].revision)
    BY <2>1 DEF SeenUnder, RegistryTypes
  <2>. QED
    BY <2>1, <2>2 DEF RevisionsIdentify, SeenUnder
<1>4. ASSUME NEW t \in Threads, Admit(t)
      PROVE  RevisionsIdentify'
  <2>1. /\ request[t] \in Request /\ request[t] # Idle
        /\ Reserves(t) \/ Renews(t) \/ Refuses(t)
        /\ UNCHANGED leases
    BY <1>4, AdmitCases
  <2>2. UNCHANGED <<bindings, next_revision>>
    BY <1>4 DEF Admit, registry
  <2>3. /\ \A u \in Threads : u # t => request'[u] = request[u]
        /\ request'[t] # Idle => /\ request'[t].binding = request[t].binding
                                 /\ request'[t].revision = request[t].revision
    <3>1. PICK q : /\ request' = [request EXCEPT ![t] = q]
                   /\ \/ q = Idle
                      \/ q = [request[t] EXCEPT !.pc = "check", !.pending = TRUE]
                      \/ q = [request[t] EXCEPT !.pc = "check"]
      BY <2>1 DEF Reserves, Renews, Refuses
    <3>2. request'[t] = q /\ \A u \in Threads : u # t => request'[u] = request[u]
      BY <3>1
    <3>. QED
      BY <2>1, <3>1, <3>2 DEF Request
  <2>. QED
    BY <2>1, <2>2, <2>3 DEF RevisionsIdentify, SeenUnder
<1>5. ASSUME NEW t \in Threads, VerifierRejects(t) \/ Rollback(t)
      PROVE  RevisionsIdentify'
  <2>1. /\ request' = [request EXCEPT ![t] = Idle]
        /\ UNCHANGED <<leases, bindings, next_revision>>
    BY <1>5 DEF VerifierRejects, Rollback, registry
  <2>. QED
    BY <2>1 DEF RevisionsIdentify, SeenUnder
<1>6. ASSUME NEW t \in Threads, Commit(t)
      PROVE  RevisionsIdentify'
  <2>1. /\ request[t] \in Request /\ request[t] # Idle
        /\ request' = [request EXCEPT ![t] = Idle]
        /\ leases' = leases \cup {[binding |-> request[t].binding,
                                    revision |-> request[t].revision,
                                    capability |-> request[t].capability,
                                    connection |-> request[t].connection]}
    BY <1>6, CommitFacts
  <2>2. UNCHANGED <<bindings, next_revision>>
    BY <1>6 DEF Commit, registry
  <2>3. SeenUnder(request[t].binding, request[t].revision)
    BY <2>1 DEF RevisionsIdentify
  <2>4. \A l \in leases' : SeenUnder(l.binding, l.revision)
    BY <2>1, <2>3 DEF RevisionsIdentify
  <2>5. \A u \in Threads : request'[u] # Idle =>
          SeenUnder(request'[u].binding, request'[u].revision)
    BY <2>1 DEF RevisionsIdentify
  <2>. QED
    BY <2>2, <2>4, <2>5 DEF RevisionsIdentify, SeenUnder
<1>7. CASE UNCHANGED <<bindings, next_revision, leases, request>>
  BY <1>7 DEF RevisionsIdentify, SeenUnder
<1>8. CASE Elapse
  BY <1>7, <1>8 DEF Elapse, registry, gate
<1>9. CASE UNCHANGED vars
  BY <1>7, <1>9 DEF vars, registry, gate
<1>10. CASE GateNext
  BY <1>3, <1>4, <1>5, <1>6, <1>10 DEF GateNext
<1>. QED
  BY <1>1, <1>8, <1>9, <1>10 DEF Next

(***************************************************************************)
(* Admissions belong to those who hold them.                               *)
(***************************************************************************)
\* A step of one thread leaves the requests of the others alone.
LEMMA OthersUnchanged ==
  ASSUME RequestTypes, NEW t \in Threads, NEW q, request' = [request EXCEPT ![t] = q]
  PROVE  request'[t] = q /\ \A u \in Threads : u # t => request'[u] = request[u]
  BY DEF RequestTypes

\* A request under way has the fields of a request.
LEMMA RequestFields ==
  ASSUME RequestTypes, NEW t \in Threads, request[t] # Idle
  PROVE  /\ request[t] \in Request
         /\ request[t].id \in 1..requests /\ request[t].id \in Nat /\ request[t].id # Committed
         /\ request[t].pending \in BOOLEAN /\ request[t].pc \in {"verify", "check"}
         /\ request[t].now \in Nat
         /\ request[t].capability \in Capabilities /\ request[t].capability.expires \in Nat
  BY DEF RequestTypes, Request, Committed

\* A new request reserves nothing yet and takes an id that none has.
LEMMA ResolveKeepsAdmissions ==
  ASSUME GateTypes, AdmissionInv, NEW t \in Threads, NEW key, NEW c, NEW connection,
         NEW proof, Resolve(t, key, c, connection, proof)
  PROVE  AdmissionInv'
<1>. USE DEF AdmissionInv, GateTypes
<1>1. /\ request[t] = Idle /\ requests' = requests + 1
      /\ UNCHANGED <<admissions, leases, now>>
  BY DEF Resolve
<1>2. /\ request'[t].pc = "verify" /\ request'[t].pending = FALSE
      /\ request'[t].now = now /\ request'[t].id = requests + 1
      /\ \A u \in Threads : u # t => request'[u] = request[u]
  BY DEF Resolve, RequestTypes
<1>3. RequestsOK'
  <2>1. \A u \in Threads : u # t /\ request[u] # Idle =>
          request[u].id \in 1..requests /\ requests \in Nat
    BY DEF RequestTypes
  <2>2. ASSUME NEW u \in Threads, request'[u] # Idle
        PROVE  /\ request'[u].now <= now'
               /\ request'[u].pc = "verify" => ~request'[u].pending
               /\ EntryHeld(request[u])'
    <3>1. CASE u = t
      BY <1>1, <1>2, <3>1 DEF EntryHeld, RequestTypes
    <3>2. CASE u # t
      BY <1>1, <1>2, <2>2, <3>2 DEF EntryHeld, RequestsOK, Fingerprint
    <3>. QED
      BY <3>1, <3>2
  <2>3. ASSUME NEW u \in Threads, NEW v \in Threads, u # v,
               request'[u] # Idle, request'[v] # Idle
        PROVE  request'[u].id # request'[v].id
    BY <1>2, <2>1, <2>3 DEF RequestsOK
  <2>. QED
    BY <2>2, <2>3 DEF RequestsOK
<1>4. ExpiryOK' /\ LeaseHoldsAdmission'
  BY <1>1 DEF ExpiryOK, LeaseHoldsAdmission
<1>5. PendingIsOwned'
  BY <1>1, <1>2 DEF PendingIsOwned
<1>. QED
  BY <1>3, <1>4, <1>5

\* A request that the verifier rejects holds no reservation.
LEMMA RejectKeepsAdmissions ==
  ASSUME GateTypes, AdmissionInv, NEW t \in Threads, VerifierRejects(t)
  PROVE  AdmissionInv'
<1>. USE DEF AdmissionInv, GateTypes
<1>1. /\ request' = [request EXCEPT ![t] = Idle]
      /\ request[t] # Idle /\ request[t].pc = "verify"
      /\ UNCHANGED <<admissions, leases, now>>
  BY DEF VerifierRejects
<1>2. request'[t] = Idle /\ \A u \in Threads : u # t => request'[u] = request[u]
  BY <1>1, OthersUnchanged
<1>3. ~request[t].pending
  BY <1>1 DEF RequestsOK
<1>4. RequestsOK'
  BY <1>1, <1>2 DEF RequestsOK, EntryHeld, Fingerprint
<1>5. ExpiryOK' /\ LeaseHoldsAdmission'
  BY <1>1 DEF ExpiryOK, LeaseHoldsAdmission
<1>6. PendingIsOwned'
  BY <1>1, <1>2, <1>3 DEF PendingIsOwned
<1>. QED
  BY <1>4, <1>5, <1>6

\* The admission step drops expired entries only, and adds none but the
\* request's own.
LEMMA AdmitKeepsEntries ==
  ASSUME GateTypes, AdmissionInv, NEW t \in Threads, Admit(t)
  PROVE  LET r == request[t]
         IN  /\ \A c \in DOMAIN admissions : now < c.expires =>
                  c \in DOMAIN admissions' /\ admissions'[c] = admissions[c]
             /\ \A c \in DOMAIN admissions' :
                  \/ c \in DOMAIN admissions /\ admissions'[c] = admissions[c]
                  \/ /\ Reserves(t) /\ c = r.capability
                     /\ admissions'[c] = [fingerprint |-> Fingerprint(r),
                                           expires |-> r.capability.expires, state |-> r.id]
             /\ Reserves(t) =>
                  /\ r.capability \in DOMAIN admissions'
                  /\ admissions'[r.capability] =
                       [fingerprint |-> Fingerprint(r),
                        expires |-> r.capability.expires, state |-> r.id]
<1>. USE DEF AdmissionInv, GateTypes
<1>. DEFINE r == request[t]
            v == [fingerprint |-> Fingerprint(r), expires |-> r.capability.expires, state |-> r.id]
<1>1. r # Idle /\ (Reserves(t) \/ Renews(t) \/ Refuses(t))
  BY AdmitCases
<1>2. r.now <= now /\ r.now \in Nat /\ now \in Nat
  <2>1. r.now <= now
    BY <1>1 DEF RequestsOK
  <2>2. r.now \in Nat
    BY <1>1, RequestFields
  <2>3. now \in Nat
    BY DEF RequestTypes
  <2>. QED
    BY <2>1, <2>2, <2>3
<1>3. /\ DOMAIN Live(r) = {c \in DOMAIN admissions : admissions[c].expires > r.now}
      /\ \A c \in DOMAIN Live(r) : Live(r)[c] = admissions[c]
  BY LiveFacts
<1>4. \A c \in DOMAIN admissions : now < c.expires => c \in DOMAIN Live(r)
  <2>1. \A c \in DOMAIN admissions : admissions[c].expires = c.expires /\ c.expires \in Nat
    BY DEF ExpiryOK, AdmissionTypes
  <2>. QED
    BY <1>2, <1>3, <2>1
<1>5. CASE Reserves(t)
  <2>1. /\ r.capability \notin DOMAIN Live(r)
        /\ admissions' = Put(Live(r), r.capability, v)
    BY <1>5 DEF Reserves
  <2>. HIDE DEF r, v
  <2>2. /\ DOMAIN admissions' = DOMAIN Live(r) \cup {r.capability}
        /\ admissions'[r.capability] = v
        /\ \A c \in DOMAIN Live(r) : admissions'[c] = Live(r)[c]
    BY <2>1 DEF Put
  <2>. QED
    BY <1>3, <1>4, <1>5, <2>2 DEF r, v
<1>6. CASE (Renews(t) \/ Refuses(t)) /\ ~Reserves(t)
  <2>1. admissions' = Live(r)
    BY <1>6 DEF Renews, Refuses
  <2>. QED
    BY <1>3, <1>4, <1>6, <2>1
<1>. QED
  BY <1>1, <1>5, <1>6

\* The admission step.
LEMMA AdmitKeepsAdmissions ==
  ASSUME GateTypes, AdmissionInv, NEW t \in Threads, Admit(t)
  PROVE  AdmissionInv'
<1>. USE DEF AdmissionInv, GateTypes
<1>. DEFINE r == request[t]
            v == [fingerprint |-> Fingerprint(r), expires |-> r.capability.expires, state |-> r.id]
<1>1. /\ r \in Request /\ r # Idle /\ r.pc = "verify"
      /\ Reserves(t) \/ Renews(t) \/ Refuses(t)
      /\ UNCHANGED <<leases, now>>
  BY AdmitCases
<1>2. /\ \A c \in DOMAIN admissions : now < c.expires =>
           c \in DOMAIN admissions' /\ admissions'[c] = admissions[c]
      /\ \A c \in DOMAIN admissions' :
           \/ c \in DOMAIN admissions /\ admissions'[c] = admissions[c]
           \/ Reserves(t) /\ c = r.capability /\ admissions'[c] = v
      /\ Reserves(t) => r.capability \in DOMAIN admissions' /\ admissions'[r.capability] = v
  BY AdmitKeepsEntries, Zenon
<1>3. ~r.pending /\ r.now <= now /\ r.pending = FALSE
  BY <1>1, RequestFields DEF RequestsOK
<1>4. /\ \A u \in Threads : u # t => request'[u] = request[u]
      /\ Reserves(t) => request'[t] = [r EXCEPT !.pc = "check", !.pending = TRUE]
      /\ Renews(t) => request'[t] = [r EXCEPT !.pc = "check"]
      /\ Refuses(t) => request'[t] = Idle
  <2>1. ASSUME NEW q, request' = [request EXCEPT ![t] = q]
        PROVE  request'[t] = q /\ \A u \in Threads : u # t => request'[u] = request[u]
    BY <2>1, OthersUnchanged
  <2>5. Reserves(t) => request'[t] = [r EXCEPT !.pc = "check", !.pending = TRUE]
    BY <2>1 DEF Reserves
  <2>6. Renews(t) => request'[t] = [r EXCEPT !.pc = "check"]
    BY <2>1 DEF Renews
  <2>7. Refuses(t) => request'[t] = Idle
    BY <2>1 DEF Refuses
  <2>8. \A u \in Threads : u # t => request'[u] = request[u]
    BY <1>1, <2>1 DEF Reserves, Renews, Refuses
  <2>. QED
    BY <2>5, <2>6, <2>7, <2>8
<1>5. ExpiryOK'
  BY <1>2 DEF ExpiryOK
<1>6. LeaseHoldsAdmission'
  BY <1>1, <1>2 DEF LeaseHoldsAdmission
<1>7. Reserves(t) => request'[t].pending = TRUE
  <2>1. [r EXCEPT !.pc = "check", !.pending = TRUE].pending = TRUE
    BY <1>1 DEF Request
  <2>. QED
    BY <1>4, <2>1
<1>10. Renews(t) => request'[t].pending = FALSE
  <2>1. [r EXCEPT !.pc = "check"].pending = FALSE
    BY <1>1, <1>3 DEF Request
  <2>. QED
    BY <1>4, <2>1
<1>11. ASSUME request'[t] # Idle
       PROVE  /\ request'[t].id = r.id /\ request'[t].now = r.now
              /\ request'[t].pc = "check"
              /\ request'[t].capability = r.capability
              /\ Fingerprint(request'[t]) = Fingerprint(r)
  <2>1. ASSUME NEW q, q = [r EXCEPT !.pc = "check", !.pending = TRUE]
                      \/ q = [r EXCEPT !.pc = "check"]
        PROVE  /\ q.id = r.id /\ q.now = r.now /\ q.pc = "check"
               /\ q.capability = r.capability /\ Fingerprint(q) = Fingerprint(r)
    BY <1>1, <2>1 DEF Request, Fingerprint
  <2>2. request'[t] = [r EXCEPT !.pc = "check", !.pending = TRUE]
          \/ request'[t] = [r EXCEPT !.pc = "check"]
    BY <1>1, <1>4, <1>11
  <2>. QED
    BY <2>1, <2>2
<1>8. PendingIsOwned'
  <2>1. ASSUME NEW c \in DOMAIN admissions', admissions'[c].state # Committed
        PROVE  \E u \in Threads :
                 /\ request'[u] # Idle
                 /\ request'[u].capability = c /\ request'[u].pending
                 /\ request'[u].id = admissions'[c].state
    <3>1. CASE c \in DOMAIN admissions /\ admissions'[c] = admissions[c]
      <4>1. PICK u \in Threads : /\ request[u] # Idle
                                 /\ request[u].capability = c /\ request[u].pending
                                 /\ request[u].id = admissions[c].state
        BY <2>1, <3>1 DEF PendingIsOwned
      <4>2. u # t
        BY <1>3, <4>1
      <4>. QED
        BY <1>4, <3>1, <4>1, <4>2
    <3>2. CASE Reserves(t) /\ c = r.capability /\ admissions'[c] = v
      <4>1. request'[t] # Idle
        <5>1. request'[t] = [r EXCEPT !.pc = "check", !.pending = TRUE]
          BY <1>4, <3>2
        <5>2. request'[t] \in Request
          BY <1>1, <5>1 DEF Request
        <5>. QED
          BY <5>2, IdleAssumption
      <4>2. /\ request'[t].capability = c /\ request'[t].pending
            /\ request'[t].id = r.id
        BY <1>7, <1>11, <3>2, <4>1
      <4>3. admissions'[c].state = r.id
        BY <3>2
      <4>. QED
        BY <4>1, <4>2, <4>3
    <3>. QED
      BY <1>2, <3>1, <3>2
  <2>. QED
    BY <2>1 DEF PendingIsOwned
<1>9. RequestsOK'
  <2>1. ASSUME NEW u \in Threads, u # t, request'[u] # Idle
        PROVE  /\ request'[u].now <= now'
               /\ request'[u].pc = "verify" => ~request'[u].pending
               /\ EntryHeld(request[u])'
    <3>1. request'[u] = request[u] /\ now' = now
      BY <1>1, <1>4, <2>1
    <3>. QED
      BY <1>2, <2>1, <3>1 DEF RequestsOK, EntryHeld, Fingerprint
  <2>2. ASSUME request'[t] # Idle
        PROVE  /\ request'[t].now <= now'
               /\ request'[t].pc = "verify" => ~request'[t].pending
               /\ EntryHeld(request[t])'
    <3>1. /\ request'[t].id = r.id /\ request'[t].now = r.now
          /\ request'[t].pc = "check"
          /\ request'[t].capability = r.capability
          /\ Fingerprint(request'[t]) = Fingerprint(r)
      BY <1>11, <2>2
    <3>2. /\ request'[t].now <= now'
          /\ request'[t].pc = "verify" => ~request'[t].pending
      BY <1>1, <1>3, <3>1
    <3>3. CASE Reserves(t)
      <4>1. /\ r.capability \in DOMAIN admissions' /\ admissions'[r.capability] = v
            /\ v.fingerprint = Fingerprint(r) /\ v.state = r.id
            /\ request'[t].pending = TRUE
        BY <1>2, <1>7, <3>3
      <4>. HIDE DEF r, v
      <4>2. EntryHeld(request[t])'
        BY <3>1, <4>1 DEF EntryHeld
      <4>. QED
        BY <3>2, <4>2
    <3>4. CASE Renews(t)
      <4>1. /\ r.capability \in DOMAIN Live(r)
            /\ Live(r)[r.capability].fingerprint = Fingerprint(r)
            /\ Live(r)[r.capability].state = Committed
            /\ admissions' = Live(r)
            /\ request'[t].pending = FALSE
        BY <1>10, <3>4 DEF Renews, Readmits
      <4>. HIDE DEF r, v
      <4>2. EntryHeld(request[t])'
        BY <3>1, <4>1 DEF EntryHeld
      <4>. QED
        BY <3>2, <4>2
    <3>. QED
      BY <1>1, <1>4, <2>2, <3>3, <3>4
  <2>3. ASSUME NEW u \in Threads, NEW w \in Threads, u # w,
               request'[u] # Idle, request'[w] # Idle
        PROVE  request'[u].id # request'[w].id
    <3>1. /\ request[u] # Idle /\ request'[u].id = request[u].id
          /\ request[w] # Idle /\ request'[w].id = request[w].id
      BY <1>1, <1>4, <1>11, <2>3
    <3>. QED
      BY <2>3, <3>1 DEF RequestsOK
  <2>. QED
    BY <2>1, <2>2, <2>3 DEF RequestsOK
<1>. QED
  BY <1>5, <1>6, <1>8, <1>9

\* A reservation that a request owns is neither a committed admission nor the
\* entry of another request.
LEMMA OwnedByOne ==
  ASSUME GateTypes, AdmissionInv, NEW t \in Threads, request[t] # Idle, Owns(request[t])
  PROVE  /\ \A u \in Threads : u # t /\ request[u] # Idle /\ request[u].pc = "check"
                               /\ now < request[u].capability.expires =>
              request[u].capability # request[t].capability
         /\ \A l \in leases : now < l.capability.expires =>
              l.capability # request[t].capability
<1>. USE DEF AdmissionInv, GateTypes
<1>1. request[t].id # Committed /\ admissions[request[t].capability].state = request[t].id
  BY RequestFields DEF Owns
<1>2. ASSUME NEW u \in Threads, u # t, request[u] # Idle, request[u].pc = "check",
             now < request[u].capability.expires
      PROVE  request[u].capability # request[t].capability
  <2>1. admissions[request[u].capability].state =
          IF request[u].pending THEN request[u].id ELSE Committed
    BY <1>2 DEF RequestsOK, EntryHeld
  <2>2. request[u].id # request[t].id
    BY <1>2 DEF RequestsOK
  <2>. QED
    BY <1>1, <2>1, <2>2
<1>3. ASSUME NEW l \in leases, now < l.capability.expires
      PROVE  l.capability # request[t].capability
  BY <1>1, <1>3 DEF LeaseHoldsAdmission
<1>. QED
  BY <1>2, <1>3

\* Taking a reservation back touches no entry that anyone else holds.
LEMMA RollbackKeepsAdmissions ==
  ASSUME GateTypes, AdmissionInv, NEW t \in Threads, Rollback(t)
  PROVE  AdmissionInv'
<1>. USE DEF AdmissionInv, GateTypes
<1>. DEFINE r == request[t]
<1>1. /\ r # Idle
      /\ DOMAIN admissions' = {c \in DOMAIN admissions : ~(Owns(r) /\ c = r.capability)}
      /\ \A c \in DOMAIN admissions' : admissions'[c] = admissions[c]
      /\ request' = [request EXCEPT ![t] = Idle]
      /\ UNCHANGED <<leases, now>>
  BY RollbackFacts
<1>2. request'[t] = Idle /\ \A u \in Threads : u # t => request'[u] = request[u]
  BY <1>1, OthersUnchanged
<1>3. Owns(r) =>
        /\ \A u \in Threads : u # t /\ request[u] # Idle /\ request[u].pc = "check"
                              /\ now < request[u].capability.expires =>
             request[u].capability # r.capability
        /\ \A l \in leases : now < l.capability.expires => l.capability # r.capability
  BY <1>1, OwnedByOne
<1>4. RequestsOK'
  <2>1. ASSUME NEW u \in Threads, request'[u] # Idle
        PROVE  /\ request'[u].now <= now'
               /\ request'[u].pc = "verify" => ~request'[u].pending
               /\ EntryHeld(request[u])'
    <3>1. u # t /\ request'[u] = request[u] /\ now' = now
      BY <1>1, <1>2, <2>1
    <3>2. EntryHeld(request[u])
      BY <2>1, <3>1 DEF RequestsOK
    <3>3. EntryHeld(request[u])'
      BY <1>1, <1>3, <2>1, <3>1, <3>2 DEF EntryHeld, Fingerprint
    <3>. QED
      BY <2>1, <3>1, <3>3 DEF RequestsOK
  <2>2. ASSUME NEW u \in Threads, NEW w \in Threads, u # w,
               request'[u] # Idle, request'[w] # Idle
        PROVE  request'[u].id # request'[w].id
    BY <1>2, <2>2 DEF RequestsOK
  <2>. QED
    BY <2>1, <2>2 DEF RequestsOK
<1>5. ExpiryOK'
  BY <1>1 DEF ExpiryOK
<1>6. LeaseHoldsAdmission'
  BY <1>1, <1>3 DEF LeaseHoldsAdmission
<1>7. PendingIsOwned'
  <2>1. ASSUME NEW c \in DOMAIN admissions', admissions'[c].state # Committed
        PROVE  \E u \in Threads :
                 /\ request'[u] # Idle
                 /\ request'[u].capability = c /\ request'[u].pending
                 /\ request'[u].id = admissions'[c].state
    <3>1. c \in DOMAIN admissions /\ admissions'[c] = admissions[c]
          /\ ~(Owns(r) /\ c = r.capability)
      BY <1>1
    <3>2. PICK u \in Threads : /\ request[u] # Idle
                               /\ request[u].capability = c /\ request[u].pending
                               /\ request[u].id = admissions[c].state
      BY <2>1, <3>1 DEF PendingIsOwned
    <3>3. u # t
      BY <3>1, <3>2 DEF Owns
    <3>. QED
      BY <1>2, <3>1, <3>2, <3>3
  <2>. QED
    BY <2>1 DEF PendingIsOwned
<1>. QED
  BY <1>4, <1>5, <1>6, <1>7

\* The lease that is returned holds the admission of its request.
LEMMA CommitKeepsAdmissions ==
  ASSUME GateTypes, AdmissionInv, NEW t \in Threads, Commit(t)
  PROVE  AdmissionInv'
<1>. USE DEF AdmissionInv, GateTypes
<1>. DEFINE r == request[t]
            granted == [binding |-> r.binding, revision |-> r.revision,
                        capability |-> r.capability, connection |-> r.connection]
<1>1. /\ r \in Request /\ r # Idle /\ r.pc = "check"
      /\ DOMAIN admissions' = DOMAIN admissions
      /\ \A c \in DOMAIN admissions :
           /\ admissions'[c].fingerprint = admissions[c].fingerprint
           /\ admissions'[c].expires = admissions[c].expires
           /\ admissions'[c].state =
                IF Owns(r) /\ c = r.capability THEN Committed ELSE admissions[c].state
      /\ leases' = leases \cup {granted}
      /\ request' = [request EXCEPT ![t] = Idle]
      /\ UNCHANGED now
  BY CommitFacts
<1>2. request'[t] = Idle /\ \A u \in Threads : u # t => request'[u] = request[u]
  BY <1>1, OthersUnchanged
<1>3. Owns(r) =>
        /\ \A u \in Threads : u # t /\ request[u] # Idle /\ request[u].pc = "check"
                              /\ now < request[u].capability.expires =>
             request[u].capability # r.capability
        /\ \A l \in leases : now < l.capability.expires => l.capability # r.capability
  BY <1>1, OwnedByOne
<1>4. RequestsOK'
  <2>1. ASSUME NEW u \in Threads, request'[u] # Idle
        PROVE  /\ request'[u].now <= now'
               /\ request'[u].pc = "verify" => ~request'[u].pending
               /\ EntryHeld(request[u])'
    <3>1. u # t /\ request'[u] = request[u] /\ now' = now
      BY <1>1, <1>2, <2>1
    <3>2. EntryHeld(request[u])
      BY <2>1, <3>1 DEF RequestsOK
    <3>3. EntryHeld(request[u])'
      BY <1>1, <1>3, <2>1, <3>1, <3>2 DEF EntryHeld, Fingerprint
    <3>. QED
      BY <2>1, <3>1, <3>3 DEF RequestsOK
  <2>2. ASSUME NEW u \in Threads, NEW w \in Threads, u # w,
               request'[u] # Idle, request'[w] # Idle
        PROVE  request'[u].id # request'[w].id
    BY <1>2, <2>2 DEF RequestsOK
  <2>. QED
    BY <2>1, <2>2 DEF RequestsOK
<1>5. ExpiryOK'
  BY <1>1 DEF ExpiryOK
<1>6. LeaseHoldsAdmission'
  <2>1. ASSUME NEW l \in leases, now < l.capability.expires
        PROVE  /\ l.capability \in DOMAIN admissions'
               /\ admissions'[l.capability].state = Committed
               /\ admissions'[l.capability].fingerprint =
                    [key |-> l.binding.key, connection |-> l.connection]
    <3>1. /\ l.capability \in DOMAIN admissions
          /\ admissions[l.capability].state = Committed
          /\ admissions[l.capability].fingerprint =
               [key |-> l.binding.key, connection |-> l.connection]
      BY <2>1 DEF LeaseHoldsAdmission
    <3>. QED
      BY <1>1, <3>1
  <2>2. ASSUME now < r.capability.expires
        PROVE  /\ r.capability \in DOMAIN admissions'
               /\ admissions'[r.capability].state = Committed
               /\ admissions'[r.capability].fingerprint =
                    [key |-> r.binding.key, connection |-> r.connection]
    <3>1. /\ r.capability \in DOMAIN admissions
          /\ admissions[r.capability].fingerprint = Fingerprint(r)
          /\ admissions[r.capability].state = IF r.pending THEN r.id ELSE Committed
      BY <1>1, <2>2 DEF RequestsOK, EntryHeld
    <3>2. admissions'[r.capability].state = Committed
      BY <1>1, <3>1 DEF Owns
    <3>3. admissions'[r.capability].fingerprint = Fingerprint(r)
      BY <1>1, <3>1
    <3>. QED
      BY <1>1, <3>1, <3>2, <3>3 DEF Fingerprint
  <2>3. /\ granted.capability = r.capability /\ granted.binding = r.binding
        /\ granted.connection = r.connection
    OBVIOUS
  <2>. HIDE DEF granted, r
  <2>4. ASSUME NEW l \in leases', now < l.capability.expires
        PROVE  /\ l.capability \in DOMAIN admissions'
               /\ admissions'[l.capability].state = Committed
               /\ admissions'[l.capability].fingerprint =
                    [key |-> l.binding.key, connection |-> l.connection]
    <3>1. CASE l \in leases
      BY <2>1, <2>4, <3>1
    <3>2. CASE l = granted
      BY <2>2, <2>3, <2>4, <3>2
    <3>. QED
      BY <1>1, <3>1, <3>2
  <2>. QED
    BY <1>1, <2>4 DEF LeaseHoldsAdmission
<1>7. PendingIsOwned'
  <2>1. ASSUME NEW c \in DOMAIN admissions', admissions'[c].state # Committed
        PROVE  \E u \in Threads :
                 /\ request'[u] # Idle
                 /\ request'[u].capability = c /\ request'[u].pending
                 /\ request'[u].id = admissions'[c].state
    <3>1. c \in DOMAIN admissions /\ admissions'[c].state = admissions[c].state
          /\ ~(Owns(r) /\ c = r.capability)
      BY <1>1, <2>1
    <3>2. PICK u \in Threads : /\ request[u] # Idle
                               /\ request[u].capability = c /\ request[u].pending
                               /\ request[u].id = admissions[c].state
      BY <2>1, <3>1 DEF PendingIsOwned
    <3>3. u # t
      BY <3>1, <3>2 DEF Owns
    <3>. QED
      BY <1>2, <3>1, <3>2, <3>3
  <2>. QED
    BY <2>1 DEF PendingIsOwned
<1>. QED
  BY <1>4, <1>5, <1>6, <1>7

\* Every step keeps the ownership of admissions.
LEMMA AdmissionStep ==
  ASSUME GateTypes, AdmissionInv, [Next]_vars
  PROVE  AdmissionInv'
<1>1. CASE GateNext
  BY <1>1, ResolveKeepsAdmissions, AdmitKeepsAdmissions, RejectKeepsAdmissions,
     RollbackKeepsAdmissions, CommitKeepsAdmissions
  DEF GateNext
<1>2. CASE UNCHANGED <<admissions, request, leases>> /\ now' \in Nat /\ now' >= now
  <2>1. now \in Nat
    BY DEF GateTypes, RequestTypes
  <2>2. RequestsOK'
    <3>1. ASSUME NEW t \in Threads, request[t] # Idle
          PROVE  /\ request[t].now <= now' /\ EntryHeld(request[t])'
      <4>1. /\ request[t].now <= now /\ EntryHeld(request[t])
            /\ request[t].now \in Nat /\ request[t].capability.expires \in Nat
        BY <3>1, RequestFields DEF AdmissionInv, RequestsOK, GateTypes
      <4>2. now < request[t].capability.expires \/ ~(now' < request[t].capability.expires)
        BY <1>2, <2>1, <4>1
      <4>3. EntryHeld(request[t])'
        BY <1>2, <4>1, <4>2 DEF EntryHeld, Fingerprint
      <4>. QED
        BY <1>2, <2>1, <4>1, <4>3
    <3>. QED
      BY <1>2, <3>1 DEF AdmissionInv, RequestsOK
  <2>3. LeaseHoldsAdmission'
    <3>1. \A l \in leases : l.capability.expires \in Nat
      BY DEF GateTypes, RequestTypes
    <3>2. \A l \in leases : now' < l.capability.expires => now < l.capability.expires
      BY <1>2, <2>1, <3>1
    <3>. QED
      BY <1>2, <3>2 DEF AdmissionInv, LeaseHoldsAdmission
  <2>4. ExpiryOK' /\ PendingIsOwned'
    BY <1>2 DEF AdmissionInv, ExpiryOK, PendingIsOwned
  <2>. QED
    BY <2>2, <2>3, <2>4 DEF AdmissionInv
<1>3. CASE UNCHANGED <<gate, now>>
  BY <1>2, <1>3 DEF gate, GateTypes, RequestTypes
<1>4. CASE RegistryNext
  BY <1>3, <1>4
  DEF RegistryNext, PublishInvalidation, TakeSnapshot, Install, ApplyInvalidation, InstallSnapshot
<1>5. CASE Elapse
  BY <1>2, <1>5 DEF Elapse, gate, GateTypes, RequestTypes
<1>6. CASE UNCHANGED vars
  BY <1>3, <1>6 DEF vars
<1>. QED
  BY <1>1, <1>4, <1>5, <1>6 DEF Next

(***************************************************************************)
(* The theorems.                                                           *)
(***************************************************************************)
\* The invariant holds of an empty registry and gate.
LEMMA InitGate == Init => GateInv
<1>. SUFFICES ASSUME Init PROVE GateInv
  OBVIOUS
<1>1. IsFiniteSet({}) /\ Cardinality({}) = 0
  BY FS_EmptySet
<1>2. DOMAIN bindings = {} /\ DOMAIN admissions = {}
  BY DEF Init, EmptyTable
<1>3. RegistryTypes
  <2>1. IsFiniteSet(DOMAIN bindings)
    BY <1>1, <1>2, Zenon
  <2>2. bindings \in [DOMAIN bindings -> Registered]
    BY <1>2 DEF Init, EmptyTable
  <2>. QED
    BY <1>2, <2>1, <2>2 DEF Init, RegistryTypes
<1>4. HeldIsCurrent /\ ReceivedIsCovered
  BY <1>2 DEF Init, HeldIsCurrent, ReceivedIsCovered
<1>5. AdmissionTypes
  <2>1. IsFiniteSet(DOMAIN admissions) /\ Cardinality(DOMAIN admissions) = 0
    BY <1>1, <1>2, Zenon
  <2>2. admissions \in [DOMAIN admissions -> Admission]
    BY <1>2 DEF Init, EmptyTable
  <2>. QED
    BY <1>2, <2>1, <2>2 DEF AdmissionTypes
<1>6. RequestTypes
  BY DEF Init, RequestTypes
<1>7. RevisionsIdentify
  BY DEF Init, RevisionsIdentify
<1>8. AdmissionInv
  BY <1>2 DEF Init, AdmissionInv, RequestsOK, ExpiryOK, LeaseHoldsAdmission, PendingIsOwned
<1>. QED
  BY <1>3, <1>4, <1>5, <1>6, <1>7, <1>8 DEF GateInv, RegistryInv, GateTypes

\* The inductive invariant is kept by every step.
LEMMA GateInvStep == GateInv /\ [Next]_vars => GateInv'
<1>. SUFFICES ASSUME GateInv, [Next]_vars PROVE GateInv'
  OBVIOUS
<1>1. RegistryInv'
  BY RegistryStep DEF GateInv
<1>2. GateTypes'
  BY GateTypesStep DEF GateInv, RegistryInv
<1>3. RevisionsIdentify'
  BY RevisionsStep DEF GateInv, RegistryInv
<1>4. AdmissionInv'
  BY AdmissionStep DEF GateInv
<1>. QED
  BY <1>1, <1>2, <1>3, <1>4 DEF GateInv

\* Every reachable state of SubscribeGate satisfies the inductive invariant.
THEOREM GateInvariant == Spec => []GateInv
  BY InitGate, GateInvStep, PTL DEF Spec

\* A lease that the registry accepts carries the binding the registry holds,
\* and that one is current for everything that was received since it was
\* installed.
LEMMA GateInvImpliesCurrent == GateInv => RevalidatedIsCurrent
<1>. SUFFICES ASSUME GateInv, NEW l \in leases, RegistryAccepts(l), NEW i \in received,
                     i > bindings[l.binding.key].since
              PROVE  ~StaleUnder(l.binding, outbox[i])
  BY DEF RevalidatedIsCurrent
<1>. DEFINE k == l.binding.key
<1>1. /\ synchronized /\ k \in DOMAIN bindings /\ bindings[k].active
      /\ bindings[k].revision = l.revision
  BY DEF RegistryAccepts, Resolves
<1>2. bindings[k].binding = l.binding
  BY <1>1 DEF GateInv, RevisionsIdentify, SeenUnder
<1>3. CurrentSince(l.binding, bindings[k].since, last_invalidation_sequence)
  BY <1>1, <1>2 DEF GateInv, RegistryInv, HeldIsCurrent
<1>4. /\ i \in 1..Len(outbox) /\ last_invalidation_sequence \in 0..Len(outbox)
      /\ bindings[k].since \in Nat
  BY <1>1 DEF GateInv, RegistryInv, RegistryTypes, Registered
<1>5. i <= last_invalidation_sequence
  BY <1>1 DEF GateInv, RegistryInv, ReceivedIsCovered
<1>. QED
  BY <1>3, <1>4, <1>5 DEF CurrentSince

\* The types of the inductive invariant are those of TypeOK.
LEMMA GateInvImpliesTypes == GateInv => TypeOK
<1>. SUFFICES ASSUME RegistryTypes, AdmissionTypes, RequestTypes PROVE TypeOK
  BY DEF GateInv, RegistryInv, GateTypes
<1>1. /\ \A k \in DOMAIN bindings :
           /\ bindings[k].binding \in Bindings /\ bindings[k].binding.key = k
           /\ bindings[k].revision \in 1..next_revision
           /\ bindings[k].active \in BOOLEAN
           /\ bindings[k].since \in 0..last_invalidation_sequence
      /\ DOMAIN bindings \subseteq Keys
  BY DEF RegistryTypes, Registered, Keys
<1>2. /\ \A s \in snapshots : s.boundary \in 0..MaxEvents /\ s.bindings \in Exact
      /\ received \subseteq 1..MaxEvents
  BY DEF RegistryTypes
<1>3. \A c \in DOMAIN admissions : admissions[c].state \in 0..MaxRequests
  BY DEF AdmissionTypes, Admission
<1>4. /\ outbox \in Seq(Events)
      /\ next_revision \in Nat
      /\ last_invalidation_sequence \in 0..Len(outbox)
      /\ required_snapshot_boundary \in 0..Len(outbox)
      /\ installs \in 0..MaxInstalls
      /\ synchronized \in BOOLEAN
  BY DEF RegistryTypes
<1>5. /\ DOMAIN admissions \subseteq Capabilities
      /\ Cardinality(DOMAIN admissions) <= MaxActive
      /\ requests \in 0..MaxRequests
      /\ now \in 0..MaxTime
  BY DEF AdmissionTypes, RequestTypes
<1>. QED
  BY <1>1, <1>2, <1>3, <1>4, <1>5, Zenon DEF TypeOK

\* Authorization is sound for every number of threads, bindings and
\* capabilities: a lease that revalidates is current for every invalidation
\* that was received since its binding was installed, an unexpired lease holds the admission of its own
\* connection, and no reservation is leaked.
THEOREM GateCorrect == Spec => []GateSound
<1>1. GateInv => GateSound
  BY GateInvImpliesTypes, GateInvImpliesCurrent DEF GateInv, AdmissionInv, GateSound
<1>. QED
  BY <1>1, GateInvariant, PTL

\* A lease that the registry refuses is never accepted again, whatever
\* snapshot or installation follows.
THEOREM RefusalCorrect == Spec => RefusalIsFinal
<1>1. ASSUME GateInv, Next, NEW l \in leases, RegistryAccepts(l)'
      PROVE  RegistryAccepts(l)
  <2>. DEFINE k == l.binding.key
  <2>1. /\ synchronized' /\ k \in DOMAIN bindings' /\ bindings'[k].active
        /\ bindings'[k].revision = l.revision
    BY <1>1 DEF RegistryAccepts, Resolves
  <2>2. CASE RegistryNext
    <3>1. bindings'[k].revision <= next_revision
      BY <1>1, <2>1 DEF GateInv, RevisionsIdentify, SeenUnder
    <3>2. /\ k \in DOMAIN bindings /\ bindings[k].active
          /\ bindings'[k].revision = bindings[k].revision
          /\ synchronized' => synchronized
      BY <1>1, <2>1, <2>2, <3>1, RevisionsAreFresh DEF GateInv, RegistryInv
    <3>. QED
      BY <2>1, <3>2 DEF RegistryAccepts, Resolves
  <2>3. CASE GateNext \/ Elapse
    <3>1. UNCHANGED <<synchronized, bindings>>
      BY <2>3
      DEF GateNext, Resolve, Admit, VerifierRejects, Rollback, Commit, Elapse, registry
    <3>. QED
      BY <2>1, <3>1 DEF RegistryAccepts, Resolves
  <2>. QED
    BY <1>1, <2>2, <2>3 DEF Next
<1>2. GateInv /\ [Next]_vars =>
        [\A l \in leases : ~RegistryAccepts(l) => ~RegistryAccepts(l)']_vars
  <2>. SUFFICES ASSUME GateInv, Next
                PROVE  \A l \in leases : ~RegistryAccepts(l) => ~RegistryAccepts(l)'
    OBVIOUS
  <2>. QED
    BY <1>1
<1>. QED
  BY <1>2, GateInvariant, PTL DEF Spec, RefusalIsFinal
-----------------------------------------------------------------------------
HIDE GateAssumption

(***************************************************************************)
(* DeliveryCatalog: what a subscriber sees.                                *)
(***************************************************************************)

\* Numbers that grow along a list.
Grows(s) == \A i, j \in 1 .. Len(s) : i < j => s[i] < s[j]

LaneSet(lane) == IF lane = "program" THEN DOMAIN catalog ELSE {}

Scans == [lane : {"program", "talkback"}, now : Nat, maximum : Nat \ {0}, rest : Seq(Nat),
          found : Seq(Nat), revoked : BOOLEAN]

\* The keys of a lane whose objects the lease covered when the call began.
CoveredKeys(s) == {k \in LaneSet(s.lane) : Covered(catalog[k], s.now)}

\* A walk of the keys L in order, which looks for those in C: f are found, r are
\* still to be visited.
Walk(f, r, L, C) ==
    /\ f \in Seq(Nat) /\ r \in Seq(Nat) /\ Grows(f) /\ Grows(r)
    /\ \A i \in 1 .. Len(r) : r[i] \in L
    /\ \A i \in 1 .. Len(f) : f[i] \in C
    /\ \A i \in 1 .. Len(f), j \in 1 .. Len(r) : f[i] < r[j]
    /\ \A k \in C : (\E i \in 1 .. Len(f) : f[i] = k) \/ (\E i \in 1 .. Len(r) : r[i] = k)

\* A call of visible() walks the keys of its lane.
ScanOK(s) ==
    /\ s \in Scans /\ (s.revoked => ~valid) /\ Len(s.found) <= s.maximum
    /\ Walk(s.found, s.rest, LaneSet(s.lane), CoveredKeys(s))

CatalogOK ==
    /\ IsFiniteSet(DOMAIN catalog) /\ DOMAIN catalog \subseteq Nat
    /\ \A k \in DOMAIN catalog : catalog[k] \in CatalogObjects
    /\ valid \in BOOLEAN /\ delivery_now \in Nat

BufferEntry == [object : CatalogObjects, push : Nat]

BytesIn(b) == SumFunctionOnSet([i \in 1 .. Len(b) |-> b[i].object.bytes], 1 .. Len(b))

BufferOK ==
    /\ buffer \in Seq(BufferEntry) /\ pushes \in Nat /\ pushing \in CatalogObjects \cup {NoScan}
    /\ buffered_bytes = BytesIn(buffer) /\ buffered_bytes \in Nat
    /\ buffered_bytes <= MaxDeliveryBytes /\ Len(buffer) <= MaxDeliveryObjects
    /\ \A i, j \in 1 .. Len(buffer) : i < j => buffer[i].push < buffer[j].push
    /\ \A i \in 1 .. Len(buffer) : buffer[i].push <= pushes

DeliveredOK ==
    /\ delivered \in Seq([entry : BufferEntry, at : Nat])
    /\ \A i, j \in 1 .. Len(delivered) : i < j => delivered[i].entry.push < delivered[j].entry.push
    /\ \A i \in 1 .. Len(delivered) : delivered[i].entry.push <= pushes
    /\ \A i \in 1 .. Len(delivered), j \in 1 .. Len(buffer) : delivered[i].entry.push < buffer[j].push
    /\ \A i \in 1 .. Len(delivered) : /\ delivered[i].at < delivered[i].entry.object.deadline
                                      /\ delivered[i].at < Lease.expires

CatalogInv ==
    /\ CatalogOK /\ (scan # NoScan => ScanOK(scan)) /\ ListedIsCovered
    /\ BufferOK /\ DeliveredOK
-----------------------------------------------------------------------------
\* What is not over is still to come.
LEMMA NotOver ==
    \A d, when \in Nat : ~(d <= when) => d > when
  OBVIOUS

\* An object is one the lease covers when it is authorized, and only then.
LEMMA AuthorizedIsCovered ==
    ASSUME NEW o \in CatalogObjects, NEW when \in Nat, Revalidates(when)
    PROVE  /\ Authorize(o, "program", when) # "Lease"
           /\ Authorize(o, "program", when) = "" <=> Covered(o, when)
<1>1. {o.channels, o.rate, o.deadline} \subseteq Nat /\ {Lease.max_channels, Lease.max_bitrate} \subseteq Nat
  BY CatalogAssumption
<1>2. /\ o.channels > Lease.max_channels <=> ~(o.channels <= Lease.max_channels)
      /\ o.rate > Lease.max_bitrate <=> ~(o.rate <= Lease.max_bitrate)
      /\ o.deadline <= when <=> ~(o.deadline > when)
  BY <1>1
<1>. QED
  BY <1>2 DEF Authorize, Covered

LEMMA AuthorizedMeans ==
    ASSUME NEW o \in CatalogObjects, NEW when \in Nat, NEW lane, Authorize(o, lane, when) = ""
    PROVE  Revalidates(when) /\ o.deadline > when /\ when < Lease.expires
<1>1. o.deadline \in Nat
  BY CatalogAssumption
<1>2. Revalidates(when) /\ ~(o.deadline <= when)
  BY DEF Authorize
<1>3. o.deadline > when
  BY <1>1, <1>2, NotOver, Zenon
<1>4. when < Lease.expires
  BY <1>2 DEF Revalidates
<1>. QED
  BY <1>2, <1>3, <1>4

\* The keys of a lane are listed in order, all of them.
LEMMA LaneKeysList ==
    ASSUME CatalogOK, NEW lane
    PROVE  /\ LaneKeys(lane) \in Seq(Nat) /\ Grows(LaneKeys(lane))
           /\ \A i \in 1 .. Len(LaneKeys(lane)) : LaneKeys(lane)[i] \in LaneSet(lane)
           /\ \A k \in LaneSet(lane) : \E i \in 1 .. Len(LaneKeys(lane)) : LaneKeys(lane)[i] = k
<1>1. PICK S, R : S = LaneSet(lane) /\ R = {p \in S \X S : p[1] < p[2]}
  OBVIOUS
<1>2. LaneKeys(lane) = InOrder(S, R)
  BY <1>1 DEF LaneKeys, LaneSet
<1>3. IsFiniteSet(S) /\ S \in SUBSET Nat
  BY <1>1, FS_EmptySet DEF LaneSet, CatalogOK
<1>4. \A x, y \in S : <<x, y>> \in R <=> x < y
  BY <1>1
<1>5. PICK q, c : q = InOrder(S, R) /\ c = Cardinality(S)
  OBVIOUS
<1>6. /\ q \in Seq(S) /\ Len(q) = c /\ c \in Nat
      /\ \A i, j \in 1 .. c : i < j => q[i] < q[j]
      /\ \A x \in S : \E i \in 1 .. c : q[i] = x
  <2>1. S \in SUBSET Int
    BY <1>3
  <2>. QED
    BY <1>3, <1>4, <1>5, <2>1, NumbersInOrder
<1>7. q \in Seq(Nat) /\ Grows(q) /\ \A i \in 1 .. Len(q) : q[i] \in S
  <2>1. \A i \in 1 .. Len(q) : q[i] \in S
    BY <1>6
  <2>2. q = [i \in 1 .. c |-> q[i]]
    BY <1>6
  <2>3. \A i \in 1 .. c : q[i] \in Nat
    BY <1>3, <1>6, <2>1
  <2>4. q \in Seq(Nat)
    BY <1>6, <2>2, <2>3
  <2>5. Grows(q)
    BY <1>6 DEF Grows
  <2>. QED
    BY <2>1, <2>4, <2>5
<1>. QED
  BY <1>1, <1>2, <1>5, <1>6, <1>7

\* The empty buffer holds no bytes.
LEMMA NoBytes ==
    BytesIn(<<>>) = 0
<1>1. PICK f : f = [i \in 1 .. Len(<<>>) |-> <<>>[i].object.bytes]
  OBVIOUS
<1>2. 1 .. Len(<<>>) = {}
  OBVIOUS
<1>3. IsFiniteSet({}) /\ BytesIn(<<>>) = SumFunctionOnSet(f, {})
  BY <1>1, <1>2, FS_EmptySet DEF BytesIn
<1>. QED
  BY <1>3, SumUnfolds, Zenon

\* The bytes in a buffer grow by those of the object that is appended, and its
\* first object is counted among them.
LEMMA BytesMove ==
    ASSUME NEW b \in Seq(BufferEntry)
    PROVE  /\ BytesIn(b) \in Nat
           /\ \A e \in BufferEntry : BytesIn(Append(b, e)) = BytesIn(b) + e.object.bytes
           /\ Len(b) > 0 => /\ BytesIn(Tail(b)) = BytesIn(b) - b[1].object.bytes
                            /\ BytesIn(Tail(b)) \in Nat
<1>0. \A e \in BufferEntry : e.object.bytes \in Nat
  BY CatalogAssumption DEF BufferEntry
<1>1. PICK n, f : n = Len(b) /\ f = [i \in 1 .. n |-> b[i].object.bytes]
  OBVIOUS
<1>n. n \in Nat
  BY <1>1
<1>2. BytesIn(b) = SumFunctionOnSet(f, 1 .. n)
  BY <1>n, <1>1 DEF BytesIn
<1>3. \A i \in 1 .. n : b[i] \in BufferEntry /\ f[i] = b[i].object.bytes /\ f[i] \in Nat
  BY <1>n, <1>0, <1>1
<1>4. NatOn(f, 1 .. n) /\ IsFiniteSet(1 .. n)
  <2>1. NatOn(f, 1 .. n)
    BY <1>3, Zenon DEF NatOn
  <2>2. IsFiniteSet(1 .. n)
    BY <1>n, FS_Interval
  <2>. QED
    BY <2>1, <2>2
<1>5. BytesIn(b) \in Nat
  BY <1>n, <1>2, <1>3, <1>4, SumRemove, Zenon
<1>6. ASSUME NEW e \in BufferEntry
      PROVE  BytesIn(Append(b, e)) = BytesIn(b) + e.object.bytes
  <2>1. PICK c, g : c = Append(b, e) /\ g = [i \in 1 .. Len(c) |-> c[i].object.bytes]
    OBVIOUS
  <2>2. Len(c) = n + 1 /\ (\A i \in 1 .. n : c[i] = b[i]) /\ c[n + 1] = e
    BY <1>n, <1>1, <2>1
  <2>3. /\ \A i \in 1 .. n : g[i] = f[i]
        /\ g[n + 1] = e.object.bytes
    BY <1>n, <1>3, <2>1, <2>2
  <2>4. Lengthened(g, f, n)
    BY <1>n, <1>0, <1>4, <2>3 DEF Lengthened, SameOn
  <2>5. SumFunctionOnSet(g, 1 .. (n + 1)) = SumFunctionOnSet(f, 1 .. n) + g[n + 1]
    BY <1>n, <2>4, SumAppend
  <2>6. BytesIn(c) = SumFunctionOnSet(g, 1 .. (n + 1))
    BY <1>n, <2>1, <2>2 DEF BytesIn
  <2>. QED
    BY <1>n, <1>2, <2>1, <2>3, <2>5, <2>6
<1>7. ASSUME Len(b) > 0
      PROVE  BytesIn(Tail(b)) = BytesIn(b) - b[1].object.bytes /\ BytesIn(Tail(b)) \in Nat
  <2>1. PICK c, g : c = Tail(b) /\ g = [i \in 1 .. Len(c) |-> c[i].object.bytes]
    OBVIOUS
  <2>2. n > 0 /\ Len(c) = n - 1 /\ (\A i \in 1 .. (n - 1) : c[i] = b[i + 1])
    BY <1>n, <1>1, <1>7, <2>1
  <2>3. \A i \in 1 .. (n - 1) : g[i] = f[i + 1]
    BY <1>n, <1>3, <2>1, <2>2
  <2>4. Shifted(g, f, n, 1)
    BY <1>n, <2>3 DEF Shifted
  <2>5. 1 \in 0 .. n
    BY <1>n, <2>2
  <2>6. /\ SumFunctionOnSet(g, 1 .. (n - 1)) = SumFunctionOnSet(f, 1 .. n) - SumFunctionOnSet(f, 1 .. 1)
        /\ SumFunctionOnSet(g, 1 .. (n - 1)) \in Nat
    <3>1. PICK m : m = 1
      OBVIOUS
    <3>2. m \in 0 .. n /\ Shifted(g, f, n, m)
      BY <2>4, <2>5, <3>1, Zenon
    <3>3. /\ SumFunctionOnSet(g, 1 .. (n - m)) = SumFunctionOnSet(f, 1 .. n) - SumFunctionOnSet(f, 1 .. m)
          /\ SumFunctionOnSet(g, 1 .. (n - m)) \in Nat
      BY <1>n, <1>4, <3>2, SumShift
    <3>. QED
      BY <3>1, <3>3, Zenon
  <2>7. SumFunctionOnSet(f, 1 .. 1) = b[1].object.bytes
    <3>1. PICK S, R : S = 1 .. 1 /\ R = S \ {1}
      OBVIOUS
    <3>2. 1 \in S /\ R = {}
      BY <1>n, <3>1
    <3>3. IsFiniteSet(S) /\ IsFiniteSet(R)
      <4>1. S = {1}
        BY <3>1
      <4>. QED
        BY <3>2, <4>1, FS_Singleton, FS_EmptySet, Zenon
    <3>4. \A x \in S : f[x] \in Nat
      BY <1>n, <1>3, <2>2, <3>1
    <3>5. SumFunctionOnSet(f, S) = f[1] + SumFunctionOnSet(f, R)
      <4>1. \A x \in S : SumFunctionOnSet(f, S) = f[x] + SumFunctionOnSet(f, S \ {x})
        BY <3>3, <3>4, SumRemove, Zenon
      <4>. QED
        BY <3>1, <3>2, <4>1, Zenon
    <3>6. SumFunctionOnSet(f, R) = 0
      BY <1>n, <3>2, <3>3, SumUnfolds, Zenon
    <3>7. f[1] \in Nat /\ f[1] = b[1].object.bytes
      BY <1>n, <1>3, <2>2
    <3>. QED
      BY <1>n, <3>1, <3>5, <3>6, <3>7
  <2>8. BytesIn(c) = SumFunctionOnSet(g, 1 .. (n - 1))
    BY <1>n, <2>1, <2>2 DEF BytesIn
  <2>. QED
    BY <1>n, <1>2, <2>1, <2>6, <2>7, <2>8
<1>. QED
  BY <1>5, <1>6, <1>7

-----------------------------------------------------------------------------
\* A list of numbers without its first.
LEMMA RestGrows ==
    ASSUME NEW r \in Seq(Nat), r # <<>>, Grows(r)
    PROVE  /\ Tail(r) \in Seq(Nat) /\ Grows(Tail(r)) /\ Len(Tail(r)) = Len(r) - 1 /\ Len(r) > 0
           /\ Head(r) = r[1] /\ Head(r) \in Nat
           /\ \A i \in 1 .. Len(Tail(r)) : Tail(r)[i] = r[i + 1] /\ Head(r) < Tail(r)[i]
           /\ \A i \in 1 .. Len(r) : r[i] = Head(r) \/ \E j \in 1 .. Len(Tail(r)) : Tail(r)[j] = r[i]
<1>1. PICK t, n : t = Tail(r) /\ n = Len(r)
  OBVIOUS
<1>2. /\ t \in Seq(Nat) /\ n \in Nat /\ n > 0 /\ Len(t) = n - 1 /\ Head(r) = r[1] /\ Head(r) \in Nat
      /\ \A i \in 1 .. (n - 1) : t[i] = r[i + 1]
  BY <1>1
<1>3. \A i, j \in 1 .. n : i < j => r[i] < r[j]
  BY <1>1 DEF Grows
<1>4. Grows(t)
  BY <1>2, <1>3 DEF Grows
<1>5. ASSUME NEW i \in 1 .. (n - 1)
      PROVE  t[i] = r[i + 1] /\ Head(r) < t[i]
  <2>1. 1 \in 1 .. n /\ i + 1 \in 1 .. n /\ 1 < i + 1
    BY <1>2
  <2>2. r[1] < r[i + 1]
    BY <1>3, <2>1, Zenon
  <2>. QED
    BY <1>2, <2>2
<1>6. ASSUME NEW i \in 1 .. n
      PROVE  r[i] = Head(r) \/ \E j \in 1 .. (n - 1) : t[j] = r[i]
  <2>1. CASE i = 1
    BY <1>2, <2>1
  <2>2. CASE i # 1
    <3>1. i - 1 \in 1 .. (n - 1) /\ t[i - 1] = r[i]
      BY <1>2, <2>2
    <3>. QED
      BY <3>1
  <2>. QED
    BY <2>1, <2>2
<1>. QED
  BY <1>1, <1>2, <1>4, <1>5, <1>6

\* A list of numbers with a larger one at its end.
LEMMA FoundGrows ==
    ASSUME NEW f \in Seq(Nat), Grows(f), NEW k \in Nat, \A i \in 1 .. Len(f) : f[i] < k
    PROVE  /\ Append(f, k) \in Seq(Nat) /\ Grows(Append(f, k)) /\ Len(Append(f, k)) = Len(f) + 1
           /\ \A i \in 1 .. Len(f) : Append(f, k)[i] = f[i]
           /\ Append(f, k)[Len(f) + 1] = k
<1>1. PICK a, n : a = Append(f, k) /\ n = Len(f)
  OBVIOUS
<1>2. /\ a \in Seq(Nat) /\ n \in Nat /\ Len(a) = n + 1 /\ a[n + 1] = k
      /\ \A i \in 1 .. n : a[i] = f[i]
  BY <1>1
<1>3. (\A i, j \in 1 .. n : i < j => f[i] < f[j]) /\ \A i \in 1 .. n : f[i] < k
  BY <1>1 DEF Grows
<1>4. Grows(a)
  <2>1. SUFFICES ASSUME NEW i \in 1 .. (n + 1), NEW j \in 1 .. (n + 1), i < j
                 PROVE  a[i] < a[j]
    BY <1>2 DEF Grows
  <2>2. i \in 1 .. n /\ a[i] = f[i]
    BY <1>2, <2>1
  <2>3. CASE j = n + 1
    BY <1>2, <1>3, <2>2, <2>3
  <2>4. CASE j # n + 1
    <3>1. j \in 1 .. n /\ a[j] = f[j]
      BY <1>2, <2>4
    <3>. QED
      BY <1>3, <2>1, <2>2, <3>1
  <2>. QED
    BY <2>3, <2>4
<1>. QED
  BY <1>1, <1>2, <1>4

\* What a step leaves alone: the list that was returned, and the deliveries.
LEMMA ListedStays ==
    ASSUME ListedIsCovered, UNCHANGED <<catalog, listed>>
    PROVE  ListedIsCovered'
  BY DEF ListedIsCovered, Covered, NoScan

LEMMA DeliveriesStay ==
    ASSUME BufferOK, DeliveredOK, UNCHANGED <<buffer, buffered_bytes, pushing, delivered, pushes>>
    PROVE  BufferOK' /\ DeliveredOK'
<1>1. BufferOK'
  BY DEF BufferOK, BytesIn
<1>2. DeliveredOK'
  BY DEF DeliveredOK
<1>. QED
  BY <1>1, <1>2

LEMMA ScanStays ==
    ASSUME scan # NoScan => ScanOK(scan), UNCHANGED <<catalog, scan, valid>>
    PROVE  (scan # NoScan => ScanOK(scan))'
  BY DEF ScanOK, CoveredKeys, LaneSet, Covered, NoScan

\* BeginVisible starts with every key of the lane to be visited.
LEMMA BeginStep ==
    ASSUME CatalogInv, NEW lane \in {"program", "talkback"}, NEW maximum \in 1 .. MaxVisible,
           BeginVisible(lane, maximum)
    PROVE  CatalogInv'
<1>0. CatalogOK /\ BufferOK /\ DeliveredOK
  BY DEF CatalogInv
<1>1. /\ UNCHANGED <<catalog, valid, delivery_now>> /\ listed' = NoScan
      /\ UNCHANGED <<buffer, buffered_bytes, pushing, delivered, pushes>>
  BY DEF BeginVisible, deliveryVars
<1>2. PICK keys : keys = LaneKeys(lane)
  OBVIOUS
<1>3. /\ keys \in Seq(Nat) /\ Grows(keys)
      /\ \A i \in 1 .. Len(keys) : keys[i] \in LaneSet(lane)
      /\ \A k \in LaneSet(lane) : \E i \in 1 .. Len(keys) : keys[i] = k
  BY <1>0, <1>2, LaneKeysList
<1>4. scan' = [lane |-> lane, now |-> delivery_now, maximum |-> maximum,
               rest |-> keys, found |-> <<>>, revoked |-> FALSE]
  BY <1>2 DEF BeginVisible
<1>5. delivery_now \in Nat /\ maximum \in Nat \ {0}
  BY <1>0, CatalogAssumption DEF CatalogOK
<1>6. /\ scan' \in Scans /\ scan'.revoked = FALSE /\ scan'.rest = keys /\ scan'.found = <<>>
      /\ scan'.lane = lane /\ scan'.maximum = maximum
  <2>1. <<>> \in Seq(Nat)
    OBVIOUS
  <2>. QED
    BY <1>3, <1>4, <1>5, <2>1 DEF Scans
<1>7. ScanOK(scan)'
  <2>1. PICK s, L, C : s = scan' /\ L = LaneSet(lane) /\ C = CoveredKeys(s)
    OBVIOUS
  <2>2. /\ s \in Scans /\ s.revoked = FALSE /\ s.rest = keys /\ s.found = <<>>
        /\ s.lane = lane /\ s.maximum = maximum /\ C \subseteq L
    BY <1>6, <2>1 DEF CoveredKeys
  <2>3. Len(<<>>) = 0 /\ 1 .. 0 = {} /\ Grows(<<>>) /\ <<>> \in Seq(Nat)
    BY DEF Grows
  <2>4. Walk(<<>>, keys, L, C)
    BY <1>3, <2>1, <2>2, <2>3 DEF Walk
  <2>5. ScanOK(s)
    <3>1. Len(s.found) <= s.maximum
      BY <1>5, <2>2, <2>3
    <3>2. Walk(s.found, s.rest, LaneSet(s.lane), CoveredKeys(s))
      BY <2>1, <2>2, <2>4
    <3>. QED
      BY <2>2, <3>1, <3>2 DEF ScanOK
  <2>. QED
    BY <1>1, <2>1, <2>5 DEF ScanOK, LaneSet, CoveredKeys, Covered
<1>8. CatalogOK' /\ BufferOK' /\ DeliveredOK'
  <2>1. CatalogOK'
    BY <1>0, <1>1 DEF CatalogOK
  <2>. QED
    BY <1>0, <1>1, <2>1, DeliveriesStay, Zenon
<1>9. ListedIsCovered'
  BY <1>1, Zenon DEF ListedIsCovered, NoScan
<1>. QED
  BY <1>7, <1>8, <1>9, Zenon DEF CatalogInv

\* One entry is skipped, found, or ends the call.
LEMMA VisitTakes ==
    ASSUME CatalogInv, VisitEntry
    PROVE  \/ scan' = NoScan
           \/ /\ Covered(catalog[Head(scan.rest)], scan.now)
              /\ scan' = [scan EXCEPT !.rest = Tail(@), !.found = Append(@, Head(scan.rest))]
           \/ /\ ~Covered(catalog[Head(scan.rest)], scan.now)
              /\ scan' = [scan EXCEPT !.rest = Tail(@)]
<1>1. PICK k : k = Head(scan.rest)
  OBVIOUS
<1>2. scan # NoScan /\ scan.rest # <<>> /\ ScanOK(scan) /\ CatalogOK
  BY Zenon DEF VisitEntry, CatalogInv
<1>a. scan \in Scans /\ Walk(scan.found, scan.rest, LaneSet(scan.lane), CoveredKeys(scan))
  BY <1>2 DEF ScanOK
<1>b. PICK r, L : r = scan.rest /\ L = LaneSet(scan.lane)
  OBVIOUS
<1>c. r \in Seq(Nat) /\ r # <<>> /\ k = Head(r) /\ \A i \in 1 .. Len(r) : r[i] \in L
  BY <1>1, <1>2, <1>a, <1>b DEF Walk
<1>d. k \in L
  BY <1>c
<1>3. /\ scan \in Scans /\ scan.now \in Nat /\ k \in LaneSet(scan.lane)
      /\ scan = [lane |-> scan.lane, now |-> scan.now, maximum |-> scan.maximum,
                 rest |-> scan.rest, found |-> scan.found, revoked |-> scan.revoked]
  BY <1>a, <1>b, <1>d DEF Scans
<1>4. scan.lane = "program" /\ catalog[k] \in CatalogObjects
  BY <1>2, <1>3 DEF LaneSet, CatalogOK
<1>5. PICK e : e = Authorize(catalog[k], scan.lane, scan.now)
  OBVIOUS
<1>6. scan' = IF e = "Lease" THEN NoScan
              ELSE [scan EXCEPT !.rest = Tail(@), !.found = IF e = "" THEN Append(@, k) ELSE @]
  BY <1>1, <1>5, Zenon DEF VisitEntry
<1>7. CASE ~Revalidates(scan.now)
  <2>1. e = "Lease"
    BY <1>5, <1>7, Zenon DEF Authorize
  <2>. QED
    BY <1>6, <2>1, Zenon
<1>8. CASE Revalidates(scan.now)
  <2>1. e # "Lease" /\ (e = "" <=> Covered(catalog[k], scan.now))
    BY <1>3, <1>4, <1>5, <1>8, AuthorizedIsCovered, Zenon
  <2>2. scan' = [scan EXCEPT !.rest = Tail(@), !.found = IF e = "" THEN Append(@, k) ELSE @]
    BY <1>6, <2>1, Zenon
  <2>3. CASE e = ""
    <3>1. scan' = [scan EXCEPT !.rest = Tail(@), !.found = Append(@, k)]
      BY <2>2, <2>3, Zenon
    <3>. QED
      BY <1>1, <2>1, <2>3, <3>1, Zenon
  <2>4. CASE e # ""
    <3>1. scan' = [scan EXCEPT !.rest = Tail(@), !.found = @]
      BY <2>2, <2>4, Zenon
    <3>2. scan' = [scan EXCEPT !.rest = Tail(@)]
      BY <1>3, <3>1 DEF Scans
    <3>. QED
      BY <1>1, <2>1, <2>4, <3>2, Zenon
  <2>. QED
    BY <2>3, <2>4, Zenon
<1>. QED
  BY <1>7, <1>8, Zenon

\* A walk goes on: the next key is found when it is looked for.
LEMMA WalkOn ==
    ASSUME NEW f, NEW r, NEW L, NEW C, Walk(f, r, L, C), r # <<>>
    PROVE  /\ Head(r) \in C => Walk(Append(f, Head(r)), Tail(r), L, C)
           /\ Head(r) \notin C => Walk(f, Tail(r), L, C)
<1>1. PICK u, k : u = Tail(r) /\ k = Head(r)
  OBVIOUS
<1>2. f \in Seq(Nat) /\ r \in Seq(Nat) /\ Grows(f) /\ Grows(r)
  BY DEF Walk
<1>3. /\ \A i \in 1 .. Len(r) : r[i] \in L
      /\ \A i \in 1 .. Len(f) : f[i] \in C
  BY DEF Walk
<1>4. \A i \in 1 .. Len(f), j \in 1 .. Len(r) : f[i] < r[j]
  BY DEF Walk
<1>5. \A x \in C : (\E i \in 1 .. Len(f) : f[i] = x) \/ (\E i \in 1 .. Len(r) : r[i] = x)
  BY DEF Walk
<1>6. /\ u \in Seq(Nat) /\ Grows(u) /\ Len(u) = Len(r) - 1 /\ Len(r) > 0
      /\ k = r[1] /\ k \in Nat
      /\ \A i \in 1 .. Len(u) : u[i] = r[i + 1] /\ k < u[i]
      /\ \A i \in 1 .. Len(r) : r[i] = k \/ \E j \in 1 .. Len(u) : u[j] = r[i]
  BY <1>1, <1>2, RestGrows
<1>7. Len(r) \in Nat /\ Len(f) \in Nat /\ \A i \in 1 .. Len(f) : f[i] < k
  BY <1>2, <1>4, <1>6
<1>8. ASSUME NEW i \in 1 .. Len(u)
      PROVE  u[i] \in L
  <2>1. i + 1 \in 1 .. Len(r) /\ u[i] = r[i + 1]
    BY <1>6, <1>7
  <2>. QED
    BY <1>3, <2>1, Zenon
<1>9. ASSUME NEW i \in 1 .. Len(f), NEW j \in 1 .. Len(u)
      PROVE  f[i] < u[j]
  <2>1. j + 1 \in 1 .. Len(r) /\ u[j] = r[j + 1]
    BY <1>6, <1>7
  <2>. QED
    BY <1>4, <2>1, Zenon
<1>10. ASSUME k \in C
       PROVE  Walk(Append(f, k), u, L, C)
  <2>1. PICK g : g = Append(f, k)
    OBVIOUS
  <2>2. /\ g \in Seq(Nat) /\ Grows(g) /\ Len(g) = Len(f) + 1
        /\ \A i \in 1 .. Len(f) : g[i] = f[i]
        /\ g[Len(f) + 1] = k
    BY <1>2, <1>6, <1>7, <2>1, FoundGrows
  <2>3. \A i \in 1 .. Len(g) : g[i] = k \/ \E j \in 1 .. Len(f) : g[i] = f[j]
    <3>1. ASSUME NEW i \in 1 .. Len(g)
          PROVE  i = Len(f) + 1 \/ i \in 1 .. Len(f)
      BY <1>7, <2>2
    <3>. QED
      BY <2>2, <3>1
  <2>4. \A i \in 1 .. Len(g) : g[i] \in C
    BY <1>3, <1>10, <2>3, Zenon
  <2>5. \A i \in 1 .. Len(g), j \in 1 .. Len(u) : g[i] < u[j]
    BY <1>6, <1>9, <2>3, Zenon
  <2>6. ASSUME NEW n \in C
        PROVE  (\E i \in 1 .. Len(g) : g[i] = n) \/ (\E i \in 1 .. Len(u) : u[i] = n)
    <3>1. \A i \in 1 .. Len(f) : i \in 1 .. Len(g) /\ g[i] = f[i]
      BY <1>7, <2>2
    <3>2. Len(f) + 1 \in 1 .. Len(g) /\ g[Len(f) + 1] = k
      BY <1>7, <2>2
    <3>3. CASE \E i \in 1 .. Len(f) : f[i] = n
      BY <3>1, <3>3, Zenon
    <3>4. CASE \E i \in 1 .. Len(r) : r[i] = n
      <4>1. n = k \/ \E j \in 1 .. Len(u) : u[j] = n
        BY <1>6, <3>4, Zenon
      <4>. QED
        BY <3>2, <4>1, Zenon
    <3>. QED
      BY <1>5, <3>3, <3>4, Zenon
  <2>. QED
    BY <1>6, <1>8, <2>1, <2>2, <2>4, <2>5, <2>6, Zenon DEF Walk
<1>11. ASSUME k \notin C
       PROVE  Walk(f, u, L, C)
  <2>1. ASSUME NEW n \in C
        PROVE  (\E i \in 1 .. Len(f) : f[i] = n) \/ (\E i \in 1 .. Len(u) : u[i] = n)
    BY <1>5, <1>6, <1>11, <2>1, Zenon
  <2>. QED
    BY <1>2, <1>3, <1>6, <1>8, <1>9, <2>1, Zenon DEF Walk
<1>. QED
  BY <1>1, <1>10, <1>11, Zenon

\* VisitEntry keeps what is known of the call: the entry leaves the rest, and is
\* found exactly when it is covered.
LEMMA VisitStep ==
    ASSUME CatalogInv, VisitEntry
    PROVE  CatalogInv'
<1>0. /\ CatalogOK /\ BufferOK /\ DeliveredOK /\ ListedIsCovered
      /\ scan # NoScan /\ scan.rest # <<>> /\ Len(scan.found) < scan.maximum /\ ScanOK(scan)
  BY Zenon DEF VisitEntry, CatalogInv
<1>1. /\ UNCHANGED <<catalog, valid, delivery_now>> /\ listed' = listed
      /\ UNCHANGED <<buffer, buffered_bytes, pushing, delivered, pushes>>
  BY Zenon DEF VisitEntry, deliveryVars
<1>2. PICK s, t : s = scan /\ t = scan'
  OBVIOUS
<1>3. PICK r, f, L, C : r = s.rest /\ f = s.found /\ L = LaneSet(s.lane) /\ C = CoveredKeys(s)
  OBVIOUS
<1>4. s \in Scans /\ (s.revoked => ~valid) /\ Walk(f, r, L, C) /\ r # <<>> /\ Len(f) < s.maximum
  BY <1>0, <1>2, <1>3 DEF ScanOK
<1>5. /\ s.lane \in {"program", "talkback"} /\ s.now \in Nat /\ s.maximum \in Nat \ {0}
      /\ s.revoked \in BOOLEAN /\ f \in Seq(Nat) /\ r \in Seq(Nat)
      /\ s = [lane |-> s.lane, now |-> s.now, maximum |-> s.maximum,
              rest |-> r, found |-> f, revoked |-> s.revoked]
  BY <1>3, <1>4 DEF Scans
<1>6. PICK u, k : u = Tail(r) /\ k = Head(r)
  OBVIOUS
<1>7. u \in Seq(Nat) /\ k \in Nat /\ k \in L
  <2>1. u \in Seq(Nat) /\ k \in Nat /\ 1 \in 1 .. Len(r) /\ k = r[1]
    BY <1>4, <1>5, <1>6
  <2>. QED
    BY <1>4, <2>1, Zenon DEF Walk
<1>8. /\ k \in C => Walk(Append(f, k), u, L, C)
      /\ k \notin C => Walk(f, u, L, C)
  BY <1>4, <1>6, WalkOn, Zenon
<1>9. ASSUME NEW g \in Seq(Nat), Walk(g, u, L, C), Len(g) <= s.maximum,
             t = [lane |-> s.lane, now |-> s.now, maximum |-> s.maximum,
                  rest |-> u, found |-> g, revoked |-> s.revoked]
      PROVE  ScanOK(t)
  <2>1. /\ t \in Scans /\ t.lane = s.lane /\ t.now = s.now /\ t.maximum = s.maximum
        /\ t.rest = u /\ t.found = g /\ t.revoked = s.revoked
    BY <1>5, <1>7, <1>9 DEF Scans
  <2>2. LaneSet(t.lane) = L /\ CoveredKeys(t) = C
    BY <1>3, <2>1 DEF CoveredKeys
  <2>. QED
    BY <1>4, <1>9, <2>1, <2>2, Zenon DEF ScanOK
<1>10. k \in C <=> Covered(catalog[k], s.now)
  BY <1>3, <1>7 DEF CoveredKeys
<1>11. t = NoScan \/ ScanOK(t)
  <2>1. CASE Covered(catalog[k], s.now) /\ t = [s EXCEPT !.rest = Tail(@), !.found = Append(@, k)]
    <3>1. PICK g : g = Append(f, k)
      OBVIOUS
    <3>2. g \in Seq(Nat) /\ Len(g) <= s.maximum
      BY <1>4, <1>5, <1>7, <3>1
    <3>3. t = [lane |-> s.lane, now |-> s.now, maximum |-> s.maximum,
               rest |-> u, found |-> g, revoked |-> s.revoked]
      BY <1>3, <1>5, <1>6, <2>1, <3>1
    <3>4. Walk(g, u, L, C)
      BY <1>8, <1>10, <2>1, <3>1, Zenon
    <3>. QED
      BY <1>9, <3>2, <3>3, <3>4, Zenon
  <2>2. CASE ~Covered(catalog[k], s.now) /\ t = [s EXCEPT !.rest = Tail(@)]
    <3>1. Len(f) <= s.maximum
      BY <1>4, <1>5
    <3>2. t = [lane |-> s.lane, now |-> s.now, maximum |-> s.maximum,
               rest |-> u, found |-> f, revoked |-> s.revoked]
      BY <1>3, <1>5, <1>6, <2>2
    <3>3. Walk(f, u, L, C)
      BY <1>8, <1>10, <2>2, Zenon
    <3>. QED
      BY <1>5, <1>9, <3>1, <3>2, <3>3, Zenon
  <2>3. k = Head(scan.rest)
    BY <1>2, <1>3, <1>6
  <2>. QED
    BY <1>2, <2>1, <2>2, <2>3, VisitTakes, Zenon
<1>12. (scan # NoScan => ScanOK(scan))'
  BY <1>1, <1>2, <1>11 DEF ScanOK, LaneSet, CoveredKeys, Covered, NoScan
<1>13. CatalogOK' /\ ListedIsCovered' /\ BufferOK' /\ DeliveredOK'
  <2>1. CatalogOK'
    BY <1>0, <1>1 DEF CatalogOK
  <2>. QED
    BY <1>0, <1>1, <2>1, ListedStays, DeliveriesStay, Zenon
<1>. QED
  BY <1>12, <1>13, Zenon DEF CatalogInv

\* EndVisible returns the list when the lease still holds: then it is complete.
LEMMA EndStep ==
    ASSUME CatalogInv, EndVisible
    PROVE  CatalogInv'
<1>0. /\ CatalogOK /\ BufferOK /\ DeliveredOK /\ scan # NoScan /\ ScanOK(scan)
      /\ scan.rest = <<>> \/ Len(scan.found) = scan.maximum
      /\ listed' = IF Revalidates(scan.now) THEN scan ELSE NoScan
      /\ scan' = NoScan
  BY Zenon DEF EndVisible, CatalogInv, ScanDone
<1>1. /\ UNCHANGED <<catalog, valid, delivery_now>>
      /\ UNCHANGED <<buffer, buffered_bytes, pushing, delivered, pushes>>
  BY Zenon DEF EndVisible, deliveryVars
<1>2. ListedIsCovered'
  <2>1. CASE listed' = NoScan
    BY <2>1 DEF ListedIsCovered, NoScan
  <2>2. CASE listed' # NoScan
    <3>1. Revalidates(scan.now) /\ listed' = scan
      BY <1>0, <2>2, Zenon
    <3>2. PICK s, f, r : s = scan /\ f = s.found /\ r = s.rest
      OBVIOUS
    <3>a. s \in Scans /\ Walk(f, r, LaneSet(s.lane), CoveredKeys(s))
      BY <1>0, <3>2 DEF ScanOK
    <3>3. /\ (s.revoked => ~valid) /\ Len(f) <= s.maximum /\ Grows(f)
          /\ f \in Seq(Nat) /\ r \in Seq(Nat)
          /\ r = <<>> \/ Len(f) = s.maximum
          /\ \A i \in 1 .. Len(f) : f[i] \in CoveredKeys(s)
          /\ \A i \in 1 .. Len(f), j \in 1 .. Len(r) : f[i] < r[j]
          /\ \A n \in CoveredKeys(s) :
                (\E i \in 1 .. Len(f) : f[i] = n) \/ (\E i \in 1 .. Len(r) : r[i] = n)
      BY <1>0, <3>2, <3>a, Zenon DEF ScanOK, Walk
    <3>4. ~s.revoked
      BY <3>1, <3>3 DEF Revalidates
    <3>. DEFINE keys  == {k \in DOMAIN catalog : s.lane = "program" /\ Covered(catalog[k], s.now)}
                found == {f[i] : i \in 1 .. Len(f)}
    <3>5. keys = CoveredKeys(s)
      BY DEF LaneSet, CoveredKeys
    <3>6. found \subseteq keys
      BY <3>3, <3>5
    <3>7. \A i, j \in 1 .. Len(f) : i < j => f[i] < f[j]
      BY <3>3 DEF Grows
    <3>8. ASSUME NEW k \in keys \ found
          PROVE  Len(f) = s.maximum /\ \A x \in found : x < k
      <4>1. \E i \in 1 .. Len(r) : r[i] = k
        BY <3>3, <3>5, <3>8
      <4>2. PICK i \in 1 .. Len(r) : r[i] = k
        BY <4>1
      <4>3. r # <<>>
        BY <4>2
      <4>4. \A j \in 1 .. Len(f) : f[j] < k
        BY <3>3, <4>2
      <4>. QED
        BY <3>3, <4>3, <4>4
    <3>. HIDE DEF keys, found
    <3>9. PICK K, F : K = keys /\ F = found
      OBVIOUS
    <3>10. /\ K = {k \in DOMAIN catalog : s.lane = "program" /\ Covered(catalog[k], s.now)}
           /\ F = {f[i] : i \in 1 .. Len(f)}
           /\ F \subseteq K /\ \A k \in K \ F : Len(f) = s.maximum /\ \A x \in F : x < k
      BY <3>6, <3>8, <3>9 DEF keys, found
    <3>11. \A k \in DOMAIN catalog : Covered(catalog[k], s.now)' = Covered(catalog[k], s.now)
      BY <1>1, <3>1, <3>2 DEF Covered
    <3>12. /\ listed' = s /\ listed'.found = f /\ catalog' = catalog
           /\ K = {k \in DOMAIN catalog' : listed'.lane = "program" /\ Covered(catalog[k], listed.now)'}
           /\ F = {listed'.found[i] : i \in 1 .. Len(listed'.found)}
      BY <1>1, <3>1, <3>2, <3>10 DEF Covered
    <3>. QED
      BY <3>3, <3>4, <3>7, <3>10, <3>12 DEF ListedIsCovered
  <2>. QED
    BY <2>1, <2>2, Zenon
<1>3. CatalogOK' /\ BufferOK' /\ DeliveredOK'
  <2>1. CatalogOK'
    BY <1>0, <1>1 DEF CatalogOK
  <2>. QED
    BY <1>0, <1>1, <2>1, DeliveriesStay, Zenon
<1>. QED
  BY <1>0, <1>2, <1>3, Zenon DEF CatalogInv, NoScan

\* Insert adds an object under its key while no call is in progress.
LEMMA InsertStep ==
    ASSUME CatalogInv, NEW o \in CatalogObjects, Insert(o)
    PROVE  CatalogInv'
<1>0. /\ CatalogOK /\ BufferOK /\ DeliveredOK
      /\ scan = NoScan /\ scan' = NoScan /\ listed' = NoScan
      /\ catalog' = With(catalog, o.key, o)
      /\ UNCHANGED <<buffer, buffered_bytes, pushing, delivered, pushes>>
      /\ UNCHANGED <<valid, delivery_now>>
  BY Zenon DEF Insert, CatalogInv, deliveryVars
<1>1. o.key \in Nat
  BY CatalogAssumption
<1>2. /\ DOMAIN catalog' = DOMAIN catalog \cup {o.key} /\ catalog'[o.key] = o
      /\ \A k \in DOMAIN catalog : catalog'[k] = o \/ catalog'[k] = catalog[k]
  BY <1>0 DEF With
<1>3. IsFiniteSet(DOMAIN catalog')
  <2>1. PICK S, k : S = DOMAIN catalog /\ k = o.key
    OBVIOUS
  <2>2. IsFiniteSet(S)
    BY <1>0, <2>1, Zenon DEF CatalogOK
  <2>3. IsFiniteSet(S \cup {k})
    BY <2>2, FS_AddElement
  <2>. QED
    BY <1>2, <2>1, <2>3, Zenon
<1>4. CatalogOK'
  BY <1>0, <1>1, <1>2, <1>3 DEF CatalogOK
<1>5. BufferOK' /\ DeliveredOK'
  BY <1>0, DeliveriesStay, Zenon
<1>6. ListedIsCovered' /\ (scan # NoScan => ScanOK(scan))'
  BY <1>0, Zenon DEF ListedIsCovered, NoScan
<1>. QED
  BY <1>4, <1>5, <1>6, Zenon DEF CatalogInv

\* The registry takes the lease away: the call in progress is told apart.
LEMMA InvalidateStep ==
    ASSUME CatalogInv, Invalidate
    PROVE  CatalogInv'
<1>0. /\ CatalogOK /\ BufferOK /\ DeliveredOK /\ ListedIsCovered /\ (scan # NoScan => ScanOK(scan))
      /\ valid' = FALSE /\ listed' = listed /\ catalog' = catalog /\ delivery_now' = delivery_now
      /\ scan' = IF scan = NoScan THEN scan ELSE [scan EXCEPT !.revoked = TRUE]
      /\ UNCHANGED <<buffer, buffered_bytes, pushing, delivered, pushes>>
  BY Zenon DEF Invalidate, CatalogInv, deliveryVars
<1>1. CatalogOK'
  BY <1>0 DEF CatalogOK
<1>2. BufferOK' /\ DeliveredOK' /\ ListedIsCovered'
  BY <1>0, DeliveriesStay, ListedStays, Zenon
<1>3. (scan # NoScan => ScanOK(scan))'
  <2>1. CASE scan = NoScan
    BY <1>0, <2>1, Zenon DEF NoScan
  <2>2. CASE scan # NoScan
    <3>1. PICK s, t : s = scan /\ t = scan'
      OBVIOUS
    <3>2. /\ s \in Scans /\ Len(s.found) <= s.maximum /\ t = [s EXCEPT !.revoked = TRUE]
          /\ Walk(s.found, s.rest, LaneSet(s.lane), CoveredKeys(s))
      BY <1>0, <2>2, <3>1, Zenon DEF ScanOK
    <3>3. /\ t \in Scans /\ t.found = s.found /\ t.rest = s.rest /\ t.lane = s.lane
          /\ t.now = s.now /\ t.maximum = s.maximum
      BY <3>2 DEF Scans
    <3>4. Walk(t.found, t.rest, LaneSet(t.lane), CoveredKeys(t)) /\ Len(t.found) <= t.maximum
      BY <3>2, <3>3 DEF CoveredKeys
    <3>5. LaneSet(scan.lane)' = LaneSet(t.lane) /\ CoveredKeys(scan)' = CoveredKeys(t)
      BY <1>0, <3>1 DEF LaneSet, CoveredKeys, Covered
    <3>. QED
      BY <1>0, <3>1, <3>3, <3>4, <3>5, Zenon DEF ScanOK, Scans
  <2>. QED
    BY <2>1, <2>2, Zenon
<1>. QED
  BY <1>1, <1>2, <1>3, Zenon DEF CatalogInv

\* Time passes.
LEMMA ElapseStep ==
    ASSUME CatalogInv, DeliveryElapse
    PROVE  CatalogInv'
<1>0. /\ CatalogOK /\ BufferOK /\ DeliveredOK /\ ListedIsCovered /\ (scan # NoScan => ScanOK(scan))
      /\ UNCHANGED <<catalog, scan, listed, valid>> /\ delivery_now' = delivery_now + 1
      /\ UNCHANGED <<buffer, buffered_bytes, pushing, delivered, pushes>>
  BY Zenon DEF DeliveryElapse, CatalogInv, deliveryVars
<1>1. CatalogOK'
  BY <1>0 DEF CatalogOK
<1>2. BufferOK' /\ DeliveredOK' /\ ListedIsCovered' /\ (scan # NoScan => ScanOK(scan))'
  BY <1>0, DeliveriesStay, ListedStays, ScanStays, Zenon
<1>. QED
  BY <1>1, <1>2, Zenon DEF CatalogInv
-----------------------------------------------------------------------------
\* What a step of the delivery buffer leaves alone.
LEMMA CatalogStays ==
    ASSUME CatalogInv, UNCHANGED <<catalog, scan, listed, valid, delivery_now>>, BufferOK', DeliveredOK'
    PROVE  CatalogInv'
<1>0. CatalogOK /\ ListedIsCovered /\ (scan # NoScan => ScanOK(scan))
  BY Zenon DEF CatalogInv
<1>1. CatalogOK'
  BY <1>0 DEF CatalogOK
<1>2. ListedIsCovered' /\ (scan # NoScan => ScanOK(scan))'
  BY <1>0, ListedStays, ScanStays, Zenon
<1>. QED
  BY <1>1, <1>2, Zenon DEF CatalogInv

\* An object that was authorized waits to be buffered.
LEMMA AuthorizeStep ==
    ASSUME CatalogInv, NEW o \in CatalogObjects, AuthorizePush(o)
    PROVE  CatalogInv'
<1>1. /\ UNCHANGED <<catalog, scan, listed, valid, delivery_now>> /\ pushing' = o
      /\ UNCHANGED <<buffer, buffered_bytes, delivered, pushes>>
  BY Zenon DEF AuthorizePush
<1>2. BufferOK /\ DeliveredOK
  BY Zenon DEF CatalogInv
<1>3. BufferOK'
  BY <1>1, <1>2 DEF BufferOK, BytesIn
<1>4. DeliveredOK'
  BY <1>1, <1>2 DEF DeliveredOK
<1>. QED
  BY <1>1, <1>3, <1>4, CatalogStays, Zenon

\* A purge leaves an empty buffer and no bytes.
LEMMA ClearStep ==
    ASSUME CatalogInv, Clear, UNCHANGED <<catalog, scan, listed, valid, delivery_now>>,
           UNCHANGED <<pushing, delivered, pushes>>
    PROVE  CatalogInv'
<1>1. BufferOK /\ DeliveredOK
  BY Zenon DEF CatalogInv
<1>2. buffer' = <<>> /\ buffered_bytes' = 0
  BY Zenon DEF Clear
<1>3. PICK b : b = buffer'
  OBVIOUS
<1>4. b = <<>> /\ b \in Seq(BufferEntry) /\ Len(b) = 0 /\ 1 .. Len(b) = {} /\ BytesIn(b) = 0
  BY <1>2, <1>3, NoBytes
<1>5. {MaxDeliveryObjects, MaxDeliveryBytes} \subseteq Nat
  BY CatalogAssumption
<1>6. BytesIn(buffer)' = BytesIn(b)
  BY <1>3 DEF BytesIn
<1>7. BufferOK'
  <2>1. /\ buffer' \in Seq(BufferEntry) /\ pushes' \in Nat /\ pushing' \in CatalogObjects \cup {NoScan}'
        /\ buffered_bytes' = BytesIn(buffer)' /\ buffered_bytes' \in Nat
    BY <1>1, <1>2, <1>3, <1>4, <1>6 DEF BufferOK, NoScan
  <2>2. buffered_bytes' <= MaxDeliveryBytes /\ Len(buffer') <= MaxDeliveryObjects
    BY <1>2, <1>3, <1>4, <1>5
  <2>3. \A i \in 1 .. Len(buffer') : FALSE
    BY <1>3, <1>4
  <2>. QED
    BY <2>1, <2>2, <2>3, Zenon DEF BufferOK
<1>8. DeliveredOK'
  BY <1>1, <1>3, <1>4 DEF DeliveredOK
<1>. QED
  BY <1>7, <1>8, CatalogStays, Zenon

\* What an entry, a buffer and the deliveries hold.
Deliveries == [entry : BufferEntry, at : Nat]

LEMMA EntryFields ==
    /\ \A e \in BufferEntry : e.object \in CatalogObjects /\ e.push \in Nat
    /\ \A d \in Deliveries : d.entry \in BufferEntry /\ d.at \in Nat
<1>1. \A e \in BufferEntry : e.object \in CatalogObjects /\ e.push \in Nat
  BY DEF BufferEntry
<1>2. \A d \in Deliveries : d.entry \in BufferEntry /\ d.at \in Nat
  BY DEF Deliveries
<1>. QED
  BY <1>1, <1>2

LEMMA ElementsOf ==
    ASSUME NEW T, NEW s \in Seq(T)
    PROVE  \A i \in 1 .. Len(s) : s[i] \in T
  OBVIOUS

\* The first entry of a buffer holds an object.
LEMMA FirstIsAnObject ==
    \A b \in Seq(BufferEntry) : b # <<>> => Head(b).object \in CatalogObjects
<1>1. ASSUME NEW b \in Seq(BufferEntry), b # <<>>
      PROVE  Head(b) \in BufferEntry
  BY <1>1
<1>. QED
  BY <1>1, EntryFields, Zenon

\* The same order, written the other way round.
LEMMA TimeIsLeft ==
    \A o \in CatalogObjects, when \in Nat : o.deadline > when => when < o.deadline
<1>1. \A o \in CatalogObjects : o.deadline \in Nat
  BY CatalogAssumption
<1>. QED
  BY <1>1

\* The object at the front moves to the deliveries.
LEMMA DeliverStep ==
    ASSUME CatalogInv, UNCHANGED <<catalog, scan, listed, valid, delivery_now>>,
           UNCHANGED <<pushing, pushes>>,
           buffer # <<>>, buffer' = Tail(buffer),
           buffered_bytes' = buffered_bytes - Head(buffer).object.bytes,
           delivered' = Append(delivered, [entry |-> Head(buffer), at |-> delivery_now]),
           delivery_now < Head(buffer).object.deadline, delivery_now < Lease.expires
    PROVE  CatalogInv'
<1>1. BufferOK /\ DeliveredOK /\ CatalogOK
  BY Zenon DEF CatalogInv
<1>2. PICK b, c, n : b = buffer /\ c = buffer' /\ n = Len(buffer)
  OBVIOUS
<1>3. /\ b \in Seq(BufferEntry) /\ n \in Nat /\ pushes \in Nat /\ pushing \in CatalogObjects \cup {NoScan}
      /\ buffered_bytes = BytesIn(b) /\ buffered_bytes \in Nat /\ buffered_bytes <= MaxDeliveryBytes
      /\ n <= MaxDeliveryObjects /\ n = Len(b) /\ b # <<>>
      /\ \A i, j \in 1 .. n : i < j => b[i].push < b[j].push
      /\ \A i \in 1 .. n : b[i].push <= pushes
  BY <1>1, <1>2 DEF BufferOK
<1>4. \A i \in 1 .. n : b[i] \in BufferEntry /\ b[i].push \in Nat
  BY <1>3, ElementsOf, EntryFields, Zenon
<1>5. /\ n > 0 /\ c \in Seq(BufferEntry) /\ Len(c) = n - 1 /\ Head(b) = b[1] /\ 1 \in 1 .. n
      /\ \A i \in 1 .. (n - 1) : c[i] = b[i + 1] /\ i + 1 \in 1 .. n
  BY <1>2, <1>3
<1>6. BytesIn(c) = BytesIn(b) - b[1].object.bytes /\ BytesIn(c) \in Nat
  BY <1>2, <1>3, <1>5, BytesMove
<1>7. b[1].object.bytes \in Nat
  <2>1. b[1].object \in CatalogObjects
    BY <1>4, <1>5 DEF BufferEntry
  <2>. QED
    BY <2>1, CatalogAssumption
<1>8. buffered_bytes' = BytesIn(c) /\ buffered_bytes' \in Nat /\ buffered_bytes' <= MaxDeliveryBytes
  <2>1. MaxDeliveryBytes \in Nat
    BY CatalogAssumption
  <2>. QED
    BY <1>2, <1>3, <1>5, <1>6, <1>7, <2>1
<1>9. Len(c) <= MaxDeliveryObjects
  <2>1. MaxDeliveryObjects \in Nat
    BY CatalogAssumption
  <2>. QED
    BY <1>3, <1>5, <2>1
<1>10. /\ \A i, j \in 1 .. Len(c) : i < j => c[i].push < c[j].push
       /\ \A i \in 1 .. Len(c) : c[i].push <= pushes /\ b[1].push < c[i].push
  <2>1. ASSUME NEW i \in 1 .. Len(c), NEW j \in 1 .. Len(c), i < j
        PROVE  c[i].push < c[j].push
    <3>1. i + 1 \in 1 .. n /\ j + 1 \in 1 .. n /\ i + 1 < j + 1 /\ c[i] = b[i + 1] /\ c[j] = b[j + 1]
      BY <1>3, <1>5, <2>1
    <3>. QED
      BY <1>3, <3>1, Zenon
  <2>2. ASSUME NEW i \in 1 .. Len(c)
        PROVE  c[i].push <= pushes /\ b[1].push < c[i].push
    <3>1. i + 1 \in 1 .. n /\ 1 < i + 1 /\ c[i] = b[i + 1]
      BY <1>3, <1>5
    <3>. QED
      BY <1>3, <1>5, <3>1, Zenon
  <2>. QED
    BY <2>1, <2>2
<1>11. BufferOK'
  <2>1. BytesIn(buffer)' = BytesIn(c) /\ pushes' \in Nat /\ pushing' \in CatalogObjects \cup {NoScan}'
    BY <1>2, <1>3 DEF BytesIn, NoScan
  <2>. QED
    BY <1>2, <1>5, <1>8, <1>9, <1>10, <2>1, Zenon DEF BufferOK
<1>12. PICK d, m, a, e : d = delivered /\ m = Len(d) /\ a = delivered' /\ e = [entry |-> b[1], at |-> delivery_now]
  OBVIOUS
<1>a. d \in Seq([entry : BufferEntry, at : Nat])
  BY <1>1, <1>12, Zenon DEF DeliveredOK
<1>b. m \in Nat
  BY <1>12, <1>a
<1>13. /\ d \in Seq([entry : BufferEntry, at : Nat]) /\ m \in Nat
       /\ \A i, j \in 1 .. m : i < j => d[i].entry.push < d[j].entry.push
       /\ \A i \in 1 .. m : d[i].entry.push <= pushes
       /\ \A i \in 1 .. m, j \in 1 .. n : d[i].entry.push < b[j].push
       /\ \A i \in 1 .. m : d[i].at < d[i].entry.object.deadline /\ d[i].at < Lease.expires
  BY <1>1, <1>2, <1>12, <1>a, <1>b, Zenon DEF DeliveredOK
<1>14. /\ e \in [entry : BufferEntry, at : Nat] /\ e.entry = b[1] /\ e.at = delivery_now
       /\ e.at < e.entry.object.deadline /\ e.at < Lease.expires
  <2>1. delivery_now \in Nat
    BY <1>1 DEF CatalogOK
  <2>. QED
    BY <1>2, <1>4, <1>5, <1>12, <2>1
<1>15. /\ a \in Seq([entry : BufferEntry, at : Nat]) /\ Len(a) = m + 1
       /\ \A i \in 1 .. (m + 1) : (i = m + 1 /\ a[i] = e) \/ (i \in 1 .. m /\ a[i] = d[i])
  <2>1. a = Append(d, e)
    BY <1>2, <1>5, <1>12
  <2>2. Len(a) = m + 1 /\ a \in Seq([entry : BufferEntry, at : Nat])
    BY <1>12, <1>13, <1>14, <2>1
  <2>. QED
    BY <1>12, <1>13, <1>14, <2>1, <2>2
<1>16. ASSUME NEW i \in 1 .. Len(a), NEW j \in 1 .. Len(a), i < j
       PROVE  a[i].entry.push < a[j].entry.push
  <2>1. i \in 1 .. m /\ a[i] = d[i]
    BY <1>13, <1>15, <1>16
  <2>2. CASE j = m + 1
    BY <1>5, <1>13, <1>14, <1>15, <2>1, <2>2
  <2>3. CASE j # m + 1
    BY <1>13, <1>15, <1>16, <2>1, <2>3
  <2>. QED
    BY <2>2, <2>3
<1>17. ASSUME NEW i \in 1 .. Len(a)
       PROVE  /\ a[i].entry.push <= pushes
              /\ \A j \in 1 .. Len(c) : a[i].entry.push < c[j].push
              /\ a[i].at < a[i].entry.object.deadline /\ a[i].at < Lease.expires
  <2>1. CASE i = m + 1 /\ a[i] = e
    BY <1>3, <1>5, <1>10, <1>14, <2>1
  <2>2. CASE i \in 1 .. m /\ a[i] = d[i]
    <3>1. \A j \in 1 .. Len(c) : j + 1 \in 1 .. n /\ c[j] = b[j + 1]
      BY <1>3, <1>5
    <3>. QED
      BY <1>13, <2>2, <3>1
  <2>. QED
    BY <1>15, <2>1, <2>2
<1>18. DeliveredOK'
  BY <1>2, <1>12, <1>15, <1>16, <1>17, Zenon DEF DeliveredOK
<1>. QED
  BY <1>11, <1>18, CatalogStays, Zenon

\* Push buffers the object when it fits, and counts its bytes.
LEMMA PushStep ==
    ASSUME CatalogInv, Push
    PROVE  CatalogInv'
<1>1. /\ UNCHANGED <<catalog, scan, listed, valid, delivery_now>> /\ delivered' = delivered
      /\ pushing # NoScan /\ pushing' = NoScan /\ pushes' = pushes + 1
      /\ IF Fits(pushing)
         THEN /\ buffer' = Append(buffer, [object |-> pushing, push |-> pushes'])
              /\ buffered_bytes' = buffered_bytes + pushing.bytes
         ELSE UNCHANGED <<buffer, buffered_bytes>>
  BY Zenon DEF Push
<1>2. BufferOK /\ DeliveredOK
  BY Zenon DEF CatalogInv
<1>3. PICK b, c, n, o : b = buffer /\ c = buffer' /\ n = Len(buffer) /\ o = pushing
  OBVIOUS
<1>4. /\ b \in Seq(BufferEntry) /\ n \in Nat /\ pushes \in Nat /\ o \in CatalogObjects
      /\ buffered_bytes = BytesIn(b) /\ buffered_bytes \in Nat /\ buffered_bytes <= MaxDeliveryBytes
      /\ n <= MaxDeliveryObjects /\ n = Len(b)
      /\ \A i, j \in 1 .. n : i < j => b[i].push < b[j].push
      /\ \A i \in 1 .. n : b[i].push <= pushes
  BY <1>1, <1>2, <1>3 DEF BufferOK
<1>5. \A i \in 1 .. n : b[i] \in BufferEntry /\ b[i].push \in Nat
  BY <1>4, ElementsOf, EntryFields, Zenon
<1>6. /\ delivered \in Seq([entry : BufferEntry, at : Nat])
      /\ \A i, j \in 1 .. Len(delivered) : i < j => delivered[i].entry.push < delivered[j].entry.push
      /\ \A i \in 1 .. Len(delivered) : delivered[i].entry.push <= pushes
      /\ \A i \in 1 .. Len(delivered), j \in 1 .. n : delivered[i].entry.push < b[j].push
      /\ \A i \in 1 .. Len(delivered) : /\ delivered[i].at < delivered[i].entry.object.deadline
                                        /\ delivered[i].at < Lease.expires
  BY <1>2, <1>3, Zenon DEF DeliveredOK
<1>7. \A i \in 1 .. Len(delivered) : delivered[i].entry.push \in Nat
  BY <1>6, ElementsOf, EntryFields, Zenon DEF Deliveries
<1>8. \A i \in 1 .. Len(delivered) : delivered[i].entry.push < pushes' /\ delivered[i].entry.push <= pushes'
  BY <1>1, <1>4, <1>6, <1>7
<1>9. CASE Fits(pushing)
  <2>1. PICK e : e = [object |-> o, push |-> pushes + 1]
    OBVIOUS
  <2>2. e \in BufferEntry /\ e.object = o /\ e.push = pushes + 1
    BY <1>4, <2>1 DEF BufferEntry
  <2>3. c = Append(b, e) /\ buffered_bytes' = buffered_bytes + o.bytes
    BY <1>1, <1>3, <1>9, <2>1
  <2>4. /\ c \in Seq(BufferEntry) /\ Len(c) = n + 1 /\ c[n + 1] = e
        /\ \A i \in 1 .. n : c[i] = b[i]
    BY <1>4, <2>2, <2>3
  <2>5. o.bytes \in Nat
    BY <1>4, CatalogAssumption
  <2>6. BytesIn(c) = BytesIn(b) + o.bytes
    BY <1>4, <2>2, <2>3, BytesMove, Zenon
  <2>7. n < MaxDeliveryObjects /\ buffered_bytes + o.bytes <= MaxDeliveryBytes
    BY <1>3, <1>9 DEF Fits
  <2>8. /\ buffered_bytes' = BytesIn(c) /\ buffered_bytes' \in Nat
        /\ buffered_bytes' <= MaxDeliveryBytes
    BY <1>4, <2>3, <2>5, <2>6, <2>7
  <2>9. Len(c) <= MaxDeliveryObjects
    <3>1. MaxDeliveryObjects \in Nat
      BY CatalogAssumption
    <3>. QED
      BY <1>4, <2>4, <2>7, <3>1
  <2>10. \A i \in 1 .. Len(c) : (i = n + 1 /\ c[i] = e) \/ (i \in 1 .. n /\ c[i] = b[i])
    BY <1>4, <2>4
  <2>11. \A i \in 1 .. Len(c) : c[i].push <= pushes'
    BY <1>1, <1>4, <1>5, <2>2, <2>10
  <2>12. ASSUME NEW i \in 1 .. Len(c), NEW j \in 1 .. Len(c), i < j
         PROVE  c[i].push < c[j].push
    <3>1. i \in 1 .. n /\ c[i] = b[i]
      BY <1>4, <2>4, <2>12
    <3>2. CASE j = n + 1
      <4>1. b[i].push \in Nat /\ b[i].push <= pushes /\ c[j].push = pushes + 1
        BY <1>4, <1>5, <2>2, <2>4, <3>1, <3>2
      <4>. QED
        BY <1>4, <3>1, <4>1
    <3>3. CASE j # n + 1
      <4>1. j \in 1 .. n /\ c[j] = b[j]
        BY <1>4, <2>4, <3>3
      <4>. QED
        BY <1>4, <2>12, <3>1, <4>1
    <3>. QED
      BY <3>2, <3>3
  <2>13. BufferOK'
    <3>1. BytesIn(buffer)' = BytesIn(c) /\ pushes' \in Nat
      BY <1>1, <1>3, <1>4 DEF BytesIn
    <3>2. pushing' \in CatalogObjects \cup {NoScan}'
      BY <1>1 DEF NoScan
    <3>. QED
      BY <1>3, <2>4, <2>8, <2>9, <2>11, <2>12, <3>1, <3>2, Zenon DEF BufferOK
  <2>14. \A i \in 1 .. Len(delivered), j \in 1 .. Len(c) : delivered[i].entry.push < c[j].push
    BY <1>1, <1>6, <1>8, <2>2, <2>10
  <2>15. DeliveredOK'
    BY <1>1, <1>3, <1>6, <1>8, <2>14, Zenon DEF DeliveredOK
  <2>. QED
    BY <1>1, <2>13, <2>15, CatalogStays, Zenon
<1>10. CASE ~Fits(pushing)
  <2>1. c = b /\ buffered_bytes' = buffered_bytes
    BY <1>1, <1>3, <1>10
  <2>2. \A i \in 1 .. n : b[i].push <= pushes'
    BY <1>1, <1>4, <1>5
  <2>3. BufferOK'
    <3>1. BytesIn(buffer)' = BytesIn(b) /\ pushes' \in Nat
      BY <1>1, <1>3, <1>4, <2>1 DEF BytesIn
    <3>2. pushing' \in CatalogObjects \cup {NoScan}'
      BY <1>1 DEF NoScan
    <3>. QED
      BY <1>3, <1>4, <2>1, <2>2, <3>1, <3>2, Zenon DEF BufferOK
  <2>4. DeliveredOK'
    BY <1>1, <1>3, <1>6, <1>8, <2>1, Zenon DEF DeliveredOK
  <2>. QED
    BY <1>1, <2>3, <2>4, CatalogStays, Zenon
<1>. QED
  BY <1>9, <1>10, Zenon

\* Pop delivers the object at the front, in time, or purges the buffer.
LEMMA PopStep ==
    ASSUME CatalogInv, Pop
    PROVE  CatalogInv'
<1>1. UNCHANGED <<catalog, scan, listed, valid, delivery_now>> /\ UNCHANGED <<pushing, pushes>>
  BY Zenon DEF Pop
<1>2. \/ Clear /\ delivered' = delivered
      \/ UNCHANGED <<buffer, buffered_bytes, delivered>>
      \/ /\ buffer # <<>> /\ buffer' = Tail(buffer)
         /\ Authorize(Head(buffer).object, "program", delivery_now) = ""
         /\ buffered_bytes' = buffered_bytes - Head(buffer).object.bytes
         /\ delivered' = Append(delivered, [entry |-> Head(buffer), at |-> delivery_now])
  BY Zenon DEF Pop
<1>3. BufferOK /\ DeliveredOK /\ CatalogOK
  BY Zenon DEF CatalogInv
<1>4. CASE Clear /\ delivered' = delivered
  BY <1>1, <1>4, ClearStep, Zenon
<1>5. CASE UNCHANGED <<buffer, buffered_bytes, delivered>>
  <2>1. BufferOK' /\ DeliveredOK'
    BY <1>1, <1>3, <1>5, DeliveriesStay, Zenon
  <2>. QED
    BY <1>1, <2>1, CatalogStays, Zenon
<1>6. ASSUME buffer # <<>>, buffer' = Tail(buffer),
             Authorize(Head(buffer).object, "program", delivery_now) = "",
             buffered_bytes' = buffered_bytes - Head(buffer).object.bytes,
             delivered' = Append(delivered, [entry |-> Head(buffer), at |-> delivery_now])
      PROVE  CatalogInv'
  <2>1. Head(buffer).object \in CatalogObjects
    <3>1. buffer \in Seq(BufferEntry)
      BY <1>3, Zenon DEF BufferOK
    <3>. QED
      BY <1>6, <3>1, FirstIsAnObject, Zenon
  <2>2. delivery_now < Head(buffer).object.deadline /\ delivery_now < Lease.expires
    BY <1>3, <1>6, <2>1, AuthorizedMeans, TimeIsLeft, Zenon DEF CatalogOK
  <2>. QED
    BY <1>1, <1>3, <1>6, <2>2, DeliverStep, Zenon
<1>. QED
  BY <1>2, <1>4, <1>5, <1>6, Zenon
-----------------------------------------------------------------------------
\* The invariant of the catalog and the delivery buffer: a call of visible() is a
\* walk of the keys of its lane that has found what the lease covers so far; the
\* byte count is the sum of the buffered objects; and every delivery was pushed
\* before all that is still buffered (PartitionedCatalog::visible and
\* AuthorizedDeliveryBuffer, subscribe_authorization.rs:1391-1542).
THEOREM CatalogInvariant == CatalogSpec => []CatalogInv
<1>1. CatalogInit => CatalogInv
  <2>. SUFFICES ASSUME CatalogInit
                PROVE  CatalogInv
    OBVIOUS
  <2>1. /\ catalog = EmptyMap /\ scan = NoScan /\ listed = NoScan
        /\ buffer = <<>> /\ buffered_bytes = 0 /\ pushing = NoScan /\ delivered = <<>>
        /\ pushes = 0 /\ valid = TRUE /\ delivery_now = 0
    BY DEF CatalogInit
  <2>2. DOMAIN catalog = {}
    BY <2>1 DEF EmptyMap
  <2>3. CatalogOK
    BY <2>1, <2>2, FS_EmptySet DEF CatalogOK
  <2>4. {MaxDeliveryObjects, MaxDeliveryBytes} \subseteq Nat
    BY CatalogAssumption
  <2>5. BytesIn(buffer) = 0
    BY <2>1, NoBytes, Zenon
  <2>6. Len(<<>>) = 0 /\ 1 .. Len(<<>>) = {}
    OBVIOUS
  <2>7. BufferOK
    BY <2>1, <2>4, <2>5, <2>6 DEF BufferOK
  <2>8. DeliveredOK
    BY <2>1, <2>6 DEF DeliveredOK
  <2>9. ListedIsCovered
    BY <2>1, Zenon DEF ListedIsCovered
  <2>. QED
    BY <2>1, <2>3, <2>7, <2>8, <2>9, Zenon DEF CatalogInv
<1>2. CatalogInv /\ [CatalogNext]_catalogVars => CatalogInv'
  <2>. SUFFICES ASSUME CatalogInv, [CatalogNext]_catalogVars
                PROVE  CatalogInv'
    OBVIOUS
  <2>1. CASE \E o \in CatalogObjects : Insert(o) \/ AuthorizePush(o)
    BY <2>1, InsertStep, AuthorizeStep, Zenon
  <2>2. CASE \E lane \in {"program", "talkback"}, maximum \in 1 .. MaxVisible : BeginVisible(lane, maximum)
    BY <2>2, BeginStep, Zenon
  <2>3. CASE VisitEntry \/ EndVisible \/ Invalidate \/ DeliveryElapse
    BY <2>3, VisitStep, EndStep, InvalidateStep, ElapseStep, Zenon
  <2>4. CASE Push \/ Pop
    BY <2>4, PushStep, PopStep, Zenon
  <2>5. CASE PurgeIfInvalid
    BY <2>5, ClearStep, Zenon DEF PurgeIfInvalid
  <2>6. CASE UNCHANGED catalogVars
    <3>1. /\ UNCHANGED <<catalog, scan, listed, valid, delivery_now>>
          /\ UNCHANGED <<buffer, buffered_bytes, pushing, delivered, pushes>>
      BY <2>6, Zenon DEF catalogVars, deliveryVars
    <3>2. BufferOK /\ DeliveredOK
      BY Zenon DEF CatalogInv
    <3>3. BufferOK' /\ DeliveredOK'
      BY <3>1, <3>2, DeliveriesStay, Zenon
    <3>. QED
      BY <3>1, <3>3, CatalogStays, Zenon
  <2>. QED
    BY <2>1, <2>2, <2>3, <2>4, <2>5, <2>6, Zenon DEF CatalogNext
<1>. QED
  BY <1>1, <1>2, PTL DEF CatalogSpec

\* For every catalog, lease and limit: a list that visible() returns is the first
\* `maximum` covered entries of the lane, under a lease no step of the call lost;
\* the delivery buffer's count is exact and within its limits, and deliveries are
\* in push order, before the object's deadline and the end of the lease
\* (subscribe_authorization.rs:1391-1542).
THEOREM SubscribersSeeTheirOwn == CatalogSpec => []SubscriberSeesItsOwn
<1>1. CatalogInv => SubscriberSeesItsOwn
  <2>. SUFFICES ASSUME CatalogInv
                PROVE  SubscriberSeesItsOwn
    OBVIOUS
  <2>1. BufferOK /\ DeliveredOK /\ ListedIsCovered
    BY Zenon DEF CatalogInv
  <2>2. buffered_bytes = SumFunction([i \in 1 .. Len(buffer) |-> buffer[i].object.bytes])
    <3>1. PICK f : f = [i \in 1 .. Len(buffer) |-> buffer[i].object.bytes]
      OBVIOUS
    <3>2. DOMAIN f = 1 .. Len(buffer)
      BY <3>1
    <3>3. SumFunction(f) = SumFunctionOnSet(f, DOMAIN f)
      BY DEF SumFunction, SumFunctionOnSet, FoldFunction
    <3>4. buffered_bytes = SumFunctionOnSet(f, 1 .. Len(buffer))
      BY <2>1, <3>1, Zenon DEF BufferOK, BytesIn
    <3>. QED
      BY <3>1, <3>2, <3>3, <3>4, Zenon
  <2>3. ASSUME NEW i \in 1 .. Len(delivered)
        PROVE  delivered[i].at < Min({delivered[i].entry.object.deadline, Lease.expires})
    <3>1. PICK d, x, y : d = delivered[i].at /\ x = delivered[i].entry.object.deadline /\ y = Lease.expires
      OBVIOUS
    <3>2. d < x /\ d < y
      BY <2>1, <2>3, <3>1, Zenon DEF DeliveredOK
    <3>3. delivered[i].entry.object \in CatalogObjects
      <4>1. delivered \in Seq(Deliveries)
        BY <2>1, Zenon DEF DeliveredOK, Deliveries
      <4>. QED
        BY <4>1, ElementsOf, EntryFields, Zenon
    <3>4. x \in Int /\ y \in Int
      BY <3>1, <3>3, CatalogAssumption
    <3>5. Min({x, y}) = IF x <= y THEN x ELSE y
      BY <3>4, MinOfTwo
    <3>6. d < Min({x, y})
      BY <3>2, <3>5, Zenon
    <3>. QED
      BY <3>1, <3>6, Zenon
  <2>. QED
    BY <2>1, <2>2, <2>3, Zenon DEF SubscriberSeesItsOwn, DeliveryExact, BufferOK, DeliveredOK
<1>. QED
  BY <1>1, CatalogInvariant, PTL
=============================================================================
