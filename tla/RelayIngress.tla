---------------------------- MODULE RelayIngress ----------------------------
(***************************************************************************)
(* The bounded cross-parent object receiver of a RelaySession node         *)
(* (src/relay_ingress.rs): symbols of one media object arrive from a       *)
(* primary and a secondary parent, late, repeated or in any order, and the *)
(* object is decoded once.                                                 *)
(*                                                                         *)
(* The receiver belongs to one task, so every call is one step.  Its       *)
(* tables are kept in the record rx and its operations are operators from  *)
(* one rx to the next, because push() chains them: a late symbol first     *)
(* expires other objects, and a controlled session first announces the     *)
(* object its symbol belongs to.                                           *)
(*                                                                         *)
(* Counters (snapshot) and the decoded bytes are left out; a symbol's      *)
(* fingerprint (hash and role) is its content.  The RaptorQ assembler is   *)
(* external: it may need more than the minimum of symbols to decode.       *)
(*                                                                         *)
(* A definition named Bug... is a deliberately wrong variant of the        *)
(* definition that follows it: it shows that a property can fail.          *)
(***************************************************************************)
EXTENDS Integers, Sequences, FiniteSets, Functions, Maps

CONSTANTS
  Keys,             \* ObjectKey
  LogicalOf,        \* its LogicalObjectIdentity: the key without the payload hash
  Profiles,         \* what a symbol says of its object (see ProfileSet)
  SessionRecords,   \* the parent sessions a caller may register (see SessionSet)
  Seqs, Contents,   \* packet sequences and fingerprints of symbols
  Intents,          \* path intents of symbols
  Permitted,        \* ParentPath::permits, as pairs <<path, intent>>
  Cursors,          \* the repair cursor fields of an announcement; a symbol has 0
  MaxSessions, MaxActive, MaxParents, MaxPerObject, MaxBuffered, MaxBytes,
  MaxCompleted,     \* RelayObjectReceiverConfig
  Inactivity,       \* object_inactivity_timeout_us
  ScanInterval,     \* expiry_scan_interval_us
  MaxTime,          \* bound: readings of the wall clock
  MaxDelivered      \* bound: decoded objects

Never == -1

\* RelayObjectReceiverConfig::validate
ValidConfig ==
  /\ MaxSessions \in Nat \ {0}
  /\ MaxActive \in Nat \ {0}
  /\ MaxParents \in 1..2
  /\ MaxPerObject \in Nat \ {0}
  /\ MaxBuffered \in Nat \ {0}
  /\ MaxBytes \in Nat \ {0}
  /\ MaxCompleted \in Nat \ {0}
  /\ Inactivity \in Nat \ {0}
  /\ ScanInterval \in Nat \ {0}

ASSUME ConfigAssumption == ValidConfig

\* A profile: the key, the generation and subscription, the deadline, the
\* transfer length, the number of source symbols, and whether the announced
\* kind is the kind of the object that will be decoded.
ProfileSet == [key : Keys, binding : {p.binding : p \in Profiles}, deadline : Nat,
               length : Nat, symbols : Nat \ {0}, kind_ok : BOOLEAN]

SessionSet == [id : Nat \ {0}, peer : {s.peer : s \in SessionRecords},
               path : {s.path : s \in SessionRecords},
               binding : {s.binding : s \in SessionRecords}, controlled : BOOLEAN]

ASSUME InputAssumption ==
  /\ LogicalOf \in [Keys -> {LogicalOf[k] : k \in Keys}]
  /\ Profiles \subseteq ProfileSet
  /\ SessionRecords \subseteq SessionSet
  /\ 0 \in Cursors
  /\ MaxTime \in Nat
  /\ MaxDelivered \in Nat

VARIABLES
  sessions,    \* session id -> registered session
  rx,          \* the object tables
  now,         \* now_unix_us(), which may step in either direction
  delivered    \* history: the keys of the decoded objects, in order

vars == <<sessions, rx, now, delivered>>

SessionIds == {s.id : s \in SessionRecords}
Announcement == [profile : Profiles, cursor : Cursors]
Symbol == [profile : Profiles, seq : Seqs, content : Contents, intent : Intents]

(***************************************************************************)
(* Tables.                                                                 *)
(***************************************************************************)
SaturatingSub(a, b) == IF a >= b THEN a - b ELSE 0

EmptyRx == [objects |-> EmptyMap, logical_keys |-> EmptyMap,
            completed |-> EmptyMap, completed_order |-> <<>>,
            buffered_object_bytes |-> 0, buffered_datagrams |-> 0,
            next_expiry_scan |-> Never]

KeyOf(a)     == a.profile.key
LengthOf(o)  == o.announcement.profile.length
Late(p)      == p.deadline <= now

\* What each object has reserved: its transfer length, and the symbols retained.
Lengths(objects)  == [k \in DOMAIN objects |-> LengthOf(objects[k])]
Retained(objects) == [k \in DOMAIN objects |-> Cardinality(DOMAIN objects[k].symbols)]

\* remove_active_object for a set of keys: what they reserved is released.
RemoveActive(r, gone) ==
  [r EXCEPT
     !.objects = Without(@, gone),
     !.buffered_object_bytes = SaturatingSub(@, SumFunctionOnSet(Lengths(r.objects), gone)),
     !.buffered_datagrams = SaturatingSub(@, SumFunctionOnSet(Retained(r.objects), gone))]

Forget(r, gone) ==
  [r EXCEPT !.logical_keys = Without(@, {LogicalOf[k] : k \in gone})]

\* The objects expire() removes: past their deadline, or without activity.
Lapsed(o) ==
  Late(o.announcement.profile) \/ SaturatingSub(now, o.last_activity) >= Inactivity

LapsedKeys(r) == {k \in DOMAIN r.objects : Lapsed(r.objects[k])}

\* RelayObjectReceiver::expire
Expire(r) ==
  [Forget(RemoveActive(r, LapsedKeys(r)), LapsedKeys(r))
     EXCEPT !.next_expiry_scan = now + ScanInterval]

\* RelayObjectReceiver::expire_if_due
ExpireIfDue(r) ==
  IF r.next_expiry_scan = Never \/ now >= r.next_expiry_scan THEN Expire(r) ELSE r

(***************************************************************************)
(* Announcements.                                                          *)
(***************************************************************************)

\* add_parent_to_set: a second parent has another path, and another identity
\* unless both sessions are controlled.
CanJoin(parents, s) ==
  \/ s.id \in parents
  \/ /\ Cardinality(parents) < MaxParents
     /\ \A e \in parents :
          /\ sessions[e].peer # s.peer \/ (sessions[e].controlled /\ s.controlled)
          /\ sessions[e].path # s.path

\* Another key claims the same logical identity.
Conflicting(r, k) ==
  LogicalOf[k] \in DOMAIN r.logical_keys /\ r.logical_keys[LogicalOf[k]] # k

\* The three ways try_announce_object succeeds, after expiry and validation
MayRejoin(r, s, a) ==
  /\ KeyOf(a) \in DOMAIN r.completed
  /\ r.completed[KeyOf(a)].announcement = a
  /\ CanJoin(r.completed[KeyOf(a)].parents, s)

MayJoin(r, s, a) ==
  /\ KeyOf(a) \in DOMAIN r.objects \ DOMAIN r.completed
  /\ ~Late(a.profile)
  /\ r.objects[KeyOf(a)].announcement = a
  /\ CanJoin(r.objects[KeyOf(a)].parents, s)

MayStart(r, s, a) ==
  /\ KeyOf(a) \notin DOMAIN r.objects \cup DOMAIN r.completed
  /\ ~Late(a.profile)
  /\ Cardinality(DOMAIN r.objects) < MaxActive
  /\ r.buffered_object_bytes + a.profile.length <= MaxBytes

\* Announcements of keys whose logical identity is taken are let through.
BugAnnounceAdmissible(r, s, a) == a.profile.binding = s.binding

\* validate_session_announcement and the identity check
AnnounceAdmissible(r, s, a) ==
  a.profile.binding = s.binding /\ ~Conflicting(r, KeyOf(a))

AnnounceOk(r, s, a) ==
  /\ AnnounceAdmissible(r, s, a)
  /\ MayRejoin(r, s, a) \/ MayJoin(r, s, a) \/ MayStart(r, s, a)

AddParent(o, s)   == [o EXCEPT !.parents = @ \cup {s.id}]
Touched(o)        == [o EXCEPT !.last_activity = now]
NewAssembly(s, a) == [announcement |-> a, parents |-> {s.id}, symbols |-> EmptyMap,
                      assembled |-> FALSE, last_activity |-> now]

Rejoin(r, s, a) == [r EXCEPT !.completed[KeyOf(a)] = AddParent(@, s)]

Join(r, s, a) == [r EXCEPT !.objects[KeyOf(a)] = Touched(AddParent(@, s))]

Start(r, s, a) ==
  [r EXCEPT
     !.objects = With(@, KeyOf(a), NewAssembly(s, a)),
     !.logical_keys = With(@, LogicalOf[KeyOf(a)], KeyOf(a)),
     !.buffered_object_bytes = @ + a.profile.length]

\* try_announce_object once expire_if_due has run; a rejected announcement
\* changes nothing else.
Announced(r, s, a) ==
  IF ~AnnounceOk(r, s, a) THEN r
  ELSE IF MayRejoin(r, s, a) THEN Rejoin(r, s, a)
  ELSE IF MayJoin(r, s, a) THEN Join(r, s, a)
  ELSE Start(r, s, a)

(***************************************************************************)
(* Symbols.                                                                *)
(***************************************************************************)
\* validate_session_symbol
SymbolPermitted(s, y) ==
  y.profile.binding = s.binding /\ <<s.path, y.intent>> \in Permitted

\* A symbol that gets past the tombstones and the deadline ...
PastTombstones(r, s, y) ==
  /\ SymbolPermitted(s, y)
  /\ ~Conflicting(r, y.profile.key)
  /\ y.profile.key \notin DOMAIN r.completed

\* ... and is handed to the assembler: announced, from one of the object's
\* parents, not seen before, and within both datagram limits.
Fresh(r, s, y) ==
  /\ PastTombstones(r, s, y)
  /\ ~Late(y.profile)
  /\ y.profile.key \in DOMAIN r.objects
  /\ LET o == r.objects[y.profile.key]
     IN  /\ s.id \in o.parents
         /\ y.seq \notin DOMAIN o.symbols
         /\ Cardinality(DOMAIN o.symbols) < MaxPerObject
  /\ r.buffered_datagrams < MaxBuffered

\* ObjectAssembler::push_symbol (external): it refuses a symbol of another
\* profile, and anything may come of a symbol after completion but a second
\* object.
AssemblerMay(o, y, result) ==
  \/ result = "error"   /\ (y.profile # o.announcement.profile \/ o.assembled)
  \/ result = "none"    /\ y.profile = o.announcement.profile
  \/ /\ result = "object"
     /\ y.profile = o.announcement.profile
     /\ ~o.assembled
     /\ Cardinality(DOMAIN o.symbols) + 1 >= y.profile.symbols

\* The symbol is retained and counted.
AddSymbol(o, y, assembled) ==
  [o EXCEPT !.symbols = With(@, y.seq, y.content), !.assembled = assembled]

Admit(r, y, assembled) ==
  [r EXCEPT !.objects[y.profile.key] = Touched(AddSymbol(@, y, assembled)),
            !.buffered_datagrams = @ + 1]

\* insert_completed: the oldest tombstones make room for the new one.
InsertCompleted(r, k, tombstone) ==
  LET n == IF Cardinality(DOMAIN r.completed) >= MaxCompleted
             THEN Cardinality(DOMAIN r.completed) - MaxCompleted + 1 ELSE 0
      evicted == {r.completed_order[i] : i \in 1..n}
      kept    == Forget(r, evicted)
  IN  [kept EXCEPT
         !.completed = With(Without(@, evicted), k, tombstone),
         !.completed_order = Append(SubSeq(@, n + 1, Len(@)), k)]

\* The object is complete: its assembly is released, its identity is kept by
\* the tombstone.
Complete(r, k) ==
  LET o == r.objects[k]
  IN  InsertCompleted(RemoveActive(r, {k}), k,
                      [announcement |-> o.announcement, parents |-> o.parents])

\* A symbol is decoded into an object of the announced kind.
Decodes(r, s, y, result) ==
  /\ Fresh(r, s, y)
  /\ result = "object"
  /\ r.objects[y.profile.key].announcement.profile.kind_ok

\* try_push_wire_datagram once expire_if_due has run.  An object of the wrong
\* kind is refused after its last symbol was retained.
Pushed(r, s, y, result) ==
  IF PastTombstones(r, s, y) /\ Late(y.profile) THEN Expire(r)
  ELSE IF ~Fresh(r, s, y) \/ result = "error" THEN r
  ELSE IF Decodes(r, s, y, result) THEN Complete(Admit(r, y, TRUE), y.profile.key)
  ELSE Admit(r, y, r.objects[y.profile.key].assembled \/ result = "object")

\* What the assembler may answer, and the bound on decoded objects.
ResultPossible(r, s, y, result) ==
  /\ Fresh(r, s, y) => AssemblerMay(r.objects[y.profile.key], y, result)
  /\ ~Fresh(r, s, y) => result = "none"
  /\ Decodes(r, s, y, result) => Len(delivered) < MaxDelivered

Deliver(r, s, y, result) ==
  delivered' = IF Decodes(r, s, y, result) THEN Append(delivered, y.profile.key)
               ELSE delivered

-----------------------------------------------------------------------------
(***************************************************************************)
(* The calls.                                                              *)
(***************************************************************************)
\* register_parent_session and register_controlled_parent_session: a session
\* id is never bound a second time to anything else.
RegisterSession(s) ==
  /\ sessions' = IF s.id \notin DOMAIN sessions /\ Cardinality(DOMAIN sessions) < MaxSessions
                   THEN With(sessions, s.id, s) ELSE sessions
  /\ UNCHANGED <<rx, now, delivered>>

\* announce_object: a reliable announcement on a registered session
AnnounceObject(id, a) ==
  /\ id \in DOMAIN sessions
  /\ rx' = Announced(ExpireIfDue(rx), sessions[id], a)
  /\ UNCHANGED <<sessions, now, delivered>>

\* push_wire_datagram: a symbol on a registered session
PushWireDatagram(id, y, result) ==
  /\ id \in DOMAIN sessions
  /\ LET r == ExpireIfDue(rx)
     IN  /\ ResultPossible(r, sessions[id], y, result)
         /\ rx' = Pushed(r, sessions[id], y, result)
         /\ Deliver(r, sessions[id], y, result)
  /\ UNCHANGED <<sessions, now>>

\* RelayUdpDispatch::push for a controlled peer: ensure_controlled_announcement
\* derives an announcement from the symbol first, and its error ends the call.
PushControlled(id, y, result) ==
  /\ id \in DOMAIN sessions
  /\ sessions[id].controlled
  /\ LET s  == sessions[id]
         a  == [profile |-> y.profile, cursor |-> 0]
         r0 == IF SymbolPermitted(s, y) THEN ExpireIfDue(rx) ELSE rx
         ok == SymbolPermitted(s, y) /\ AnnounceOk(r0, s, a)
         r  == Announced(r0, s, a)
     IN  IF ok
           THEN /\ ResultPossible(r, s, y, result)
                /\ rx' = Pushed(r, s, y, result)
                /\ Deliver(r, s, y, result)
           ELSE /\ result = "error"
                /\ rx' = r0
                /\ UNCHANGED delivered
  /\ UNCHANGED <<sessions, now>>

\* The expire_fec timer of run_udp_fec_ingest
ExpireTick ==
  /\ rx' = Expire(rx)
  /\ UNCHANGED <<sessions, now, delivered>>

Clock(t) ==
  /\ now' = t
  /\ UNCHANGED <<sessions, rx, delivered>>

-----------------------------------------------------------------------------
Init ==
  /\ sessions = EmptyMap
  /\ rx = EmptyRx
  /\ now = 0
  /\ delivered = <<>>

Results == {"none", "error", "object"}

Next ==
  \/ \E s \in SessionRecords : RegisterSession(s)
  \/ \E id \in SessionIds, a \in Announcement : AnnounceObject(id, a)
  \/ \E id \in SessionIds, y \in Symbol, result \in Results : PushWireDatagram(id, y, result)
  \/ \E id \in SessionIds, y \in Symbol, result \in Results : PushControlled(id, y, result)
  \/ ExpireTick
  \/ \E t \in 0..MaxTime : Clock(t)

Spec == Init /\ [][Next]_vars

-----------------------------------------------------------------------------
(***************************************************************************)
(* Properties.                                                             *)
(***************************************************************************)
Object == [announcement : Announcement, parents : SUBSET SessionIds,
           symbols : UNION {[S -> Contents] : S \in SUBSET Seqs},
           assembled : BOOLEAN, last_activity : 0..MaxTime]
Tombstone == [announcement : Announcement, parents : SUBSET SessionIds]

\* The values every variable ranges over.
TypeOK ==
  /\ DOMAIN sessions \subseteq SessionIds
  /\ \A id \in DOMAIN sessions : sessions[id] \in SessionRecords /\ sessions[id].id = id
  /\ DOMAIN rx.objects \subseteq Keys
  /\ \A k \in DOMAIN rx.objects : rx.objects[k] \in Object /\ KeyOf(rx.objects[k].announcement) = k
  /\ DOMAIN rx.logical_keys \subseteq {LogicalOf[k] : k \in Keys}
  /\ \A l \in DOMAIN rx.logical_keys : rx.logical_keys[l] \in Keys
  /\ DOMAIN rx.completed \subseteq Keys
  /\ \A k \in DOMAIN rx.completed : rx.completed[k] \in Tombstone
  /\ rx.completed_order \in Seq(Keys)
  /\ rx.buffered_object_bytes \in Nat
  /\ rx.buffered_datagrams \in Nat
  /\ rx.next_expiry_scan \in {Never} \cup (0..(MaxTime + ScanInterval))
  /\ now \in 0..MaxTime
  /\ delivered \in Seq(Keys)

\* The logical index is exact: it holds the identity of every active and every
\* completed object and of no other, each under the one key that is in use, and
\* no object is active and completed at once.  A stale entry would lock an
\* identity out for ever, a missing one would admit two payloads for it.
LogicalIndexExact ==
  /\ DOMAIN rx.objects \cap DOMAIN rx.completed = {}
  /\ \A k \in DOMAIN rx.objects \cup DOMAIN rx.completed :
       LogicalOf[k] \in DOMAIN rx.logical_keys /\ rx.logical_keys[LogicalOf[k]] = k
  /\ \A l \in DOMAIN rx.logical_keys :
       /\ rx.logical_keys[l] \in DOMAIN rx.objects \cup DOMAIN rx.completed
       /\ LogicalOf[rx.logical_keys[l]] = l

\* The tombstones are bounded and their order lists each of them once, so the
\* eviction loop always finds the oldest.
TombstonesBounded ==
  /\ Len(rx.completed_order) <= MaxCompleted
  /\ Len(rx.completed_order) = Cardinality(DOMAIN rx.completed)
  /\ {rx.completed_order[i] : i \in DOMAIN rx.completed_order} = DOMAIN rx.completed

\* The incremental accounting is exact after every mix of announcements,
\* symbols, completions and expiries, so no limit is lost or leaked.
AccountingExact ==
  /\ rx.buffered_object_bytes = SumFunctionOnSet(Lengths(rx.objects), DOMAIN rx.objects)
  /\ rx.buffered_datagrams = SumFunctionOnSet(Retained(rx.objects), DOMAIN rx.objects)
  /\ rx.buffered_object_bytes <= MaxBytes
  /\ rx.buffered_datagrams <= MaxBuffered
  /\ Cardinality(DOMAIN rx.objects) <= MaxActive

ParentsOf(k) == IF k \in DOMAIN rx.objects THEN rx.objects[k].parents
                ELSE rx.completed[k].parents

\* The parents of an object are registered sessions of its own generation and
\* subscription, one per path, and two different nodes unless both sessions are
\* controlled: one parent can never stand in for both paths.
ParentsDiverse ==
  \A k \in DOMAIN rx.objects \cup DOMAIN rx.completed :
    /\ ParentsOf(k) \subseteq DOMAIN sessions
    /\ ParentsOf(k) # {}
    /\ \A d, e \in ParentsOf(k) : d # e =>
         /\ sessions[d].path # sessions[e].path
         /\ sessions[d].binding = sessions[e].binding
         /\ sessions[d].peer = sessions[e].peer
              => sessions[d].controlled /\ sessions[e].controlled

\* An object is delivered once, and no other payload is delivered for its
\* logical identity, until MaxCompleted further objects were delivered:
\* symbols that arrive after the decode, from either parent, never reopen it.
DeliveredOnce ==
  \A i, j \in DOMAIN delivered :
    i < j /\ LogicalOf[delivered[i]] = LogicalOf[delivered[j]] => j - i > MaxCompleted

\* The receiver of two parents' symbols (relay_ingress.rs:640-1110): its state is
\* well formed, its indexes and counts are exact, its tombstones stay within
\* their limit, an object's parents are independent, and nothing is delivered twice.
IngressSound ==
  /\ TypeOK /\ LogicalIndexExact /\ TombstonesBounded
  /\ AccountingExact /\ ParentsDiverse /\ DeliveredOnce
=============================================================================
