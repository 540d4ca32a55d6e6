---------------------------- MODULE RelayFailover ----------------------------
(***************************************************************************)
(* Warm-secondary failover of a RelaySession edge (src/main.rs).           *)
(*                                                                         *)
(* Two processes and the datagrams between them:                           *)
(*   - the edge's RelayFailoverController watches the source symbols of    *)
(*     its primary parent and the repair symbols of its secondary parent,  *)
(*     decides which forwarding mode the secondary should be in, and       *)
(*     repeats that decision as a FailoverLeaseCommand on every heartbeat; *)
(*   - the secondary relay's run_relay_failover_listener applies commands  *)
(*     to the forwarding path of that edge, and returns the path to        *)
(*     repair-only when the lease of the last promotion has run out.       *)
(*                                                                         *)
(* Commands travel over UDP: they are lost, duplicated and reordered.      *)
(* Either process may restart and forget everything it knew.               *)
(*                                                                         *)
(* A definition named Bug... is a deliberately wrong variant of the        *)
(* definition that follows it: it shows that a property can fail.          *)
(*                                                                         *)
(* An Instant is held as its AGE, the time since it was taken, and a       *)
(* deadline as the time left, both in abstract units and both capped at    *)
(* the largest value the code compares them with.  The code only compares  *)
(* ages with Silence, Warm, Recovery and the lease with zero, so a capped  *)
(* age answers every comparison as the real one does.                      *)
(***************************************************************************)
EXTENDS Integers, FiniteSets

CONSTANTS
  Silence,          \* --relay-primary-silence-ms
  Warm,             \* --relay-secondary-warm-ms
  Recovery,         \* --relay-primary-recovery-ms
  Lease,            \* --relay-failover-lease-ms
  Bindings,         \* (topology generation, subscription id) pairs in use
  ListenerBinding,  \* the pair the listener was started with
  MaxTransition,    \* bound: wall clock readings and transition ids
  MaxDecoded,       \* bound: decoded objects observed by the controller
  MaxRestarts,      \* bound: restarts of either process
  MaxDuplicates     \* bound: datagrams the network duplicates

\* What Args::validate enforces about the windows, and the least the model
\* needs of its other parameters.
ASSUME WindowAssumption ==
  /\ Silence \in Nat \ {0}
  /\ Warm \in Nat /\ Warm >= Silence
  /\ Recovery \in Nat /\ Recovery >= Silence
  /\ Lease \in Nat \ {0}

ASSUME ParameterAssumption ==
  /\ ListenerBinding \in Bindings
  /\ MaxTransition \in Nat \ {0}
  /\ MaxDecoded \in Nat
  /\ MaxRestarts \in Nat
  /\ MaxDuplicates \in Nat

VARIABLES
  \* --- RelayFailoverController -------------------------------------------
  up,                             \* the controller process is running
  binding,                        \* its generation and subscription_id
  state,                          \* RelayFailoverControllerState
  desired_mode,
  transition_id,
  last_primary_source,            \* ages, or Never
  last_secondary_repair,
  recovered_since,
  last_decoded,                   \* number of the last decoded object, 0: none
  promotion_gap_base,
  awaiting_secondary_source,
  awaiting_post_promotion_object,
  \* --- run_relay_failover_listener and its forwarding path ----------------
  l_transition_id,
  l_transition_mode,
  lease_deadline,                 \* time left, or Never
  promoted,                       \* RelayForwardPath::promoted
  \* --- environment ----------------------------------------------------------
  net,                            \* commands in flight
  clock_monotone,                 \* the wall clock never repeats or steps back
  wall,                           \* the last reading of now_unix_us()
  restarts, duplicates,           \* how often the bounded faults happened
  \* --- history --------------------------------------------------------------
  silent_tick                     \* age of the last tick that saw no primary

cvars == <<up, binding, state, desired_mode, transition_id,
           last_primary_source, last_secondary_repair, recovered_since,
           last_decoded, promotion_gap_base,
           awaiting_secondary_source, awaiting_post_promotion_object>>
lvars == <<l_transition_id, l_transition_mode, lease_deadline, promoted>>
evars == <<net, clock_monotone, wall, restarts, duplicates>>
vars  == <<cvars, lvars, evars, silent_tick>>

Never == -1

States == {"Arming", "Healthy", "Promoted", "Recovering", "SecondaryUnavailable"}
Modes  == {"RepairOnly", "SourceAndRepair"}

Command == [binding : Bindings, transition_id : 1..MaxTransition, mode : Modes]

(***************************************************************************)
(* Time.                                                                   *)
(***************************************************************************)
Min2(a, b) == IF a <= b THEN a ELSE b
Max2(a, b) == IF a >= b THEN a ELSE b

\* An Instant one time unit later, its age capped.
Older(age, cap) == IF age = Never THEN Never ELSE Min2(age + 1, cap)

\* A deadline one time unit later.
Closer(left) == IF left > 0 THEN left - 1 ELSE left

\* last.is_some_and(|seen| now - seen < window)
Recent(age, window) == age # Never /\ age < window

primary_recent   == Recent(last_primary_source, Silence)
secondary_recent == Recent(last_secondary_repair, Warm)

\* What a read of the wall clock may return.  SystemTime may step in either
\* direction; under clock_monotone it has advanced since it was last used.
WallReadings ==
  IF clock_monotone THEN {w \in 1..MaxTransition : w > wall} ELSE 1..MaxTransition

(***************************************************************************)
(* The controller.                                                         *)
(***************************************************************************)
\* RelayFailoverController::bind
ControllerInit ==
  /\ state = "Arming"
  /\ desired_mode = "RepairOnly"
  /\ last_primary_source = Never
  /\ last_secondary_repair = Never
  /\ recovered_since = Never
  /\ last_decoded = 0
  /\ promotion_gap_base = 0
  /\ awaiting_secondary_source = FALSE
  /\ awaiting_post_promotion_object = FALSE

\* A restarted controller that numbers its transitions from one again.
BugControllerStartFromOne ==
  /\ ~up
  /\ up' = TRUE
  /\ transition_id' = 1
  /\ state' = "Arming"
  /\ desired_mode' = "RepairOnly"
  /\ last_primary_source' = Never
  /\ last_secondary_repair' = Never
  /\ recovered_since' = Never
  /\ last_decoded' = 0
  /\ promotion_gap_base' = 0
  /\ awaiting_secondary_source' = FALSE
  /\ awaiting_post_promotion_object' = FALSE
  /\ silent_tick' = 0
  /\ UNCHANGED <<binding, lvars, evars>>

\* The same, for a process that comes back after a crash.
ControllerStart ==
  /\ ~up
  /\ \E w \in WallReadings :
       /\ transition_id' = Max2(w, 1)
       /\ wall' = w
  /\ \E b \in Bindings : binding' = b
  /\ up' = TRUE
  /\ state' = "Arming"
  /\ desired_mode' = "RepairOnly"
  /\ last_primary_source' = Never
  /\ last_secondary_repair' = Never
  /\ recovered_since' = Never
  /\ last_decoded' = 0
  /\ promotion_gap_base' = 0
  /\ awaiting_secondary_source' = FALSE
  /\ awaiting_post_promotion_object' = FALSE
  /\ silent_tick' = 0
  /\ UNCHANGED <<lvars, net, clock_monotone, restarts, duplicates>>

ControllerCrash ==
  /\ up
  /\ restarts < MaxRestarts
  /\ restarts' = restarts + 1
  /\ up' = FALSE
  /\ UNCHANGED <<binding, state, desired_mode, transition_id,
                 last_primary_source, last_secondary_repair, recovered_since,
                 last_decoded, promotion_gap_base, awaiting_secondary_source,
                 awaiting_post_promotion_object, lvars, net, clock_monotone, wall, duplicates,
                 silent_tick>>

\* A decoded object that does not end the wait of the promotion.
BugObserveKeepsWaiting(path, role, decoded) ==
  /\ up
  /\ last_primary_source' =
       IF path = "Primary" /\ role = "Source" THEN 0 ELSE last_primary_source
  /\ last_secondary_repair' =
       IF path = "Secondary" /\ role = "Repair" THEN 0 ELSE last_secondary_repair
  /\ awaiting_secondary_source' =
       (awaiting_secondary_source /\ ~(path = "Secondary" /\ role = "Source"))
  /\ last_decoded' = IF decoded THEN last_decoded + 1 ELSE last_decoded
  /\ last_decoded' <= MaxDecoded
  /\ UNCHANGED <<up, binding, state, desired_mode, transition_id, recovered_since,
                 promotion_gap_base, awaiting_post_promotion_object, lvars, evars,
                 silent_tick>>

\* RelayFailoverController::observe: a datagram from one of the two parents
\* entered the receiver, and perhaps completed an object.
Observe(path, role, decoded) ==
  /\ up
  /\ last_primary_source' =
       IF path = "Primary" /\ role = "Source" THEN 0 ELSE last_primary_source
  /\ last_secondary_repair' =
       IF path = "Secondary" /\ role = "Repair" THEN 0 ELSE last_secondary_repair
  /\ awaiting_secondary_source' =
       (awaiting_secondary_source /\ ~(path = "Secondary" /\ role = "Source"))
  /\ IF decoded
       THEN /\ last_decoded < MaxDecoded
            /\ last_decoded' = last_decoded + 1
            /\ awaiting_post_promotion_object' = FALSE
       ELSE UNCHANGED <<last_decoded, awaiting_post_promotion_object>>
  /\ UNCHANGED <<up, binding, state, desired_mode, transition_id, recovered_since,
                 promotion_gap_base, lvars, evars, silent_tick>>

\* RelayFailoverController::advance_transition
AdvanceTransition ==
  \E w \in WallReadings :
    /\ Max2(w, transition_id + 1) <= MaxTransition
    /\ transition_id' = Max2(w, transition_id + 1)
    /\ wall' = w

\* A promotion that expects the gap to start at the next object.
BugPromoteGapBase ==
  /\ desired_mode' = "SourceAndRepair"
  /\ AdvanceTransition
  /\ promotion_gap_base' = last_decoded + 1
  /\ awaiting_secondary_source' = TRUE
  /\ awaiting_post_promotion_object' = TRUE
  /\ recovered_since' = Never
  /\ state' = "Promoted"

\* RelayFailoverController::promote
Promote ==
  /\ desired_mode' = "SourceAndRepair"
  /\ AdvanceTransition
  /\ promotion_gap_base' = last_decoded
  /\ awaiting_secondary_source' = TRUE
  /\ awaiting_post_promotion_object' = TRUE
  /\ recovered_since' = Never
  /\ state' = "Promoted"

\* A demotion that still waits for the secondary's first source.
BugDemoteKeepsWaiting ==
  /\ desired_mode' = "RepairOnly"
  /\ AdvanceTransition
  /\ recovered_since' = Never
  /\ state' = "Healthy"
  /\ UNCHANGED <<promotion_gap_base, awaiting_secondary_source,
                 awaiting_post_promotion_object>>

\* RelayFailoverController::demote
Demote ==
  /\ desired_mode' = "RepairOnly"
  /\ AdvanceTransition
  /\ recovered_since' = Never
  /\ awaiting_secondary_source' = FALSE
  /\ state' = "Healthy"
  /\ UNCHANGED <<promotion_gap_base, awaiting_post_promotion_object>>

\* set_state(s), with nothing else decided by the tick
SetState(s) ==
  /\ state' = s
  /\ UNCHANGED <<desired_mode, transition_id, wall, recovered_since, promotion_gap_base,
                 awaiting_secondary_source, awaiting_post_promotion_object>>

\* A silence that changes nothing when the secondary is not warm.
BugPrimaryLostIgnored ==
  \/ secondary_recent /\ Promote
  \/ ~secondary_recent /\ SetState(state)

\* The primary has been silent for too long: promote() when the secondary is
\* warm, secondary_unavailable() when it is not.
PrimaryLost ==
  \/ secondary_recent /\ Promote
  \/ ~secondary_recent /\ SetState("SecondaryUnavailable")

\* The arms of the match in RelayFailoverController::tick
TickArming ==
  /\ state = "Arming"
  /\ \/ primary_recent /\ secondary_recent /\ SetState("Healthy")
     \/ ~primary_recent /\ last_primary_source # Never /\ PrimaryLost
     \/ /\ ~(primary_recent /\ secondary_recent)
        /\ primary_recent \/ last_primary_source = Never
        /\ SetState("Arming")

TickHealthy ==
  /\ state = "Healthy"
  /\ \/ primary_recent /\ SetState("Healthy")
     \/ ~primary_recent /\ PrimaryLost

TickSecondaryUnavailable ==
  /\ state = "SecondaryUnavailable"
  /\ \/ primary_recent /\ SetState("Healthy")
     \/ ~primary_recent /\ secondary_recent /\ last_primary_source # Never /\ Promote
     \/ /\ ~primary_recent
        /\ ~(secondary_recent /\ last_primary_source # Never)
        /\ SetState("SecondaryUnavailable")

\* recovered_since.get_or_insert(now)
RecoveredSince == IF recovered_since = Never THEN 0 ELSE recovered_since

Recovering ==
  /\ RecoveredSince < Recovery
  /\ state' = "Recovering"
  /\ recovered_since' = RecoveredSince
  /\ UNCHANGED <<desired_mode, transition_id, wall, promotion_gap_base,
                 awaiting_secondary_source, awaiting_post_promotion_object>>

\* A recovery whose window is not restarted by a silent primary.
BugRecoveryResumes ==
  /\ state' = "Promoted"
  /\ UNCHANGED <<recovered_since, desired_mode, transition_id, wall,
                 promotion_gap_base, awaiting_secondary_source,
                 awaiting_post_promotion_object>>

RecoveryBroken ==
  /\ state' = "Promoted"
  /\ recovered_since' = Never
  /\ UNCHANGED <<desired_mode, transition_id, wall, promotion_gap_base,
                 awaiting_secondary_source, awaiting_post_promotion_object>>

TickPromoted ==
  /\ state \in {"Promoted", "Recovering"}
  /\ \/ primary_recent /\ Recovering
     \/ primary_recent /\ RecoveredSince >= Recovery /\ Demote
     \/ ~primary_recent /\ RecoveryBroken

\* RelayFailoverController::send_desired: the decision just taken leaves as
\* one datagram, or the send fails (or the datagram is lost at once).
SendDesired ==
  \/ net' = net \cup {[binding       |-> binding,
                       transition_id |-> transition_id',
                       mode          |-> desired_mode']}
  \/ net' = net

\* RelayFailoverController::tick
Tick ==
  /\ up
  /\ TickArming \/ TickHealthy \/ TickSecondaryUnavailable \/ TickPromoted
  /\ SendDesired
  /\ silent_tick' = IF primary_recent THEN silent_tick ELSE 0
  /\ UNCHANGED <<up, binding, last_primary_source, last_secondary_repair, last_decoded,
                 lvars, clock_monotone, restarts, duplicates>>

(***************************************************************************)
(* The listener.                                                           *)
(***************************************************************************)
\* Staleness by transition id alone.
BugStaleIgnoresMode(c) ==
  c.binding # ListenerBinding \/ c.transition_id < l_transition_id

\* The check of a received command against what the listener already applied
Stale(c) ==
  \/ c.binding # ListenerBinding
  \/ c.transition_id < l_transition_id
  \/ c.transition_id = l_transition_id /\ c.mode # l_transition_mode

\* RelayDownstreamForwarder::apply_failover_mode for the listener's own
\* target, a path of role Repair (Args::validate accepts no other target).
ApplyFailoverMode(mode) == promoted' = (mode = "SourceAndRepair")

\* The receive arm of run_relay_failover_listener
Receive(c) ==
  IF Stale(c)
    THEN UNCHANGED lvars
    ELSE /\ l_transition_id' = c.transition_id
         /\ l_transition_mode' = c.mode
         /\ ApplyFailoverMode(c.mode)
         /\ lease_deadline' = IF c.mode = "SourceAndRepair" THEN Lease ELSE Never

\* An expired lease that leaves the mode of the transition in place.
BugLeaseExpiresKeepsMode ==
  /\ lease_deadline = 0
  /\ ApplyFailoverMode("RepairOnly")
  /\ lease_deadline' = Never
  /\ UNCHANGED <<cvars, l_transition_id, l_transition_mode, evars, silent_tick>>

\* The lease_tick arm: the lease of the promotion has run out.  The
\* transition id is kept.
LeaseExpires ==
  /\ lease_deadline = 0
  /\ ApplyFailoverMode("RepairOnly")
  /\ lease_deadline' = Never
  /\ l_transition_mode' = "RepairOnly"
  /\ UNCHANGED <<cvars, l_transition_id, evars, silent_tick>>

\* The relay process restarts: the path is not promoted, nothing is known.
ListenerRestart ==
  /\ restarts < MaxRestarts
  /\ restarts' = restarts + 1
  /\ l_transition_id' = 0
  /\ l_transition_mode' = "RepairOnly"
  /\ lease_deadline' = Never
  /\ promoted' = FALSE
  /\ UNCHANGED <<cvars, net, clock_monotone, wall, duplicates, silent_tick>>

(***************************************************************************)
(* The network and the clock.                                              *)
(***************************************************************************)
Deliver(c) ==
  /\ c \in net
  /\ net' = net \ {c}
  /\ Receive(c)
  /\ UNCHANGED <<cvars, clock_monotone, wall, restarts, duplicates, silent_tick>>

DeliverDuplicate(c) ==
  /\ c \in net
  /\ duplicates < MaxDuplicates
  /\ duplicates' = duplicates + 1
  /\ Receive(c)
  /\ UNCHANGED <<cvars, net, clock_monotone, wall, restarts, silent_tick>>

Drop(c) ==
  /\ c \in net
  /\ net' = net \ {c}
  /\ UNCHANGED <<cvars, lvars, clock_monotone, wall, restarts, duplicates, silent_tick>>

\* One unit of time passes for both processes.
Elapse ==
  /\ last_primary_source' = Older(last_primary_source, Silence)
  /\ last_secondary_repair' = Older(last_secondary_repair, Warm)
  /\ recovered_since' = Older(recovered_since, Recovery)
  /\ lease_deadline' = Closer(lease_deadline)
  /\ silent_tick' = Older(silent_tick, Recovery)
  /\ UNCHANGED <<up, binding, state, desired_mode, transition_id, last_decoded,
                 promotion_gap_base, awaiting_secondary_source,
                 awaiting_post_promotion_object, l_transition_id,
                 l_transition_mode, promoted, evars>>

-----------------------------------------------------------------------------
Init ==
  /\ ControllerInit
  /\ up = TRUE
  /\ binding = ListenerBinding
  /\ transition_id = 1
  /\ l_transition_id = 0
  /\ l_transition_mode = "RepairOnly"
  /\ lease_deadline = Never
  /\ promoted = FALSE
  /\ net = {}
  /\ clock_monotone \in BOOLEAN
  /\ wall = 1
  /\ restarts = 0
  /\ duplicates = 0
  /\ silent_tick = 0

Next ==
  \/ ControllerStart
  \/ ControllerCrash
  \/ \E path \in {"Primary", "Secondary"}, role \in {"Source", "Repair"},
        decoded \in BOOLEAN : Observe(path, role, decoded)
  \/ Tick
  \/ LeaseExpires
  \/ ListenerRestart
  \/ \E c \in net : Deliver(c)
  \/ \E c \in net : DeliverDuplicate(c)
  \/ \E c \in net : Drop(c)
  \/ Elapse

Spec == Init /\ [][Next]_vars

\* The timers of both processes keep running, time passes, and no datagram is
\* in flight for ever.  Nothing forces a datagram to arrive, and nobody is
\* obliged to bring a crashed controller back.
Fairness ==
  /\ WF_vars(Elapse)
  /\ WF_vars(Tick)
  /\ WF_vars(LeaseExpires)
  /\ \A c \in Command : WF_vars(Deliver(c) \/ Drop(c))

FairSpec == Spec /\ Fairness
-----------------------------------------------------------------------------
(***************************************************************************)
(* Properties.                                                             *)
(***************************************************************************)
\* The values every variable ranges over.
TypeOK ==
  /\ up \in BOOLEAN
  /\ binding \in Bindings
  /\ state \in States
  /\ desired_mode \in Modes
  /\ transition_id \in 1..MaxTransition
  /\ last_primary_source \in {Never} \cup (0..Silence)
  /\ last_secondary_repair \in {Never} \cup (0..Warm)
  /\ recovered_since \in {Never} \cup (0..Recovery)
  /\ last_decoded \in 0..MaxDecoded
  /\ promotion_gap_base \in 0..MaxDecoded
  /\ awaiting_secondary_source \in BOOLEAN
  /\ awaiting_post_promotion_object \in BOOLEAN
  /\ l_transition_id \in 0..MaxTransition
  /\ l_transition_mode \in Modes
  /\ lease_deadline \in {Never} \cup (0..Lease)
  /\ promoted \in BOOLEAN
  /\ net \subseteq Command
  /\ clock_monotone \in BOOLEAN
  /\ wall \in 1..MaxTransition
  /\ restarts \in 0..MaxRestarts
  /\ duplicates \in 0..MaxDuplicates
  /\ silent_tick \in 0..Recovery

\* The controller's fields agree with its state after every tick: it asks for
\* source forwarding exactly while it is promoted or recovering, it measures a
\* recovery exactly while it is recovering, it waits for the secondary's first
\* source only during a promotion, and it never left Arming for a failover
\* state without having seen the primary once.
ControllerConsistent ==
  /\ (desired_mode = "SourceAndRepair") <=> (state \in {"Promoted", "Recovering"})
  /\ (recovered_since # Never) <=> (state = "Recovering")
  /\ awaiting_secondary_source => desired_mode = "SourceAndRepair"
  /\ state # "Arming" => last_primary_source # Never

\* The forwarding path is promoted exactly while a lease is running on it, and
\* the listener remembers the mode in force: no promotion survives its lease,
\* whatever was lost, duplicated or restarted.
PromotedOnlyUnderLease ==
  /\ promoted <=> (lease_deadline # Never)
  /\ promoted <=> (l_transition_mode = "SourceAndRepair")

\* Within one life of the listener a path is promoted only by a command newer
\* than every command applied before: a delayed or duplicated promotion cannot
\* undo a demotion, nor revive a promotion whose lease ran out.
PromotionIsFresh ==
  [][~promoted /\ promoted' => l_transition_id' > l_transition_id]_vars

\* The listener implements the abstract lease of ForwardingLease.
ForwardingPath == INSTANCE ForwardingLease WITH
                    granted <- promoted, newest <- l_transition_id
ImplementsForwardingLease == ForwardingPath!Spec

\* When the wall clock does not step back (even across restarts of the
\* controller), the listener never runs ahead of the controller, and a path
\* promoted under the controller's current transition is one the controller
\* wants promoted.
ListenerFollowsController ==
  clock_monotone =>
    /\ l_transition_id <= transition_id
    /\ promoted /\ l_transition_id = transition_id => desired_mode = "SourceAndRepair"

\* Make before break: a running controller gives up the secondary's source
\* only when no tick of the whole recovery window saw the primary silent.
RecoveryIsContinuous ==
  [][ up /\ up' /\ desired_mode = "SourceAndRepair" /\ desired_mode' = "RepairOnly"
        => silent_tick >= Recovery ]_vars

\* The media gap reported after a promotion is the gap between two consecutive
\* decoded objects: no object was decoded between the base that promote()
\* recorded and the object the controller waits for.
MediaGapBase ==
  awaiting_post_promotion_object => promotion_gap_base = last_decoded

\* A controller that died without a successor cannot leave the secondary
\* forwarding source for ever: its lease ends.
OrphanedLeaseEnds == <>[]~up => <>[]~promoted

\* Once a running controller settles on repair-only, the path ends up demoted,
\* even if every one of its commands is lost.
DemotionTakesEffect == <>[](up /\ desired_mode = "RepairOnly") => <>[]~promoted

\* A primary that was seen and stays silent is noticed: the controller leaves
\* its steady states within the ticks that follow (the last conjunct excludes
\* the model's bound on transitions).
PrimaryStale == up /\ last_primary_source = Silence /\ transition_id < MaxTransition
SilenceIsDetected ==
  <>[]PrimaryStale => <>[](state \in {"Promoted", "SecondaryUnavailable"})

\* The failover makes progress whatever is lost (main.rs:3014-3180, 3300-3370):
\* forwarding without a controller ends, a demotion takes effect, and silence of
\* the primary is noticed.
FailoverProgresses == OrphanedLeaseEnds /\ DemotionTakesEffect /\ SilenceIsDetected

\* --relay-primary-silence-ms: "Promote the warm secondary after this much
\* primary-source silence."  A controller that stays Promoted, and whose
\* commands keep arriving, keeps the secondary promoted.
PromotionTakesEffect ==
  <>[](up /\ state = "Promoted") => []<>promoted

\* A network that keeps working: heartbeats are sent without error over and
\* over, and a command that is sent over and over also arrives over and over.
TickSends ==
  Tick /\ [binding |-> binding, transition_id |-> transition_id',
            mode |-> desired_mode'] \in net'

DeliveringSpec ==
  /\ FairSpec
  /\ WF_vars(TickSends)
  /\ \A c \in Command : SF_vars(Deliver(c))
=============================================================================
