------------------------- MODULE RelayFailoverProofs -------------------------
(***************************************************************************)
(* Proofs about RelayFailover, for every choice of the windows, the lease, *)
(* the bindings and the bounds.                                            *)
(***************************************************************************)
EXTENDS RelayFailover, TLAPS

USE WindowAssumption, ParameterAssumption

(***************************************************************************)
(* Ages and readings stay within their ranges.                             *)
(***************************************************************************)
\* An age that grows by one time unit stays an age below its cap.
LEMMA OlderType ==
  ASSUME NEW cap \in Nat, NEW age \in {Never} \cup (0..cap)
  PROVE  /\ Older(age, cap) \in {Never} \cup (0..cap)
         /\ Older(age, cap) = Never <=> age = Never
  BY DEF Older, Min2, Never

\* An instant that was taken stays taken as time passes.
LEMMA CloserType ==
  ASSUME NEW left \in {Never} \cup (0..Lease)
  PROVE  /\ Closer(left) \in {Never} \cup (0..Lease)
         /\ Closer(left) = Never <=> left = Never
  BY DEF Closer, Never

\* A wall clock reading lies within the bound, and past the last one when the
\* clock is monotone.
LEMMA WallReadingsType ==
  ASSUME NEW w \in WallReadings
  PROVE  w \in 1..MaxTransition /\ (clock_monotone => w > wall)
  BY DEF WallReadings

\* advance_transition() always moves to a strictly larger transition id.
LEMMA AdvanceTransitionGrows ==
  ASSUME TypeOK, AdvanceTransition
  PROVE  /\ transition_id' \in 1..MaxTransition
         /\ transition_id' > transition_id
         /\ wall' \in 1..MaxTransition
         /\ clock_monotone /\ wall >= transition_id => wall' >= transition_id'
<1>1. PICK w \in WallReadings :
        /\ Max2(w, transition_id + 1) <= MaxTransition
        /\ transition_id' = Max2(w, transition_id + 1)
        /\ wall' = w
  BY DEF AdvanceTransition
<1>2. w \in 1..MaxTransition /\ (clock_monotone => w > wall)
  BY WallReadingsType
<1>. QED
  BY <1>1, <1>2 DEF TypeOK, Max2

(***************************************************************************)
(* Type correctness.                                                       *)
(***************************************************************************)
\* Every step of the controller's tick keeps its fields in their types.
LEMMA TickType ==
  ASSUME TypeOK, Tick
  PROVE  TypeOK'
<1>1. /\ state' \in States
      /\ desired_mode' \in Modes
      /\ transition_id' \in 1..MaxTransition
      /\ wall' \in 1..MaxTransition
      /\ recovered_since' \in {Never} \cup (0..Recovery)
      /\ promotion_gap_base' \in 0..MaxDecoded
      /\ awaiting_secondary_source' \in BOOLEAN
      /\ awaiting_post_promotion_object' \in BOOLEAN
  <2>1. CASE Promote
    BY <2>1, AdvanceTransitionGrows DEF Promote, TypeOK, States, Modes
  <2>2. CASE Demote
    BY <2>2, AdvanceTransitionGrows DEF Demote, TypeOK, States, Modes
  <2>3. CASE \E s \in States : SetState(s)
    BY <2>3 DEF SetState, TypeOK
  <2>4. CASE Recovering
    BY <2>4 DEF Recovering, RecoveredSince, TypeOK, States, Never
  <2>5. CASE RecoveryBroken
    BY <2>5 DEF RecoveryBroken, TypeOK, States
  <2>. QED
    BY <2>1, <2>2, <2>3, <2>4, <2>5
    DEF Tick, TickArming, TickHealthy, TickSecondaryUnavailable, TickPromoted,
        PrimaryLost, States
<1>2. net' \subseteq Command
  BY <1>1 DEF Tick, SendDesired, TypeOK, Command
<1>3. silent_tick' \in 0..Recovery
  BY DEF Tick, TypeOK
<1>. QED
  BY <1>1, <1>2, <1>3 DEF Tick, TypeOK, lvars

\* Applying or rejecting a command keeps the listener's variables in their
\* types.
LEMMA ReceiveType ==
  ASSUME TypeOK, NEW c \in Command, Receive(c)
  PROVE  /\ l_transition_id' \in 0..MaxTransition
         /\ l_transition_mode' \in Modes
         /\ lease_deadline' \in {Never} \cup (0..Lease)
         /\ promoted' \in BOOLEAN
<1>1. promoted' \in BOOLEAN
  BY DEF Receive, ApplyFailoverMode, TypeOK, lvars
<1>2. lease_deadline' \in {Never} \cup (0..Lease)
  BY DEF Receive, TypeOK, lvars
<1>3. l_transition_id' \in 0..MaxTransition /\ l_transition_mode' \in Modes
  BY DEF Receive, Command, TypeOK, lvars
<1>. QED
  BY <1>1, <1>2, <1>3

\* The Boolean variables, which the provers handle apart from the others.
FlagsOK ==
  /\ up \in BOOLEAN
  /\ awaiting_secondary_source \in BOOLEAN
  /\ awaiting_post_promotion_object \in BOOLEAN
  /\ promoted \in BOOLEAN
  /\ clock_monotone \in BOOLEAN

\* The rest of the type invariant: the controller's, the listener's and the
\* environment's variables.
FieldsOK ==
  /\ binding \in Bindings
  /\ state \in States
  /\ desired_mode \in Modes
  /\ transition_id \in 1..MaxTransition
  /\ last_primary_source \in {Never} \cup (0..Silence)
  /\ last_secondary_repair \in {Never} \cup (0..Warm)
  /\ recovered_since \in {Never} \cup (0..Recovery)
  /\ last_decoded \in 0..MaxDecoded
  /\ promotion_gap_base \in 0..MaxDecoded
  /\ l_transition_id \in 0..MaxTransition
  /\ l_transition_mode \in Modes
  /\ lease_deadline \in {Never} \cup (0..Lease)
  /\ net \subseteq Command
  /\ wall \in 1..MaxTransition
  /\ restarts \in 0..MaxRestarts
  /\ duplicates \in 0..MaxDuplicates
  /\ silent_tick \in 0..Recovery

\* The two parts make up the type invariant.
LEMMA TypeParts == TypeOK <=> FlagsOK /\ FieldsOK
  BY Zenon DEF TypeOK, FlagsOK, FieldsOK

\* RelayFailover keeps every variable in its type.
THEOREM TypeCorrect == Spec => []TypeOK
<1>1. Init => TypeOK
  <2>1. Init => FlagsOK
    BY DEF Init, ControllerInit, FlagsOK
  <2>2. Init => FieldsOK
    BY DEF Init, ControllerInit, FieldsOK, States, Modes, Never
  <2>. QED
    BY <2>1, <2>2, TypeParts
<1>2. TypeOK /\ [Next]_vars => TypeOK'
  <2> SUFFICES ASSUME TypeOK, [Next]_vars PROVE TypeOK'
    OBVIOUS
  <2>0. FlagsOK /\ FieldsOK
    BY TypeParts
  <2>1. CASE ControllerStart
    <3>1. FlagsOK'
      BY <2>0, <2>1 DEF ControllerStart, FlagsOK, lvars
    <3>2. FieldsOK'
      BY <2>0, <2>1, WallReadingsType
      DEF ControllerStart, FieldsOK, States, Modes, Max2, lvars
    <3>. QED
      BY <3>1, <3>2, Zenon DEF TypeOK, FlagsOK, FieldsOK
  <2>2. CASE ControllerCrash
    <3>1. FlagsOK'
      BY <2>0, <2>2 DEF ControllerCrash, FlagsOK, lvars
    <3>2. FieldsOK'
      BY <2>0, <2>2 DEF ControllerCrash, FieldsOK, lvars
    <3>. QED
      BY <3>1, <3>2, Zenon DEF TypeOK, FlagsOK, FieldsOK
  <2>3. CASE \E path \in {"Primary", "Secondary"}, role \in {"Source", "Repair"},
                decoded \in BOOLEAN : Observe(path, role, decoded)
    <3> PICK path \in {"Primary", "Secondary"}, role \in {"Source", "Repair"},
             decoded \in BOOLEAN : Observe(path, role, decoded)
      BY <2>3
    <3>1. FlagsOK'
      BY <2>0 DEF Observe, FlagsOK, lvars, evars
    <3>2. FieldsOK'
      BY <2>0 DEF Observe, FieldsOK, lvars, evars
    <3>. QED
      BY <3>1, <3>2, Zenon DEF TypeOK, FlagsOK, FieldsOK
  <2>4. CASE Tick
    BY <2>4, TickType
  <2>5. CASE LeaseExpires
    <3>1. FlagsOK'
      BY <2>0, <2>5 DEF LeaseExpires, ApplyFailoverMode, FlagsOK, cvars, evars
    <3>2. FieldsOK'
      BY <2>0, <2>5 DEF LeaseExpires, FieldsOK, Modes, cvars, evars
    <3>. QED
      BY <3>1, <3>2, Zenon DEF TypeOK, FlagsOK, FieldsOK
  <2>6. CASE ListenerRestart
    <3>1. FlagsOK'
      BY <2>0, <2>6 DEF ListenerRestart, FlagsOK, cvars
    <3>2. FieldsOK'
      BY <2>0, <2>6 DEF ListenerRestart, FieldsOK, Modes, cvars
    <3>. QED
      BY <3>1, <3>2, Zenon DEF TypeOK, FlagsOK, FieldsOK
  <2>7. CASE \E c \in net : Deliver(c)
    <3> PICK c \in net : Deliver(c)
      BY <2>7
    <3>1. c \in Command /\ Receive(c)
      BY <2>0 DEF Deliver, FieldsOK
    <3>2. FlagsOK'
      BY <2>0, <3>1, ReceiveType DEF Deliver, FlagsOK, cvars
    <3>3. FieldsOK'
      BY <2>0, <3>1, ReceiveType DEF Deliver, FieldsOK, cvars
    <3>. QED
      BY <3>2, <3>3, Zenon DEF TypeOK, FlagsOK, FieldsOK
  <2>8. CASE \E c \in net : DeliverDuplicate(c)
    <3> PICK c \in net : DeliverDuplicate(c)
      BY <2>8
    <3>1. c \in Command /\ Receive(c)
      BY <2>0 DEF DeliverDuplicate, FieldsOK
    <3>2. FlagsOK'
      BY <2>0, <3>1, ReceiveType DEF DeliverDuplicate, FlagsOK, cvars
    <3>3. FieldsOK'
      BY <2>0, <3>1, ReceiveType DEF DeliverDuplicate, FieldsOK, cvars
    <3>. QED
      BY <3>2, <3>3, Zenon DEF TypeOK, FlagsOK, FieldsOK
  <2>9. CASE \E c \in net : Drop(c)
    BY <2>9 DEF Drop, TypeOK, cvars, lvars
  <2>10. CASE Elapse
    <3>1. silent_tick' \in 0..Recovery
      BY <2>10 DEF Elapse, TypeOK, Older, Min2, Never
    <3>. QED
      BY <2>10, <3>1, OlderType, CloserType DEF Elapse, TypeOK, evars
  <2>11. CASE UNCHANGED vars
    BY <2>11 DEF vars, cvars, lvars, evars, TypeOK
  <2>. QED
    BY <2>1, <2>2, <2>3, <2>4, <2>5, <2>6, <2>7, <2>8, <2>9, <2>10, <2>11 DEF Next
<1>. QED
  BY <1>1, <1>2, PTL DEF Spec
(***************************************************************************)
(* The controller: ControllerConsistent and MediaGapBase are inductive     *)
(* relative to TypeOK.                                                     *)
(***************************************************************************)
\* What a tick decides, as one of five outcomes.
LEMMA TickOutcome ==
  ASSUME Tick
  PROVE  \/ Promote /\ last_primary_source # Never /\ ~primary_recent
         \/ Demote /\ primary_recent /\ RecoveredSince >= Recovery
                   /\ state \in {"Promoted", "Recovering"}
         \/ Recovering /\ primary_recent /\ state \in {"Promoted", "Recovering"}
         \/ RecoveryBroken /\ ~primary_recent /\ state \in {"Promoted", "Recovering"}
         \/ /\ state \in {"Arming", "Healthy", "SecondaryUnavailable"}
            /\ \E s \in {"Arming", "Healthy", "SecondaryUnavailable"} :
                  /\ SetState(s)
                  /\ s # "Arming" => last_primary_source # Never \/ state # "Arming"
         \/ Promote /\ state = "Healthy" /\ ~primary_recent
  BY DEF Tick, TickArming, TickHealthy, TickSecondaryUnavailable, TickPromoted,
         PrimaryLost, primary_recent, Recent

\* A tick keeps the controller's fields consistent with its state.
LEMMA TickConsistent ==
  ASSUME TypeOK, ControllerConsistent, Tick
  PROVE  ControllerConsistent'
<1>0. last_primary_source' = last_primary_source
  BY DEF Tick
<1>1. CASE Promote /\ (last_primary_source # Never \/ state = "Healthy")
  BY <1>0, <1>1 DEF Promote, ControllerConsistent
<1>2. CASE Demote /\ state \in {"Promoted", "Recovering"}
  BY <1>0, <1>2 DEF Demote, ControllerConsistent
<1>3. CASE Recovering /\ state \in {"Promoted", "Recovering"}
  BY <1>0, <1>3 DEF Recovering, RecoveredSince, ControllerConsistent, Never
<1>4. CASE RecoveryBroken /\ state \in {"Promoted", "Recovering"}
  BY <1>0, <1>4 DEF RecoveryBroken, ControllerConsistent
<1>5. CASE /\ state \in {"Arming", "Healthy", "SecondaryUnavailable"}
           /\ \E s \in {"Arming", "Healthy", "SecondaryUnavailable"} :
                 /\ SetState(s)
                 /\ s # "Arming" => last_primary_source # Never \/ state # "Arming"
  BY <1>0, <1>5 DEF SetState, ControllerConsistent
<1>. QED
  BY <1>1, <1>2, <1>3, <1>4, <1>5, TickOutcome

\* The controller's fields always agree with its state.
THEOREM ControllerCorrect == Spec => []ControllerConsistent
<1>1. Init => ControllerConsistent
  BY DEF Init, ControllerInit, ControllerConsistent
<1>2. TypeOK /\ ControllerConsistent /\ [Next]_vars => ControllerConsistent'
  <2> SUFFICES ASSUME TypeOK, ControllerConsistent, [Next]_vars
               PROVE  ControllerConsistent'
    OBVIOUS
  <2>1. CASE ControllerStart
    BY <2>1 DEF ControllerStart, ControllerConsistent
  <2>2. CASE \E path \in {"Primary", "Secondary"}, role \in {"Source", "Repair"},
                decoded \in BOOLEAN : Observe(path, role, decoded)
    <3> PICK path \in {"Primary", "Secondary"}, role \in {"Source", "Repair"},
             decoded \in BOOLEAN : Observe(path, role, decoded)
      BY <2>2
    <3>1. UNCHANGED <<state, desired_mode, recovered_since>>
      BY DEF Observe
    <3>2. awaiting_secondary_source' => awaiting_secondary_source
      BY DEF Observe
    <3>3. last_primary_source # Never => last_primary_source' # Never
      BY DEF Observe, Never
    <3>. QED
      BY <3>1, <3>2, <3>3 DEF ControllerConsistent
  <2>3. CASE Tick
    BY <2>3, TickConsistent
  <2>4. CASE Elapse
    BY <2>4, OlderType DEF Elapse, ControllerConsistent, TypeOK
  <2>5. CASE UNCHANGED cvars
    BY <2>5 DEF cvars, ControllerConsistent
  <2>6. CASE ControllerCrash
    BY <2>6 DEF ControllerCrash, ControllerConsistent
  <2>. QED
    BY <2>1, <2>2, <2>3, <2>4, <2>5, <2>6
    DEF Next, LeaseExpires, ListenerRestart, Deliver, DeliverDuplicate, Drop, vars
<1>. QED
  BY <1>1, <1>2, TypeCorrect, PTL DEF Spec

\* A reported media gap always spans two consecutive decoded objects.
THEOREM MediaGapCorrect == Spec => []MediaGapBase
<1>1. Init => MediaGapBase
  BY DEF Init, ControllerInit, MediaGapBase
<1>2. MediaGapBase /\ [Next]_vars => MediaGapBase'
  <2> SUFFICES ASSUME MediaGapBase, [Next]_vars PROVE MediaGapBase'
    OBVIOUS
  <2>1. CASE Tick
    BY <2>1, TickOutcome
    DEF Tick, Promote, Demote, Recovering, RecoveryBroken, SetState, MediaGapBase
  <2>2. CASE \E path \in {"Primary", "Secondary"}, role \in {"Source", "Repair"},
                decoded \in BOOLEAN : Observe(path, role, decoded)
    BY <2>2 DEF Observe, MediaGapBase
  <2>. QED
    BY <2>1, <2>2
    DEF Next, ControllerStart, ControllerCrash, LeaseExpires, ListenerRestart, Deliver,
        DeliverDuplicate, Drop, Elapse, vars, cvars, MediaGapBase
<1>. QED
  BY <1>1, <1>2, PTL DEF Spec

(***************************************************************************)
(* The listener.                                                           *)
(***************************************************************************)
\* A command, applied or rejected, leaves a promoted path under a lease.
LEMMA ReceiveUnderLease ==
  ASSUME TypeOK, PromotedOnlyUnderLease, NEW c \in Command, Receive(c)
  PROVE  PromotedOnlyUnderLease'
<1>1. CASE Stale(c)
  BY <1>1 DEF Receive, PromotedOnlyUnderLease, lvars
<1>2. CASE ~Stale(c)
  <2>1. Lease # Never
    BY DEF Never
  <2>. QED
    BY <1>2, <2>1 DEF Receive, ApplyFailoverMode, PromotedOnlyUnderLease
<1>. QED
  BY <1>1, <1>2

\* A forwarding path is promoted exactly while a lease runs on it.
THEOREM LeaseCorrect == Spec => []PromotedOnlyUnderLease
<1>1. Init => PromotedOnlyUnderLease
  BY DEF Init, PromotedOnlyUnderLease
<1>2. TypeOK /\ PromotedOnlyUnderLease /\ [Next]_vars => PromotedOnlyUnderLease'
  <2> SUFFICES ASSUME TypeOK, PromotedOnlyUnderLease, [Next]_vars
               PROVE  PromotedOnlyUnderLease'
    OBVIOUS
  <2>1. CASE LeaseExpires
    BY <2>1 DEF LeaseExpires, ApplyFailoverMode, PromotedOnlyUnderLease
  <2>2. CASE ListenerRestart
    BY <2>2 DEF ListenerRestart, PromotedOnlyUnderLease
  <2>3. CASE \E c \in net : Deliver(c) \/ DeliverDuplicate(c)
    BY <2>3, ReceiveUnderLease DEF Deliver, DeliverDuplicate, TypeOK
  <2>4. CASE Elapse
    BY <2>4, CloserType DEF Elapse, PromotedOnlyUnderLease, TypeOK
  <2>5. CASE UNCHANGED lvars
    BY <2>5 DEF lvars, PromotedOnlyUnderLease
  <2>. QED
    BY <2>1, <2>2, <2>3, <2>4, <2>5
    DEF Next, ControllerStart, ControllerCrash, Observe, Tick, Drop, vars
<1>. QED
  BY <1>1, <1>2, TypeCorrect, PTL DEF Spec
\* Delivering a command can promote a path only under a larger transition id.
LEMMA ReceiveIsFresh ==
  ASSUME TypeOK, PromotedOnlyUnderLease, NEW c \in Command, Receive(c),
         ~promoted, promoted'
  PROVE  l_transition_id' > l_transition_id
<1>1. ~Stale(c) /\ c.mode = "SourceAndRepair" /\ l_transition_id' = c.transition_id
  BY DEF Receive, ApplyFailoverMode, lvars
<1>2. l_transition_mode # "SourceAndRepair"
  BY DEF PromotedOnlyUnderLease
<1>3. c.transition_id \in Nat /\ l_transition_id \in Nat
  BY DEF Command, TypeOK
<1>. QED
  BY <1>1, <1>2, <1>3 DEF Stale

\* No delayed or duplicated command revives an ended promotion.
THEOREM PromotionFreshness == Spec => PromotionIsFresh
<1>1. TypeOK /\ PromotedOnlyUnderLease /\ [Next]_vars
        => [~promoted /\ promoted' => l_transition_id' > l_transition_id]_vars
  <2> SUFFICES ASSUME TypeOK, PromotedOnlyUnderLease, Next, ~promoted, promoted'
               PROVE  l_transition_id' > l_transition_id
    OBVIOUS
  <2>1. \E c \in net : Deliver(c) \/ DeliverDuplicate(c)
    BY DEF Next, ControllerStart, ControllerCrash, Observe, Tick, LeaseExpires,
           ApplyFailoverMode, ListenerRestart, Drop, Elapse, lvars
  <2>. QED
    BY <2>1, ReceiveIsFresh DEF Deliver, DeliverDuplicate, TypeOK
<1>. QED
  BY <1>1, TypeCorrect, LeaseCorrect, PTL DEF Spec, PromotionIsFresh

\* What a step may do to the listener: nothing, a newer grant, or a release.
LEMMA ListenerStep ==
  ASSUME TypeOK, PromotedOnlyUnderLease, [Next]_vars
  PROVE  [ForwardingPath!Next]_<<promoted, l_transition_id>>
<1>1. CASE \E c \in net : Deliver(c) \/ DeliverDuplicate(c)
  <2> PICK c \in net : Receive(c)
    BY <1>1 DEF Deliver, DeliverDuplicate
  <2>0. c \in Command
    BY DEF TypeOK
  <2>1. CASE Stale(c)
    BY <2>1 DEF Receive, lvars
  <2>2. CASE ~Stale(c) /\ promoted'
    <3>1. CASE promoted
      <4>1. l_transition_id' = c.transition_id /\ c.transition_id \in Nat
        BY <2>0, <2>2 DEF Receive, Command
      <4>2. l_transition_id' >= l_transition_id /\ l_transition_id \in Nat
        BY <2>0, <2>2, <4>1 DEF Stale, Command, TypeOK
      <4>3. promoted = TRUE /\ promoted' = TRUE
        BY <2>0, <2>2, <3>1, ReceiveType DEF TypeOK
      <4>. QED
        BY <4>1, <4>2, <4>3 DEF ForwardingPath!Next, ForwardingPath!Grant
    <3>2. CASE ~promoted
      <4>1. l_transition_id' > l_transition_id
        BY <2>0, <2>2, <3>2, ReceiveIsFresh
      <4>2. l_transition_id' \in Nat /\ promoted' = TRUE
        BY <2>0, <2>2, ReceiveType
      <4>. QED
        BY <4>1, <4>2 DEF ForwardingPath!Next, ForwardingPath!Grant
    <3>. QED
      BY <3>1, <3>2
  <2>3. CASE ~Stale(c) /\ ~promoted'
    <3>1. l_transition_id' = c.transition_id /\ c.transition_id \in Nat
      BY <2>0, <2>3 DEF Receive, Command
    <3>2. l_transition_id' >= l_transition_id
      BY <2>0, <2>3, <3>1 DEF Stale, Command, TypeOK
    <3>3. promoted' = FALSE
      BY <2>0, <2>3, ReceiveType
    <3>. QED
      BY <3>1, <3>2, <3>3 DEF ForwardingPath!Next, ForwardingPath!Release
  <2>. QED
    BY <2>1, <2>2, <2>3
<1>2. CASE LeaseExpires
  <2>1. promoted' = FALSE /\ l_transition_id' = l_transition_id
    BY <1>2 DEF LeaseExpires, ApplyFailoverMode
  <2>2. l_transition_id \in Nat
    BY DEF TypeOK
  <2>. QED
    BY <2>1, <2>2 DEF ForwardingPath!Next, ForwardingPath!Release
<1>3. CASE ListenerRestart
  BY <1>3 DEF ListenerRestart, ForwardingPath!Next, ForwardingPath!Forget
<1>4. CASE UNCHANGED <<promoted, l_transition_id>>
  BY <1>4
<1>. QED
  BY <1>1, <1>2, <1>3, <1>4
  DEF Next, ControllerStart, ControllerCrash, Observe, Tick, Drop, Elapse, vars, lvars

\* The listener implements the abstract lease.
THEOREM ForwardingLeaseImplemented == Spec => ImplementsForwardingLease
<1>1. Init => ForwardingPath!Init
  BY DEF Init, ForwardingPath!Init
<1>2. TypeOK /\ PromotedOnlyUnderLease /\ [Next]_vars
        => [ForwardingPath!Next]_(ForwardingPath!lease)
  BY ListenerStep DEF ForwardingPath!lease
<1>. QED
  BY <1>1, <1>2, TypeCorrect, LeaseCorrect, PTL
  DEF Spec, ImplementsForwardingLease, ForwardingPath!Spec
(***************************************************************************)
(* The order of commands under a monotone wall clock.  The property speaks *)
(* of the listener and the controller only; it is inductive together with  *)
(* what is known of the commands still in flight.                          *)
(***************************************************************************)
CommandsOrdered ==
  clock_monotone =>
    /\ wall >= transition_id
    /\ \A c \in net : /\ c.transition_id <= transition_id
                      /\ c.transition_id = transition_id => c.mode = desired_mode
    /\ l_transition_id <= transition_id
    /\ l_transition_id = transition_id /\ l_transition_mode = "SourceAndRepair"
         => desired_mode = "SourceAndRepair"

\* A tick either keeps the transition and its mode or starts a larger one.
LEMMA TickTransition ==
  ASSUME TypeOK, Tick
  PROVE  \/ UNCHANGED <<transition_id, desired_mode, wall>>
         \/ /\ transition_id' > transition_id
            /\ clock_monotone /\ wall >= transition_id => wall' >= transition_id'
<1>1. CASE AdvanceTransition
  BY <1>1, AdvanceTransitionGrows
<1>2. CASE UNCHANGED <<transition_id, desired_mode, wall>>
  BY <1>2
<1>. QED
  BY <1>1, <1>2, TickOutcome DEF Promote, Demote, Recovering, RecoveryBroken, SetState

\* A tick sends what it decided, under the transition it decided it.
LEMMA TickOrdered ==
  ASSUME TypeOK, TypeOK', CommandsOrdered, Tick
  PROVE  CommandsOrdered'
<1> SUFFICES ASSUME clock_monotone
             PROVE  CommandsOrdered'
  BY DEF CommandsOrdered, Tick
<1>1. /\ wall >= transition_id
      /\ \A c \in net : /\ c.transition_id <= transition_id
                        /\ c.transition_id = transition_id => c.mode = desired_mode
      /\ l_transition_id <= transition_id
      /\ l_transition_id = transition_id /\ l_transition_mode = "SourceAndRepair"
           => desired_mode = "SourceAndRepair"
  BY DEF CommandsOrdered
<1>2. UNCHANGED <<l_transition_id, l_transition_mode>>
  BY DEF Tick, lvars
<1>3. \A c \in net' : c \in net \/ (c.transition_id = transition_id' /\ c.mode = desired_mode')
  BY DEF Tick, SendDesired
<1>4. /\ transition_id \in Nat /\ transition_id' \in Nat /\ l_transition_id \in Nat
      /\ \A c \in net : c.transition_id \in Nat
  BY DEF TypeOK, Command
<1>5. CASE UNCHANGED <<transition_id, desired_mode, wall>>
  BY <1>1, <1>2, <1>3, <1>4, <1>5 DEF CommandsOrdered
<1>6. CASE transition_id' > transition_id /\ wall' >= transition_id'
  BY <1>1, <1>2, <1>3, <1>4, <1>6 DEF CommandsOrdered
<1>. QED
  BY <1>1, <1>5, <1>6, TickTransition

\* Applying a command that is in order keeps the listener behind the
\* controller.
LEMMA ReceiveOrdered ==
  ASSUME TypeOK, CommandsOrdered, NEW c \in net, Receive(c), net' \subseteq net,
         UNCHANGED <<transition_id, desired_mode, wall, clock_monotone>>
  PROVE  CommandsOrdered'
  BY DEF Receive, ApplyFailoverMode, CommandsOrdered, lvars

\* The commands in flight, the listener and the controller stay in order.
THEOREM OrderCorrect == Spec => []CommandsOrdered
<1>1. Init => CommandsOrdered
  BY DEF Init, CommandsOrdered
<1>2. TypeOK /\ TypeOK' /\ CommandsOrdered /\ [Next]_vars => CommandsOrdered'
  <2> SUFFICES ASSUME TypeOK, TypeOK', CommandsOrdered, [Next]_vars
               PROVE  CommandsOrdered'
    OBVIOUS
  <2>1. CASE ControllerStart
    <3> PICK w \in WallReadings : transition_id' = Max2(w, 1) /\ wall' = w
      BY <2>1 DEF ControllerStart
    <3>1. w \in 1..MaxTransition /\ (clock_monotone => w > wall)
      BY WallReadingsType
    <3>2. transition_id' = w
      BY <3>1 DEF Max2
    <3>3. UNCHANGED <<net, clock_monotone, l_transition_id, l_transition_mode>>
      BY <2>1 DEF ControllerStart, lvars
    <3>4. \A c \in net : c.transition_id \in Nat
      BY DEF TypeOK, Command
    <3>. QED
      BY <3>1, <3>2, <3>3, <3>4 DEF CommandsOrdered, TypeOK
  <2>2. CASE Tick
    BY <2>2, TickOrdered
  <2>3. CASE \E c \in net : Deliver(c) \/ DeliverDuplicate(c)
    BY <2>3, ReceiveOrdered DEF Deliver, DeliverDuplicate, cvars
  <2>4. CASE LeaseExpires
    BY <2>4 DEF LeaseExpires, CommandsOrdered, cvars, evars
  <2>5. CASE ListenerRestart
    BY <2>5 DEF ListenerRestart, CommandsOrdered, cvars, TypeOK
  <2>6. CASE \E c \in net : Drop(c)
    BY <2>6 DEF Drop, CommandsOrdered, cvars, lvars
  <2>7. CASE UNCHANGED <<transition_id, desired_mode, l_transition_id, l_transition_mode,
                         evars>>
    BY <2>7 DEF CommandsOrdered, evars
  <2>8. CASE ControllerCrash
    BY <2>8 DEF ControllerCrash, CommandsOrdered, lvars
  <2>. QED
    BY <2>1, <2>2, <2>3, <2>4, <2>5, <2>6, <2>7, <2>8
    DEF Next, Observe, Elapse, vars, cvars, lvars
<1>. QED
  BY <1>1, <1>2, TypeCorrect, PTL DEF Spec

\* The listener never runs ahead of the controller, and never holds the
\* controller's current transition in a mode the controller does not want.
THEOREM ListenerFollows == Spec => []ListenerFollowsController
<1>1. CommandsOrdered /\ PromotedOnlyUnderLease => ListenerFollowsController
  BY DEF CommandsOrdered, PromotedOnlyUnderLease, ListenerFollowsController
<1>. QED
  BY <1>1, OrderCorrect, LeaseCorrect, PTL

(***************************************************************************)
(* Make before break.                                                      *)
(***************************************************************************)
\* The recovery that is being measured began after the last silent tick.
RecoverySinceSilence == recovered_since <= silent_tick

\* The measured recovery window never reaches back beyond a silent tick.
THEOREM RecoveryWindow == Spec => []RecoverySinceSilence
<1>1. Init => RecoverySinceSilence
  BY DEF Init, ControllerInit, RecoverySinceSilence, Never
<1>2. TypeOK /\ ControllerConsistent /\ RecoverySinceSilence /\ [Next]_vars
        => RecoverySinceSilence'
  <2> SUFFICES ASSUME TypeOK, ControllerConsistent, RecoverySinceSilence, [Next]_vars
               PROVE  RecoverySinceSilence'
    OBVIOUS
  <2>1. CASE ControllerStart
    BY <2>1 DEF ControllerStart, RecoverySinceSilence, Never
  <2>2. CASE Tick
    <3>1. silent_tick' = (IF primary_recent THEN silent_tick ELSE 0)
      BY <2>2 DEF Tick
    <3>2. silent_tick \in Nat
      BY DEF TypeOK
    <3>3. CASE recovered_since' = Never
      BY <3>1, <3>2, <3>3 DEF RecoverySinceSilence, Never
    <3>4. CASE Recovering /\ primary_recent
      BY <3>1, <3>2, <3>4 DEF Recovering, RecoveredSince, RecoverySinceSilence, Never
    <3>5. CASE /\ state \in {"Arming", "Healthy", "SecondaryUnavailable"}
               /\ recovered_since' = recovered_since
      BY <3>1, <3>2, <3>5 DEF ControllerConsistent, RecoverySinceSilence, Never
    <3>. QED
      BY <2>2, <3>3, <3>4, <3>5, TickOutcome
      DEF Promote, Demote, RecoveryBroken, SetState
  <2>3. CASE Elapse
    BY <2>3 DEF Elapse, Older, Min2, Never, RecoverySinceSilence, TypeOK
  <2>. QED
    BY <2>1, <2>2, <2>3
    DEF Next, ControllerCrash, Observe, LeaseExpires, ListenerRestart, Deliver,
        DeliverDuplicate, Drop, vars, cvars, RecoverySinceSilence
<1>. QED
  BY <1>1, <1>2, TypeCorrect, ControllerCorrect, PTL DEF Spec

\* The controller demotes the secondary only after a whole recovery window in
\* which no tick saw the primary silent.
THEOREM MakeBeforeBreak == Spec => RecoveryIsContinuous
<1>1. TypeOK /\ RecoverySinceSilence /\ [Next]_vars
        => [ up /\ up' /\ desired_mode = "SourceAndRepair" /\ desired_mode' = "RepairOnly"
               => silent_tick >= Recovery ]_vars
  <2> SUFFICES ASSUME TypeOK, RecoverySinceSilence, Next, up, up',
                      desired_mode = "SourceAndRepair", desired_mode' = "RepairOnly"
               PROVE  silent_tick >= Recovery
    OBVIOUS
  <2>1. Tick
    BY DEF Next, ControllerStart, ControllerCrash, Observe, LeaseExpires, ListenerRestart,
           Deliver, DeliverDuplicate, Drop, Elapse, cvars
  <2>2. RecoveredSince >= Recovery
    BY <2>1, TickOutcome DEF Promote, Recovering, RecoveryBroken, SetState
  <2>. QED
    BY <2>2 DEF RecoveredSince, RecoverySinceSilence, TypeOK, Never
<1>. QED
  BY <1>1, TypeCorrect, RecoveryWindow, PTL DEF Spec, RecoveryIsContinuous
=============================================================================
