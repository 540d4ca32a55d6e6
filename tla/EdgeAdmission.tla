----------------------------- MODULE EdgeAdmission -----------------------------
(***************************************************************************)
(* Playback admission of an edge (src/src/edge_admission.rs).  Egress is   *)
(* counted in one bucket a second; a request reads the rate under the      *)
(* window's lock, then moves the shared overload flag with a load and a    *)
(* store of their own, counts the active sessions, and then decides, each  *)
(* under the sessions' lock.  Nothing keeps those steps of two requests    *)
(* apart, and every clock is read before the lock it is used under: by     *)
(* then it may be of the past.                                             *)
(*                                                                         *)
(* Abstractions: milliseconds are seconds; the counters of rejected and    *)
(* admitted requests are left out; saturation at 2^64 is not reached.      *)
(***************************************************************************)
EXTENDS Integers, Sequences, FiniteSets, FiniteSetsExt, Functions, Maps

CONSTANTS ConfiguredCapacity, ConfiguredAdmission, ConfiguredRecovery,
          ConfiguredWindow, ConfiguredSustained, ConfiguredIdle, ConfiguredSessions,
          PlaybackSessions,   \* session ids a request may carry
          AdmissionThreads,   \* requests in progress at one time
          AdmissionTimeLimit, \* bound: the clock stops here
          EgressLimit,        \* bound: byte counts recorded
          RequestLimit        \* bound: requests and snapshots started

\* EdgeAdmissionConfig::normalized
Clamp(value, low, high) == IF value < low THEN low ELSE IF value > high THEN high ELSE value
CapacityBps      == Max({ConfiguredCapacity, 1})
AdmissionPercent == Clamp(ConfiguredAdmission, 1, 100)
RecoveryPercent  == Clamp(ConfiguredRecovery, 1, Max({AdmissionPercent - 1, 1}))
WindowSeconds    == Max({ConfiguredWindow, 1})
SustainedSeconds == Clamp(ConfiguredSustained, 1, WindowSeconds)
IdleSeconds      == Max({ConfiguredIdle, 1})
SessionLimit     == Max({ConfiguredSessions, 1})

AdmissionBps == (CapacityBps * AdmissionPercent) \div 100
RecoveryBps  == (CapacityBps * RecoveryPercent) \div 100

ASSUME AdmissionAssumption ==
    /\ {ConfiguredCapacity, ConfiguredAdmission, ConfiguredRecovery, ConfiguredWindow,
        ConfiguredSustained, ConfiguredIdle, ConfiguredSessions, AdmissionTimeLimit,
        EgressLimit, RequestLimit} \subseteq Nat
    /\ RecoveryBps > 0

VARIABLES buckets,      \* RollingEgressWindow: seq of [second, bytes]
          overloaded,   \* AtomicBool
          sessions,     \* session -> last seen
          requests,     \* per thread: where an admission stands
          edge_now,     \* started.elapsed()
          started,      \* requests started
          traffic,      \* history: second -> bytes recorded while it lasted
          answers       \* history: session -> [served, at, seen]: whether the last decision
                        \* served it, when it was last served, and by what clock

admissionVars == <<buckets, overloaded, sessions, requests, edge_now, started, traffic, answers>>

Idle == [pc |-> "idle"]
Anonymous == "anonymous"
-----------------------------------------------------------------------------
\* A window that is never pruned.
BugPruned(window, second) == window

\* prune: pops from the front only, so a late bucket behind a newer one stays.
Pruned(window, second) ==
    LET oldest == Max({second - (WindowSeconds - 1), 0})
        kept   == {i \in DOMAIN window : window[i].second >= oldest}
    IN  IF kept = {} THEN <<>> ELSE SubSeq(window, Min(kept), Len(window))

Recorded(window, second, bytes) ==
    LET w == Pruned(window, second)
    IN  IF w # <<>> /\ w[Len(w)].second = second
        THEN [w EXCEPT ![Len(w)].bytes = @ + bytes]
        ELSE Append(w, [second |-> second, bytes |-> bytes])

BucketBytes(window) == [i \in DOMAIN window |-> window[i].bytes]

BytesIn(window) == SumFunctionOnSet(BucketBytes(window), DOMAIN window)

\* rate: bits per second over the seconds since the first bucket.
EgressObservation(window, second) ==
    LET w    == Pruned(window, second)
        span == Min({Max({second - Head(w).second, 0}) + 1, WindowSeconds})
    IN  IF w = <<>> THEN [bps |-> 0, seconds |-> 0]
        ELSE [bps |-> (BytesIn(w) * 8) \div span, seconds |-> span]

\* The hysteresis: overload starts at the admission rate, once it was sustained,
\* and ends below the recovery rate.
Overloaded(was, observed) ==
    IF was THEN observed.bps >= RecoveryBps
    ELSE observed.seconds >= SustainedSeconds /\ observed.bps >= AdmissionBps
-----------------------------------------------------------------------------
\* record_bytes: the second is read first, the window locked afterwards.
RecordBytes(second) ==
    /\ second <= edge_now
    /\ SumFunctionOnSet(traffic, DOMAIN traffic) < EgressLimit
    /\ buckets' = Recorded(buckets, second, 1)
    /\ traffic' = [traffic EXCEPT ![edge_now] = @ + 1]
    /\ UNCHANGED <<overloaded, sessions, requests, edge_now, started, answers>>

\* snapshot: the rate under the window's lock, which also prunes the window, for
\* a second that was read before.
ReadRate(t, session, second) ==
    /\ requests[t] = Idle
    /\ started < RequestLimit /\ started' = started + 1
    /\ second <= edge_now
    /\ buckets' = Pruned(buckets, second)
    /\ requests' = [requests EXCEPT ![t] =
          [pc |-> "rated", session |-> session, second |-> second, at |-> edge_now,
           observed |-> EgressObservation(buckets, second)]]
    /\ UNCHANGED <<overloaded, sessions, edge_now, traffic, answers>>

LoadOverloaded(t) ==
    /\ requests[t].pc = "rated"
    /\ requests' = [requests EXCEPT ![t] =
          [pc |-> "loaded", session |-> @.session, second |-> @.second, at |-> @.at,
           observed |-> @.observed, overloaded |-> Overloaded(overloaded, @.observed)]]
    /\ UNCHANGED <<buckets, overloaded, sessions, edge_now, started, traffic, answers>>

\* From here on the request reads the clock at some time since its last step.
StoreOverloaded(t) ==
    /\ requests[t].pc = "loaded"
    /\ overloaded' = requests[t].overloaded
    /\ requests' = [requests EXCEPT ![t] =
          [pc |-> "stored", session |-> @.session, overloaded |-> @.overloaded, since |-> edge_now]]
    /\ UNCHANGED <<buckets, sessions, edge_now, started, traffic, answers>>

ClockRead(t, elapsed) == elapsed \in requests[t].since .. edge_now

\* prune_sessions
ActiveSessions(elapsed) ==
    [s \in {x \in DOMAIN sessions : elapsed - sessions[x] < IdleSeconds} |-> sessions[s]]

\* active_sessions_at: the count of the active sessions, which prunes them.
CountSessions(t, elapsed) ==
    /\ requests[t].pc = "stored" /\ ClockRead(t, elapsed)
    /\ sessions' = ActiveSessions(elapsed)
    /\ requests' = [requests EXCEPT ![t].pc = "counted", ![t].since = edge_now]
    /\ UNCHANGED <<buckets, overloaded, edge_now, started, traffic, answers>>

\* A snapshot for the metrics ends where an admission goes on to its decision.
SnapshotTaken(t) ==
    /\ requests[t].pc = "counted" /\ requests[t].session = "snapshot"
    /\ requests' = [requests EXCEPT ![t] = Idle]
    /\ UNCHANGED <<buckets, overloaded, sessions, edge_now, started, traffic, answers>>

\* At the limit the session seen longest ago makes room; among equals the map's
\* order decides.
MakesRoom(active) ==
    IF Cardinality(DOMAIN active) < SessionLimit THEN {active}
    ELSE {Without(active, {s}) : s \in {x \in DOMAIN active :
             \A y \in DOMAIN active : active[x] <= active[y]}}

\* Overload that is looked at before the session.
BugAnswer(session, active, isOverloaded) ==
    IF isOverloaded THEN "Rejected"
    ELSE IF session = Anonymous THEN "Anonymous"
    ELSE IF session \in DOMAIN active THEN "Existing"
    ELSE "Admitted"

Answer(session, active, isOverloaded) ==
    IF session = Anonymous THEN IF isOverloaded THEN "Rejected" ELSE "Anonymous"
    ELSE IF session \in DOMAIN active THEN "Existing"
    ELSE IF isOverloaded THEN "Rejected"
    ELSE "Admitted"

\* What is remembered of the answers a session got.
WithAnswer(session, served, elapsed) ==
    With(answers, session,
         IF served THEN [served |-> TRUE, at |-> edge_now, seen |-> elapsed]
         ELSE [Entry(answers, session, [served |-> FALSE, at |-> -1, seen |-> -1])
                  EXCEPT !.served = FALSE])

\* admit_playback_at, with the overload verdict of this request's own snapshot.
AdmitPlayback(t, elapsed) ==
    LET r      == requests[t]
        active == IF r.session = Anonymous THEN sessions ELSE ActiveSessions(elapsed)
        answer == Answer(r.session, active, r.overloaded)
    IN  /\ r.pc = "counted" /\ r.session # "snapshot"
        /\ ClockRead(t, elapsed)
        /\ \/ answer \in {"Anonymous", "Rejected"} /\ sessions' = active
           \/ answer = "Existing" /\ sessions' = [active EXCEPT ![r.session] = elapsed]
           \/ /\ answer = "Admitted"
              /\ \E room \in MakesRoom(active) : sessions' = With(room, r.session, elapsed)
        /\ answers' = IF r.session = Anonymous THEN answers
                      ELSE WithAnswer(r.session, answer # "Rejected", elapsed)
        /\ requests' = [requests EXCEPT ![t] = [pc |-> "idle"]]
        /\ UNCHANGED <<buckets, overloaded, edge_now, started, traffic>>

AdmissionElapse ==
    /\ edge_now < AdmissionTimeLimit
    /\ edge_now' = edge_now + 1
    /\ UNCHANGED <<buckets, overloaded, sessions, requests, started, traffic, answers>>

AdmissionInit ==
    /\ buckets = <<>> /\ overloaded = FALSE /\ sessions = EmptyMap
    /\ requests = [t \in AdmissionThreads |-> Idle]
    /\ edge_now = 0 /\ started = 0
    /\ traffic = [s \in 0 .. AdmissionTimeLimit |-> 0]
    /\ answers = EmptyMap

AdmissionNext ==
    \/ \E second \in 0 .. AdmissionTimeLimit : RecordBytes(second)
    \/ \E t \in AdmissionThreads :
          \/ \E s \in PlaybackSessions \cup {Anonymous, "snapshot"},
               second \in 0 .. AdmissionTimeLimit : ReadRate(t, s, second)
          \/ LoadOverloaded(t) \/ StoreOverloaded(t) \/ SnapshotTaken(t)
          \/ \E elapsed \in 0 .. AdmissionTimeLimit :
                CountSessions(t, elapsed) \/ AdmitPlayback(t, elapsed)
    \/ AdmissionElapse

AdmissionSpec == AdmissionInit /\ [][AdmissionNext]_admissionVars
-----------------------------------------------------------------------------
\* The type of the admission state.
AdmissionTypeOK ==
    /\ \A i \in DOMAIN buckets : buckets[i].second \in 0 .. edge_now /\ buckets[i].bytes \in Nat
    /\ overloaded \in BOOLEAN
    /\ DOMAIN sessions \subseteq PlaybackSessions
    /\ Cardinality(DOMAIN sessions) <= SessionLimit
    /\ \A t \in AdmissionThreads : requests[t].pc \in {"idle", "rated", "loaded", "stored", "counted"}

\* A verdict of overload is backed by traffic when it is reached: the bytes recorded from the first
\* second of the request's window until its rate was read reach the recovery rate
\* over the seconds it observed.  A burst that has left the window rejects nobody,
\* although a count may enter the window under an earlier second, behind a newer
\* bucket, and whatever other requests did to the flag in between
\* (edge_admission.rs:152-170, 262-305).  When the lock was taken later than the
\* request's second, the bytes of the time between count too, over seconds that
\* end with that second: the verdict may then be of a shorter time than it took.
OverloadIsBacked ==
    \A t \in AdmissionThreads :
        requests[t].pc = "loaded" /\ requests[t].overloaded =>
            LET r == requests[t]
                window == {s \in 0 .. r.at : s > r.second - WindowSeconds}
            IN  8 * SumFunctionOnSet(traffic, window) >= RecoveryBps * r.observed.seconds

\* A session the edge serves keeps being served: while it was seen less than the
\* idle time ago, it is only turned away if at least SessionLimit other sessions
\* were served after it, or by a clock no earlier than its own
\* (edge_admission.rs:190-216, 307-310).  Overload refuses newcomers.
ServedStaysServed ==
    [][\A s \in DOMAIN answers :
         /\ answers[s].served /\ edge_now - answers[s].seen < IdleSeconds
         /\ ~answers'[s].served
         => Cardinality({o \in DOMAIN answers \ {s} :
                \/ answers[o].at >= answers[s].at
                \/ answers[o].seen >= answers[s].seen}) >= SessionLimit]_answers

\* Admission to playback, its type included.
AdmissionSound == AdmissionTypeOK /\ OverloadIsBacked
=============================================================================
