----------------------------- MODULE EdgeResponses -----------------------------
(***************************************************************************)
(* What an edge remembers of its answers (EdgeLoad::record_response and    *)
(* EdgeLoad::snapshot, src/src/main.rs): counters, and a short list of     *)
(* recent answers that holds every error but only one success in an        *)
(* interval.  Handlers run it at the same time; each touches one atomic    *)
(* or takes one lock after the other.  A snapshot reads them one by one.   *)
(*                                                                         *)
(* Abstractions: an answer is its status; a handler reads the clock first, *)
(* so that its time may be behind when it gets to the list.                *)
(***************************************************************************)
EXTENDS Integers, Sequences, FiniteSets, FiniteSetsExt

CONSTANTS Handlers,
          RecentLimit,      \* EDGE_RECENT_RESPONSE_LIMIT
          SuccessInterval,  \* EDGE_RECENT_SUCCESS_INTERVAL_MS
          ResponseLimit,    \* bound: answers recorded
          ResponseTimeLimit \* bound: the clock stops here

ASSUME ResponsesAssumption ==
    /\ IsFiniteSet(Handlers)
    /\ {RecentLimit, SuccessInterval, ResponseLimit, ResponseTimeLimit} \subseteq Nat \ {0}

Statuses == {"success", "error", "not_found"}
Failed(status) == status # "success"
NoTime == 0

VARIABLES response_now,
          responses_total, response_errors, response_not_found,
          last_response,         \* last_response_unix_ms
          last_recent_success,   \* last_recent_success_unix_ms
          recent_responses,      \* the newest first
          handlers,              \* handler -> the answer it records
          service,               \* the snapshot being taken, field by field
          kept                   \* history: the entries pushed, the newest first

responseVars == <<response_now, responses_total, response_errors, response_not_found,
                  last_response, last_recent_success, recent_responses, handlers, service, kept>>

NoAnswerYet == [step |-> "idle"]
-----------------------------------------------------------------------------
\* record_edge_response: the clock is read before anything is counted.
BeginResponse(h, status) ==
    /\ handlers[h] = NoAnswerYet
    /\ responses_total + Cardinality({o \in Handlers : handlers[o].step = "total"}) < ResponseLimit
    /\ handlers' = [handlers EXCEPT ![h] = [step |-> "total", at |-> response_now,
                                            status |-> status]]
    /\ UNCHANGED <<response_now, responses_total, response_errors, response_not_found,
                   last_response, last_recent_success, recent_responses, service, kept>>

Goto(h, step) == handlers' = [handlers EXCEPT ![h].step = step]

CountTotal(h) ==
    /\ handlers[h].step = "total"
    /\ responses_total' = responses_total + 1
    /\ Goto(h, IF Failed(handlers[h].status) THEN "errors" ELSE "last")
    /\ UNCHANGED <<response_now, response_errors, response_not_found, last_response,
                   last_recent_success, recent_responses, service, kept>>

CountError(h) ==
    /\ handlers[h].step = "errors"
    /\ response_errors' = response_errors + 1
    /\ Goto(h, IF handlers[h].status = "not_found" THEN "missing" ELSE "last")
    /\ UNCHANGED <<response_now, responses_total, response_not_found, last_response,
                   last_recent_success, recent_responses, service, kept>>

CountNotFound(h) ==
    /\ handlers[h].step = "missing"
    /\ response_not_found' = response_not_found + 1
    /\ Goto(h, "last")
    /\ UNCHANGED <<response_now, responses_total, response_errors, last_response,
                   last_recent_success, recent_responses, service, kept>>

\* The time of the answer is stored as it is; an answer whose clock was read
\* earlier may set it back.  An error is kept without a question.
StoreLast(h) ==
    /\ handlers[h].step = "last"
    /\ last_response' = handlers[h].at
    /\ Goto(h, IF Failed(handlers[h].status) THEN "push" ELSE "gate")
    /\ UNCHANGED <<response_now, responses_total, response_errors, response_not_found,
                   last_recent_success, recent_responses, service, kept>>

\* A gate that opens at every new time.
BugSuccessDue(at) == last_recent_success = NoTime \/ at # last_recent_success

\* saturating_sub: an answer from before the last one that was kept is not due.
SuccessDue(at) == last_recent_success = NoTime \/ at - last_recent_success >= SuccessInterval

\* fetch_update: one step.
PassGate(h) ==
    /\ handlers[h].step = "gate"
    /\ IF SuccessDue(handlers[h].at)
       THEN last_recent_success' = handlers[h].at /\ Goto(h, "push")
       ELSE UNCHANGED last_recent_success /\ handlers' = [handlers EXCEPT ![h] = NoAnswerYet]
    /\ UNCHANGED <<response_now, responses_total, response_errors, response_not_found,
                   last_response, recent_responses, service, kept>>

PushRecent(h) ==
    LET entry == [at |-> handlers[h].at, status |-> handlers[h].status]
    IN  /\ handlers[h].step = "push"
        /\ recent_responses' = SubSeq(<<entry>> \o recent_responses, 1,
                                      Min({Len(recent_responses) + 1, RecentLimit}))
        /\ kept' = <<entry>> \o kept
        /\ handlers' = [handlers EXCEPT ![h] = NoAnswerYet]
        /\ UNCHANGED <<response_now, responses_total, response_errors, response_not_found,
                       last_response, last_recent_success, service>>
-----------------------------------------------------------------------------

\* EdgeLoad::snapshot: the list first, the counters after it.
SnapshotOrder == <<"recent", "responses_total", "response_errors", "response_not_found">>

FieldNow(field) ==
    CASE field = "recent" -> recent_responses
      [] field = "responses_total" -> responses_total
      [] field = "response_errors" -> response_errors
      [] field = "response_not_found" -> response_not_found

EmptyService == [recent |-> <<>>, responses_total |-> 0, response_errors |-> 0,
                 response_not_found |-> 0]

BeginSnapshot ==
    /\ service.read = Len(SnapshotOrder)
    /\ service' = [read |-> 0, fields |-> EmptyService]
    /\ UNCHANGED <<response_now, responses_total, response_errors, response_not_found,
                   last_response, last_recent_success, recent_responses, handlers, kept>>

ReadField ==
    /\ service.read < Len(SnapshotOrder)
    /\ LET field == SnapshotOrder[service.read + 1]
       IN  service' = [read |-> service.read + 1,
                       fields |-> [service.fields EXCEPT ![field] = FieldNow(field)]]
    /\ UNCHANGED <<response_now, responses_total, response_errors, response_not_found,
                   last_response, last_recent_success, recent_responses, handlers, kept>>

ResponseElapse ==
    /\ response_now < ResponseTimeLimit
    /\ response_now' = response_now + 1
    /\ UNCHANGED <<responses_total, response_errors, response_not_found, last_response,
                   last_recent_success, recent_responses, handlers, service, kept>>

ResponsesInit ==
    /\ response_now = 1
    /\ responses_total = 0 /\ response_errors = 0 /\ response_not_found = 0
    /\ last_response = NoTime /\ last_recent_success = NoTime
    /\ recent_responses = <<>> /\ kept = <<>>
    /\ handlers = [h \in Handlers |-> NoAnswerYet]
    /\ service = [read |-> Len(SnapshotOrder), fields |-> EmptyService]

ResponsesNext ==
    \/ \E h \in Handlers :
          \/ \E status \in Statuses : BeginResponse(h, status)
          \/ CountTotal(h) \/ CountError(h) \/ CountNotFound(h) \/ StoreLast(h) \/ PassGate(h)
          \/ PushRecent(h)
    \/ BeginSnapshot \/ ReadField
    \/ ResponseElapse

ResponsesSpec == ResponsesInit /\ [][ResponsesNext]_responseVars
-----------------------------------------------------------------------------
CountIn(entries, S) == Cardinality({i \in DOMAIN entries : entries[i].status \in S})

\* The alert made of a snapshot, "have returned N non-success response(s); latest
\* was ...", never names an answer it has not counted: a complete snapshot counts
\* every error its list shows, although answers are recorded while it is read
\* (main.rs:7497-7556, 9637-9662).
SnapshotCountsWhatItShows ==
    service.read = Len(SnapshotOrder) =>
        LET s == service.fields
        IN  /\ CountIn(s.recent, Statuses \ {"success"}) <= s.response_errors
            /\ CountIn(s.recent, {"not_found"}) <= s.response_not_found
            /\ Len(s.recent) <= s.responses_total

\* Successes that are kept are an interval apart, in whatever order the handlers
\* that answered them get to the gate and to the list, so that errors are not
\* pushed out by a flood of successes (main.rs:7590-7620).
SuccessesSpaced ==
    \A i, j \in DOMAIN kept :
        i # j /\ {kept[i].status, kept[j].status} = {"success"} =>
            \/ kept[i].at - kept[j].at >= SuccessInterval
            \/ kept[j].at - kept[i].at >= SuccessInterval

\* The record of answers, its type included.
ResponsesSound ==
    /\ recent_responses = SubSeq(kept, 1, Min({Len(kept), RecentLimit}))
    /\ {responses_total, response_errors, response_not_found} \subseteq 0 .. ResponseLimit
    /\ last_response \in 0 .. ResponseTimeLimit /\ last_recent_success \in 0 .. ResponseTimeLimit
    /\ SnapshotCountsWhatItShows /\ SuccessesSpaced
=============================================================================
