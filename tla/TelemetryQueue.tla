----------------------------- MODULE TelemetryQueue -----------------------------
(***************************************************************************)
(* The sending side of fleet telemetry: LatestTelemetryQueue and           *)
(* TelemetryFecEncoder (src/src/telemetry_fec.rs) between the publisher's  *)
(* tick and the sender task of start_telemetry_fec_sender                  *)
(* (src/src/main.rs).  The queue keeps the newest blocks within two        *)
(* limits; the publisher unlocks it before it notifies, and the sender     *)
(* finds it empty before it waits.                                         *)
(*                                                                         *)
(* Abstractions: an envelope is its number and its length; the wire pacer  *)
(* only delays a datagram; counters of the monitor are left out.  "Sent"   *)
(* is attempted: a datagram that try_send_to refuses is counted and lost,  *)
(* like one that is lost on its way.  The encoder refuses only an empty or *)
(* oversized envelope: none is empty, and push lets in none too large.     *)
(***************************************************************************)
EXTENDS Integers, Sequences, SequencesExt, FiniteSets, FiniteSetsExt

CONSTANTS EnvelopeLengths,    \* lengths a snapshot may encode to
          MaxEnvelopeBytes, MaxQueueBlocks, MaxQueueBytes,
          SymbolSize,         \* TELEMETRY_SYMBOL_SIZE
          RepairPercent,
          EnvelopeLimit       \* bound: envelopes submitted

ASSUME TelemetryQueueAssumption ==
    /\ {MaxEnvelopeBytes, MaxQueueBytes, RepairPercent, EnvelopeLimit} \subseteq Nat
    /\ MaxQueueBlocks \in Nat \ {0} /\ SymbolSize \in Nat \ {0}
    /\ EnvelopeLengths \subseteq Nat \ {0}
    /\ MaxEnvelopeBytes <= MaxQueueBytes

VARIABLES queue,       \* QueueState: the blocks, oldest first, and their bytes
          permit,      \* Notify: a stored permit
          publisher,   \* "idle", or "unlocked" between the push and the notify
          sender,      \* the sender task
          submitted,   \* envelopes numbered so far
          discarded,   \* history: numbers the queue threw away
          unsent       \* history: blocks the sender left before their last source symbol

telemetryQueueVars == <<queue, permit, publisher, sender, submitted, discarded, unsent>>

Trying  == [pc |-> "trying"]
Waiting == [pc |-> "waiting"]
-----------------------------------------------------------------------------
BytesOf(blocks) == SumFunction([i \in DOMAIN blocks |-> blocks[i].length])

\* How many blocks from the front go before an envelope of this length fits.
Replaced(blocks, length) ==
    Min({n \in 0 .. Len(blocks) :
            n = Len(blocks) \/ /\ Len(blocks) - n < MaxQueueBlocks
                               /\ BytesOf(SubSeq(blocks, n + 1, Len(blocks))) + length <= MaxQueueBytes})

\* LatestTelemetryQueue::push up to drop(state).
PushEnvelope(length) ==
    LET n == Replaced(queue.blocks, length)
    IN  /\ publisher = "idle" /\ submitted < EnvelopeLimit
        /\ length <= MaxEnvelopeBytes
        /\ queue' = [blocks |-> Append(SubSeq(queue.blocks, n + 1, Len(queue.blocks)),
                                       [number |-> submitted + 1, length |-> length]),
                     bytes |-> queue.bytes - BytesOf(SubSeq(queue.blocks, 1, n)) + length]
        /\ discarded' = discarded \cup {queue.blocks[i].number : i \in 1 .. n}
        /\ submitted' = submitted + 1
        /\ publisher' = "unlocked"
        /\ UNCHANGED <<permit, sender, unsent>>

\* An envelope above the limit is refused and only counted.
PushOversized(length) ==
    /\ publisher = "idle" /\ submitted < EnvelopeLimit
    /\ length > MaxEnvelopeBytes
    /\ submitted' = submitted + 1
    /\ UNCHANGED <<queue, permit, publisher, sender, discarded, unsent>>

\* notify_one wakes the waiting sender, or leaves one permit.
BugNotifyOne ==
    /\ publisher = "unlocked" /\ publisher' = "idle"
    /\ sender' = IF sender = Waiting THEN Trying ELSE sender
    /\ UNCHANGED <<queue, permit, submitted, discarded, unsent>>

NotifyOne ==
    /\ publisher = "unlocked" /\ publisher' = "idle"
    /\ IF sender = Waiting THEN sender' = Trying /\ permit' = permit
       ELSE sender' = sender /\ permit' = TRUE
    /\ UNCHANGED <<queue, submitted, discarded, unsent>>
-----------------------------------------------------------------------------
CeilDiv(a, b) == (a + b - 1) \div b

SourceSymbols(length) == CeilDiv(length, SymbolSize)

RepairSymbols(length) == Max({CeilDiv(SourceSymbols(length) * RepairPercent, 100), 1})

\* try_pop hands over a block, which is encoded, or the sender goes to wait.
TryPop ==
    /\ sender = Trying
    /\ IF queue.blocks = <<>>
       THEN sender' = [pc |-> "empty"] /\ UNCHANGED queue
       ELSE LET b == Head(queue.blocks)
            IN  /\ queue' = [blocks |-> Tail(queue.blocks), bytes |-> queue.bytes - b.length]
                /\ sender' = [pc |-> "sending", number |-> b.number, index |-> 0,
                              source |-> SourceSymbols(b.length),
                              total |-> SourceSymbols(b.length) + RepairSymbols(b.length)]
    /\ UNCHANGED <<permit, publisher, submitted, discarded, unsent>>

\* notified(): a stored permit is taken at once.
Notified ==
    /\ sender.pc = "empty"
    /\ sender' = IF permit THEN Trying ELSE Waiting
    /\ permit' = FALSE
    /\ UNCHANGED <<queue, publisher, submitted, discarded, unsent>>

\* The repairs of a block are skipped as soon as a newer block waits.
SkipsRepair == sender.index >= sender.source /\ queue.blocks # <<>>

\* One datagram goes to every target.
SendDatagram ==
    /\ sender.pc = "sending"
    /\ LET finished == sender.index = sender.total
       IN  IF finished \/ SkipsRepair
           THEN /\ sender' = Trying
                /\ unsent' = IF sender.index < sender.source THEN unsent \cup {sender.number} ELSE unsent
           ELSE sender' = [sender EXCEPT !.index = @ + 1] /\ UNCHANGED unsent
    /\ UNCHANGED <<queue, permit, publisher, submitted, discarded>>

TelemetryQueueInit ==
    /\ queue = [blocks |-> <<>>, bytes |-> 0]
    /\ permit = FALSE /\ publisher = "idle" /\ sender = Trying
    /\ submitted = 0 /\ discarded = {} /\ unsent = {}

TelemetryQueueNext ==
    \/ \E length \in EnvelopeLengths : PushEnvelope(length) \/ PushOversized(length)
    \/ NotifyOne
    \/ TryPop \/ Notified \/ SendDatagram

TelemetryQueueSpec == TelemetryQueueInit /\ [][TelemetryQueueNext]_telemetryQueueVars
-----------------------------------------------------------------------------
\* The type of the queue and the sender.
TelemetryQueueTypeOK ==
    /\ queue.bytes \in 0 .. MaxQueueBytes
    /\ queue.blocks \in Seq([number : 1 .. EnvelopeLimit, length : EnvelopeLengths])
    /\ permit \in BOOLEAN /\ publisher \in {"idle", "unlocked"}
    /\ sender.pc \in {"trying", "empty", "waiting", "sending"}

\* No block is stranded: while the sender waits, the queue is empty, or the
\* publisher is about to notify (telemetry_fec.rs:184-203, main.rs:10911-10917).
\* The queue's two limits may have thrown away several blocks behind one permit.
NoStrandedTelemetry ==
    sender = Waiting /\ queue.blocks # <<>> => publisher = "unlocked"

\* Latest wins: what the queue holds is newer than everything it threw away, the
\* byte count is that of the blocks, and a block that was taken out has all its
\* source symbols sent although newer blocks arrive meanwhile.
LatestWins ==
    /\ \A i \in DOMAIN queue.blocks :
          /\ \A d \in discarded : d < queue.blocks[i].number
          /\ \A j \in DOMAIN queue.blocks : i < j => queue.blocks[i].number < queue.blocks[j].number
    /\ queue.bytes = BytesOf(queue.blocks)
    /\ Len(queue.blocks) <= MaxQueueBlocks /\ queue.bytes <= MaxQueueBytes
    /\ unsent = {}

\* The latest-wins queue between publisher and sender, its type included.
TelemetryQueueSound == TelemetryQueueTypeOK /\ NoStrandedTelemetry /\ LatestWins
=============================================================================
