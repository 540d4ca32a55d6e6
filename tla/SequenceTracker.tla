---------------------------- MODULE SequenceTracker ----------------------------
(***************************************************************************)
(* BoundedSequenceTracker (src/src/udp_fec.rs): which of the 32-bit packet *)
(* sequences of a flow are missing.  Here they are modulo SequenceModulus. *)
(* The statistics that only count (received, highest_seen, reordered) are  *)
(* left out.                                                               *)
(***************************************************************************)
EXTENDS Integers, Sequences, FiniteSets, FiniteSetsExt

CONSTANTS SequenceModulus,   \* 2^32
          MaxTrackedGaps     \* max_tracked_sequence_gaps_per_flow

ASSUME TrackerAssumption ==
    /\ SequenceModulus \in Nat \ {0} /\ SequenceModulus % 2 = 0
    /\ MaxTrackedGaps \in Nat

\* next_expected is -1 for None.
NoTracker == [next_expected |-> -1, missing |-> {}]

Trackers == [next_expected : -1 .. SequenceModulus - 1, missing : SUBSET (0 .. SequenceModulus - 1)]

WrappingSub(a, b) == (a - b) % SequenceModulus

Forward(diff) == diff < SequenceModulus \div 2

\* A plain subtraction, below zero after a wrap.
BugSkipped(sequence, diff) ==
    {sequence - k : k \in 1 .. Min({diff, MaxTrackedGaps})}

\* The sequences a jump of diff leaves missing: the newest MaxTrackedGaps of them.
Skipped(sequence, diff) ==
    {WrappingSub(sequence, k) : k \in 1 .. Min({diff, MaxTrackedGaps})}

ObserveSequence(t, sequence) ==
    LET diff == WrappingSub(sequence, t.next_expected)
        next == (sequence + 1) % SequenceModulus
    IN  IF t.next_expected = -1
        THEN [t EXCEPT !.next_expected = next]
        ELSE IF Forward(diff)
             THEN [next_expected |-> next,
                   missing |-> IF diff > 0 THEN Skipped(sequence, diff) ELSE t.missing]
             ELSE [t EXCEPT !.missing = @ \ {sequence}]
-----------------------------------------------------------------------------
\* The reference.  Of the newest arrival so far (-1 for none) and the next one,
\* the newer: the next one is late when it lies behind the newest.
Newer(newest, s) ==
    IF newest = -1 \/ Forward(WrappingSub(s, (newest + 1) % SequenceModulus)) THEN s ELSE newest

\* The newest of the first i arrivals.
Newest(arrivals, i) ==
    LET newest[k \in 0 .. i] == IF k = 0 THEN -1 ELSE Newer(newest[k - 1], arrivals[k])
    IN  newest[i]

\* How many sequences the i-th arrival jumped over.
Jumps(arrivals, i) ==
    LET gap == WrappingSub(arrivals[i], (Newest(arrivals, i - 1) + 1) % SequenceModulus)
    IN  IF i > 1 /\ Forward(gap) THEN gap ELSE 0

\* What is missing after a run of arrivals: of the sequences the last jump went
\* over, the newest MaxTrackedGaps, less those that have arrived since.
MissingOf(arrivals) ==
    LET jumps == {i \in 1 .. Len(arrivals) : Jumps(arrivals, i) > 0}
        last  == Max(jumps)
    IN  IF jumps = {} THEN {}
        ELSE {s \in 0 .. SequenceModulus - 1 :
                 /\ WrappingSub(arrivals[last], s) \in 1 .. Min({Jumps(arrivals, last), MaxTrackedGaps})
                 /\ \A j \in last + 1 .. Len(arrivals) : arrivals[j] # s}
=============================================================================
