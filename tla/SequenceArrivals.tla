---------------------------- MODULE SequenceArrivals ----------------------------
(***************************************************************************)
(* A flow's packets arrive in any order, with losses, repetitions and      *)
(* wrap-arounds, and the tracker of src/src/udp_fec.rs follows them.       *)
(***************************************************************************)
EXTENDS SequenceTracker

CONSTANTS ArrivalLimit   \* bound: packets that arrive, too few to come round to a gap again

ASSUME ArrivalAssumption == ArrivalLimit \in Nat /\ ArrivalLimit + MaxTrackedGaps <= SequenceModulus

VARIABLES tracker,    \* BoundedSequenceTracker
          arrivals    \* history: the sequences that arrived

arrivalVars == <<tracker, arrivals>>

PacketArrives(sequence) ==
    /\ Len(arrivals) < ArrivalLimit
    /\ tracker' = ObserveSequence(tracker, sequence)
    /\ arrivals' = Append(arrivals, sequence)

ArrivalInit == tracker = NoTracker /\ arrivals = <<>>

ArrivalNext == \E sequence \in 0 .. SequenceModulus - 1 : PacketArrives(sequence)

ArrivalSpec == ArrivalInit /\ [][ArrivalNext]_arrivalVars
-----------------------------------------------------------------------------
\* What is tracked as missing is what the arrivals say: the newest
\* MaxTrackedGaps sequences that the last jump went over and that have not
\* arrived since, also when the jump crosses the wrap of the sequence and when
\* late or repeated packets follow it (observe, udp_fec.rs:269-302).
GapsFollowArrivals == tracker \in Trackers /\ tracker.missing = MissingOf(arrivals)
=============================================================================
