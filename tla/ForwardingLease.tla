--------------------------- MODULE ForwardingLease ---------------------------
(***************************************************************************)
(* What the failover listener promises about one forwarding path, without  *)
(* commands, datagrams, clocks or modes: the path is granted to            *)
(* transitions in increasing order, a grant that ended is never revived,   *)
(* and only a restart of the relay forgets which transitions were used.    *)
(***************************************************************************)
EXTENDS Naturals

VARIABLES
  granted,   \* the path forwards source symbols
  newest     \* the newest transition that was applied to it

lease == <<granted, newest>>

Init == granted = FALSE /\ newest = 0

\* A transition newer than every earlier one takes the path.
Grant ==
  /\ granted' = TRUE
  /\ newest' \in Nat /\ newest' > newest

\* The path returns to repair-only, by the same or by a newer transition.
Release ==
  /\ granted' = FALSE
  /\ newest' \in Nat /\ newest' >= newest

\* The relay restarts.
Forget == granted' = FALSE /\ newest' = 0

Next == Grant \/ Release \/ Forget

Spec == Init /\ [][Next]_lease
=============================================================================
