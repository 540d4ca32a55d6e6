--------------------------- MODULE MCTalkbackLane ---------------------------
(***************************************************************************)
(* One audience (or two of one session), a publisher and a receiver for    *)
(* each of two participants, and two snapshots of different generations.   *)
(***************************************************************************)
EXTENDS TalkbackLane, TLC

CONSTANTS a1, a2, s1, p, q, r

MCSessionOf == [a \in Audiences |-> s1]
\* p and its monitor q belong to one participant, r to another
MCParticipantOf == (p :> "x") @@ (q :> "x") @@ (r :> "y")
MCSnapshots ==
  {[generation |-> 1, publishers |-> {[endpoint |-> p, grant |-> 1]}, subscribers |-> {q, r}],
   [generation |-> 2, publishers |-> {[endpoint |-> p, grant |-> 2]}, subscribers |-> {r}]}
=============================================================================
