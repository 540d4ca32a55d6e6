-------------------------- MODULE MCSubscribeGate --------------------------
(***************************************************************************)
(* The binding of one endpoint in an old and a new epoch, and a capability *)
(* for each, which compete for the one admission slot.  The controller     *)
(* ends the old epoch, or withdraws the endpoint's grant.                  *)
(***************************************************************************)
EXTENDS SubscribeGate, TLC

CONSTANTS e1, t1, t2, c1, c2

B(epoch) == [key |-> 1, endpoint |-> e1, epoch |-> epoch, grant |-> 1]
MCBindings == {B(1), B(2)}
MCEvents == {[epoch |-> 2, endpoint |-> NoEndpoint, grant |-> 0],
             [epoch |-> 1, endpoint |-> e1, grant |-> 2]}
MCCapabilities ==
  {[id |-> 1, binding |-> B(1), expires |-> 1, key_bound |-> FALSE],
   [id |-> 2, binding |-> B(2), expires |-> 2, key_bound |-> TRUE]}
MCSymmetry == Permutations({t1, t2}) \cup Permutations({c1, c2})
=============================================================================
