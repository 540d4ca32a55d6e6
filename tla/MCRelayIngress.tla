--------------------------- MODULE MCRelayIngress ---------------------------
(***************************************************************************)
(* Two payloads (a1, a2) of one logical object and one of another (b),     *)
(* a primary and a secondary parent that are controlled, and the primary's *)
(* node on an authenticated session that claims the secondary path.  One   *)
(* announcement of b is of the wrong kind.                                 *)
(***************************************************************************)
EXTENDS RelayIngress, TLC

CONSTANTS a1, a2, b, sub

MCKeys      == {a1, a2, b}
MCLogicalOf == (a1 :> 1) @@ (a2 :> 1) @@ (b :> 2)
MCProfiles  ==
  {[key |-> a1, binding |-> sub, deadline |-> 2, length |-> 2, symbols |-> 2, kind_ok |-> TRUE],
   [key |-> a2, binding |-> sub, deadline |-> 2, length |-> 1, symbols |-> 1, kind_ok |-> TRUE],
   [key |-> b, binding |-> sub, deadline |-> 1, length |-> 1, symbols |-> 1, kind_ok |-> TRUE],
   [key |-> b, binding |-> sub, deadline |-> 2, length |-> 1, symbols |-> 1, kind_ok |-> FALSE]}
MCSessions  ==
  {[id |-> 1, peer |-> "p", path |-> "Primary",   binding |-> sub, controlled |-> TRUE],
   [id |-> 2, peer |-> "q", path |-> "Secondary", binding |-> sub, controlled |-> TRUE],
   [id |-> 3, peer |-> "p", path |-> "Secondary", binding |-> sub, controlled |-> FALSE]}
MCPermitted == {<<"Primary", "Primary">>, <<"Secondary", "Secondary">>}
=============================================================================
