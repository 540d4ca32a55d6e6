--------------------------------- MODULE Maps ---------------------------------
(* Functions with a finite domain as the maps of the program, and the      *)
(* queues it retains some entries of.                                      *)
EXTENDS Naturals, Sequences, FiniteSets

\* The map f with the entry k |-> v, which replaces one that is there.
With(f, k, v) == [x \in DOMAIN f \cup {k} |-> IF x = k THEN v ELSE f[x]]

\* The map f without the entries of keys.
Without(f, keys) == [x \in DOMAIN f \ keys |-> f[x]]

\* The map of f's entries that satisfy Keep.
Retain(f, Keep(_)) == [x \in {y \in DOMAIN f : Keep(f[y])} |-> f[x]]

\* The entry of k, or default when there is none.
Entry(f, k, default) == IF k \in DOMAIN f THEN f[k] ELSE default

EmptyMap == [x \in {} |-> x]

\* The entries of s at the indices in kept, in their order.
Subsequence(s, kept) ==
    LET upto[i \in 0 .. Len(s)] ==
          IF i = 0 THEN <<>>
          ELSE IF i \in kept THEN Append(upto[i - 1], s[i])
          ELSE upto[i - 1]
    IN  upto[Len(s)]

\* The elements of S in a strict and total order, a set of pairs: the n-th is the
\* one with n - 1 elements before it.
InOrder(S, before) ==
    [n \in 1 .. Cardinality(S) |->
        CHOOSE x \in S : Cardinality({y \in S : <<y, x>> \in before}) = n - 1]
=============================================================================
