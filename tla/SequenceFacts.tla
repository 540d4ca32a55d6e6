---------------------------- MODULE SequenceFacts ----------------------------
(***************************************************************************)
(* What the proofs about queues and windows need of numbers, sets and      *)
(* sequences: every set of numbers has a least element and every finite    *)
(* one a greatest, induction up to a bound over a set, what is left of a   *)
(* queue that retains some of its entries, and what a sum over a finite    *)
(* set becomes when the set or the function changes.                       *)
(***************************************************************************)
EXTENDS Integers, Sequences, FiniteSetsExt, Functions, Maps, FiniteSetTheorems, TLAPS

\* A set of natural numbers has a least element: of the intervals that end in
\* it, one has no other inside.
LEMMA LeastElement ==
    ASSUME NEW T \in SUBSET Nat, T # {}
    PROVE  \E m \in T : \A k \in T : m <= k
<1>. DEFINE U == {0 .. n : n \in T}
<1>1. U \subseteq FiniteSubsetsOf(Nat) /\ U # {}
  <2>1. \A n \in T : 0 .. n \in SUBSET Nat /\ IsFiniteSet(0 .. n)
    BY FS_Interval
  <2>. QED
    BY <2>1 DEF FiniteSubsetsOf
<1>2. IsWellFoundedOn(StrictSubsetOrdering(Nat), FiniteSubsetsOf(Nat))
  BY FS_StrictSubsetOrderingWellFounded
<1>3. PICK x \in U : \A y \in U : ~(<<y, x>> \in StrictSubsetOrdering(Nat))
  <2>. HIDE DEF U
  <2>. QED
    BY <1>1, <1>2, WFMin
<1>4. PICK m \in T : x = 0 .. m
  BY <1>3
<1>5. ASSUME NEW k \in T, k < m
      PROVE  FALSE
  <2>1. 0 .. k \in U
    OBVIOUS
  <2>2. 0 .. k \subseteq 0 .. m /\ 0 .. k # 0 .. m
    <3>1. m \in 0 .. m /\ m \notin 0 .. k
      BY <1>5
    <3>. QED
      BY <1>5, <3>1
  <2>3. 0 .. k \in SUBSET Nat /\ 0 .. m \in SUBSET Nat
    OBVIOUS
  <2>4. <<0 .. k, 0 .. m>> \in StrictSubsetOrdering(Nat)
    BY <2>2, <2>3, Zenon DEF StrictSubsetOrdering
  <2>. QED
    BY <1>3, <1>4, <2>1, <2>4
<1>. QED
  BY <1>5

\* Induction up to n, over a set instead of a predicate.
LEMMA IntervalInduction ==
    ASSUME NEW n \in Nat, NEW S, 0 \in S,
           \A i \in 0 .. n : i < n /\ i \in S => i + 1 \in S
    PROVE  0 .. n \subseteq S
<1>. DEFINE T == (0 .. n) \ S
<1>1. T \in SUBSET Nat
  OBVIOUS
<1>2. ASSUME T # {}
      PROVE  FALSE
  <2>1. PICK m \in T : \A k \in T : m <= k
    <3>. HIDE DEF T
    <3>. QED
      BY <1>1, <1>2, LeastElement
  <2>2. m \in 0 .. n /\ m \notin S /\ m # 0
    BY <2>1
  <2>3. m - 1 \in 0 .. n /\ m - 1 < n /\ m - 1 \notin T
    BY <2>1, <2>2
  <2>4. m - 1 \in S
    BY <2>3
  <2>5. (m - 1) + 1 \in S
    BY <2>3, <2>4
  <2>. QED
    BY <2>2, <2>5
<1>. QED
  BY <1>2

\* What the recursion of Subsequence computes, for the first n entries of s.
Picks(s, kept, f, n) ==
    /\ f = [i \in 0 .. n |-> f[i]]
    /\ f[0] = <<>>
    /\ \A i \in 1 .. n : f[i] = IF i \in kept THEN Append(f[i - 1], s[i]) ELSE f[i - 1]

\* The recursion has a solution.
LEMMA PicksExist ==
    ASSUME NEW s, NEW kept, NEW l \in Nat
    PROVE  \E f : Picks(s, kept, f, l)
<1>. DEFINE S == {n \in 0 .. l : \E f : Picks(s, kept, f, n)}
<1>1. 0 \in S
  <2>. DEFINE f == [i \in 0 .. 0 |-> <<>>]
  <2>1. Picks(s, kept, f, 0)
    BY DEF Picks
  <2>. QED
    BY <2>1
<1>2. ASSUME NEW n \in 0 .. l, n < l, n \in S
      PROVE  n + 1 \in S
  <2>1. PICK f : Picks(s, kept, f, n)
    BY <1>2
  <2>. DEFINE last == IF n + 1 \in kept THEN Append(f[n], s[n + 1]) ELSE f[n]
              g == [i \in 0 .. (n + 1) |-> IF i = n + 1 THEN last ELSE f[i]]
  <2>2. g = [i \in 0 .. (n + 1) |-> g[i]] /\ g[0] = <<>>
    BY <2>1 DEF Picks
  <2>3. ASSUME NEW i \in 1 .. (n + 1)
        PROVE  g[i] = IF i \in kept THEN Append(g[i - 1], s[i]) ELSE g[i - 1]
    <3>1. CASE i = n + 1
      BY <3>1
    <3>2. CASE i \in 1 .. n
      <4>1. g[i] = f[i] /\ g[i - 1] = f[i - 1]
        BY <3>2
      <4>. QED
        BY <2>1, <3>2, <4>1 DEF Picks
    <3>. QED
      BY <3>1, <3>2
  <2>. HIDE DEF g
  <2>4. Picks(s, kept, g, n + 1)
    BY <2>2, <2>3 DEF Picks
  <2>5. n + 1 \in 0 .. l
    BY <1>2
  <2>. QED
    BY <2>4, <2>5
<1>3. 0 .. l \subseteq S
  <2>1. \A i \in 0 .. l : i < l /\ i \in S => i + 1 \in S
    BY <1>2
  <2>. HIDE DEF S
  <2>. QED
    BY <1>1, <2>1, IntervalInduction
<1>. QED
  BY <1>3

\* Subsequence is the last value of such a solution.
LEMMA SubsequenceIsPicked ==
    ASSUME NEW s, NEW kept, Len(s) \in Nat
    PROVE  \E f : Picks(s, kept, f, Len(s)) /\ Subsequence(s, kept) = f[Len(s)]
<1>. DEFINE l == Len(s)
            Body(f) == [i \in 0 .. l |-> IF i = 0 THEN <<>>
                                         ELSE IF i \in kept THEN Append(f[i - 1], s[i])
                                         ELSE f[i - 1]]
            u == CHOOSE f : f = Body(f)
<1>1. Subsequence(s, kept) = u[l]
  BY DEF Subsequence
<1>2. \A f : Picks(s, kept, f, l) => f = Body(f)
  <2>. SUFFICES ASSUME NEW f, Picks(s, kept, f, l)
                PROVE  f = Body(f)
    OBVIOUS
  <2>1. ASSUME NEW i \in 0 .. l
        PROVE  f[i] = Body(f)[i]
    BY DEF Picks
  <2>2. f = [i \in 0 .. l |-> f[i]]
    BY DEF Picks
  <2>3. [i \in 0 .. l |-> f[i]] = Body(f)
    BY <2>1
  <2>. QED
    BY <2>2, <2>3
<1>3. u = Body(u)
  <2>1. \E f : f = Body(f)
    BY <1>2, PicksExist
  <2>. HIDE DEF Body
  <2>. QED
    BY <2>1
<1>4. Picks(s, kept, u, l)
  <2>. HIDE DEF u
  <2>1. u = [i \in 0 .. l |-> u[i]] /\ u[0] = <<>>
    BY <1>3
  <2>2. \A i \in 1 .. l : u[i] = Body(u)[i] /\ i \in 0 .. l /\ i # 0
    <3>. HIDE DEF Body
    <3>1. \A i : u[i] = Body(u)[i]
      BY <1>3
    <3>. QED
      BY <3>1
  <2>3. \A i \in 1 .. l : u[i] = IF i \in kept THEN Append(u[i - 1], s[i]) ELSE u[i - 1]
    BY <2>2
  <2>. QED
    BY <2>1, <2>3 DEF Picks
<1>. QED
  BY <1>1, <1>4

\* A queue and the indices its entries had in s: in the same order, and none
\* beyond n.
DrawnFrom(p, s, n, kept, at) ==
    /\ at \in [1 .. Len(p) -> kept \cap (1 .. n)]
    /\ \A i \in 1 .. Len(p) : p[i] = s[at[i]]
    /\ \A i, j \in 1 .. Len(p) : i < j => at[i] < at[j]

\* No index that was to be kept is missing.
TakesAll(p, n, kept, at) == \A k \in kept \cap (1 .. n) : \E i \in 1 .. Len(p) : at[i] = k

\* What a queue retains: the entries at the kept indices, in their order.
LEMMA SubsequenceFacts ==
    ASSUME NEW T, NEW s \in Seq(T), NEW kept
    PROVE  /\ Subsequence(s, kept) \in Seq(T)
           /\ Len(Subsequence(s, kept)) <= Len(s)
           /\ \E at : /\ DrawnFrom(Subsequence(s, kept), s, Len(s), kept, at)
                      /\ TakesAll(Subsequence(s, kept), Len(s), kept, at)
<1>. DEFINE l == Len(s)
<1>0. l \in Nat
  OBVIOUS
<1>1. PICK f : Picks(s, kept, f, l) /\ Subsequence(s, kept) = f[l]
  BY <1>0, SubsequenceIsPicked
<1>. DEFINE Fine(n) == /\ f[n] \in Seq(T) /\ Len(f[n]) <= n
                       /\ \E at : DrawnFrom(f[n], s, n, kept, at) /\ TakesAll(f[n], n, kept, at)
            S == {n \in 0 .. l : Fine(n)}
<1>2. 0 \in S
  <2>1. f[0] = <<>>
    BY <1>1 DEF Picks
  <2>2. DrawnFrom(<<>>, s, 0, kept, <<>>) /\ TakesAll(<<>>, 0, kept, <<>>)
    BY DEF DrawnFrom, TakesAll
  <2>. QED
    <3>1. f[0] \in Seq(T) /\ Len(f[0]) <= 0 /\ DrawnFrom(f[0], s, 0, kept, <<>>)
          /\ TakesAll(f[0], 0, kept, <<>>)
      BY <2>1, <2>2
    <3>2. Fine(0)
      BY <3>1
    <3>. QED
      BY <1>0, <3>2
<1>3. ASSUME NEW n \in 0 .. l, n < l, n \in S
      PROVE  n + 1 \in S
  <2>1. f[n] \in Seq(T) /\ Len(f[n]) <= n /\ Len(f[n]) \in Nat /\ n + 1 \in 1 .. l
    BY <1>3
  <2>2. PICK at : DrawnFrom(f[n], s, n, kept, at) /\ TakesAll(f[n], n, kept, at)
    BY <1>3
  <2>3. f[n + 1] = IF n + 1 \in kept THEN Append(f[n], s[n + 1]) ELSE f[n]
    <3>1. \A i \in 1 .. l : f[i] = IF i \in kept THEN Append(f[i - 1], s[i]) ELSE f[i - 1]
      BY <1>1 DEF Picks
    <3>2. PICK m : m = n + 1 /\ m \in 1 .. l /\ m - 1 = n
      BY <2>1
    <3>. HIDE DEF l
    <3>3. f[m] = IF m \in kept THEN Append(f[m - 1], s[m]) ELSE f[m - 1]
      BY <3>1, <3>2, Zenon
    <3>. QED
      BY <3>2, <3>3, Zenon
  <2>4. CASE n + 1 \in kept
    <3>. DEFINE k == Len(f[n]) + 1
                aa == [i \in 1 .. k |-> IF i = k THEN n + 1 ELSE at[i]]
    <3>1. f[n + 1] = Append(f[n], s[n + 1]) /\ s[n + 1] \in T
      BY <2>1, <2>3, <2>4
    <3>2. /\ f[n + 1] \in Seq(T) /\ Len(f[n + 1]) = k
          /\ \A i \in 1 .. k : f[n + 1][i] = IF i = k THEN s[n + 1] ELSE f[n][i]
      BY <2>1, <3>1
    <3>3. \A i \in 1 .. (k - 1) : at[i] \in kept \cap (1 .. n) /\ f[n][i] = s[at[i]]
      BY <2>2 DEF DrawnFrom
    <3>4. aa \in [1 .. k -> kept \cap (1 .. (n + 1))]
      <4>1. \A i \in 1 .. k : i # k => i \in 1 .. (k - 1)
        BY <2>1
      <4>2. \A i \in 1 .. (k - 1) : at[i] \in kept \cap (1 .. (n + 1))
        BY <2>1, <3>3
      <4>3. n + 1 \in kept \cap (1 .. (n + 1))
        BY <2>1, <2>4
      <4>4. \A i \in 1 .. k : aa[i] \in kept \cap (1 .. (n + 1))
        BY <4>1, <4>2, <4>3, Zenon
      <4>. QED
        BY <4>4, Zenon
    <3>5. \A i \in 1 .. k : f[n + 1][i] = s[aa[i]]
      <4>1. \A i \in 1 .. k : i # k => i \in 1 .. (k - 1)
        BY <2>1
      <4>2. \A i \in 1 .. k : f[n + 1][i] = IF i = k THEN s[n + 1] ELSE f[n][i]
        BY <3>2
      <4>3. \A i \in 1 .. k : aa[i] = IF i = k THEN n + 1 ELSE at[i]
        OBVIOUS
      <4>. HIDE DEF k, aa
      <4>4. \A i \in 1 .. (k - 1) : f[n][i] = s[at[i]]
        BY <3>3, Zenon
      <4>. QED
        BY <4>1, <4>2, <4>3, <4>4, Zenon
    <3>6. ASSUME NEW i \in 1 .. k, NEW j \in 1 .. k, i < j
          PROVE  aa[i] < aa[j]
      <4>1. i \in 1 .. (k - 1) /\ aa[i] = at[i] /\ at[i] \in 1 .. n
        BY <2>1, <3>3, <3>6
      <4>2. CASE j = k
        BY <4>1, <4>2
      <4>3. CASE j # k
        <5>1. j \in 1 .. (k - 1) /\ aa[j] = at[j]
          BY <2>1, <4>3
        <5>2. at[i] < at[j]
          BY <2>2, <3>6, <4>1, <5>1 DEF DrawnFrom
        <5>. QED
          BY <4>1, <5>1, <5>2
      <4>. QED
        BY <4>2, <4>3
    <3>7. DrawnFrom(f[n + 1], s, n + 1, kept, aa)
      BY <3>2, <3>4, <3>5, <3>6 DEF DrawnFrom
    <3>8. TakesAll(f[n + 1], n + 1, kept, aa)
      <4>. SUFFICES ASSUME NEW j \in kept \cap (1 .. (n + 1))
                    PROVE  \E i \in 1 .. k : aa[i] = j
        BY <3>2 DEF TakesAll
      <4>1. CASE j = n + 1
        <5>1. k \in 1 .. k /\ aa[k] = j
          BY <2>1, <4>1
        <5>. QED
          BY <5>1
      <4>2. CASE j # n + 1
        <5>1. j \in kept \cap (1 .. n)
          BY <2>1, <4>2
        <5>2. PICK i \in 1 .. Len(f[n]) : at[i] = j
          BY <2>2, <5>1 DEF TakesAll
        <5>3. i \in 1 .. k /\ i # k
          BY <2>1
        <5>4. aa[i] = j
          BY <5>2, <5>3
        <5>. QED
          BY <5>3, <5>4
      <4>. QED
        BY <4>1, <4>2
    <3>. QED
      BY <2>1, <3>2, <3>7, <3>8
  <2>5. CASE n + 1 \notin kept
    <3>1. DrawnFrom(f[n], s, n + 1, kept, at)
      BY <2>1, <2>2 DEF DrawnFrom
    <3>2. TakesAll(f[n], n + 1, kept, at)
      <4>1. kept \cap (1 .. (n + 1)) = kept \cap (1 .. n)
        BY <2>1, <2>5
      <4>. QED
        BY <2>2, <4>1 DEF TakesAll
    <3>. QED
      BY <2>1, <2>3, <2>5, <3>1, <3>2
  <2>. QED
    BY <2>4, <2>5
<1>4. 0 .. l \subseteq S
  <2>1. \A i \in 0 .. l : i < l /\ i \in S => i + 1 \in S
    BY <1>3
  <2>. HIDE DEF S, l
  <2>. QED
    BY <1>0, <1>2, <2>1, IntervalInduction
<1>5. Fine(l)
  BY <1>0, <1>4
<1>. QED
  BY <1>1, <1>5

-----------------------------------------------------------------------------
(***************************************************************************)
(* Sums over finite sets.                                                  *)
(***************************************************************************)
Some(s) == CHOOSE x \in s : TRUE

\* What the recursion of SumFunctionOnSet computes, for the subsets of S with
\* no more than n elements.
Sums(f, S, n, sum) ==
    LET small == {s \in SUBSET S : Cardinality(s) <= n}
    IN  /\ sum = [s \in small |-> sum[s]]
        /\ \A s \in small : sum[s] = IF s = {} THEN 0 ELSE f[Some(s)] + sum[s \ {Some(s)}]

\* One element less.
LEMMA WithoutSome ==
    ASSUME NEW S, IsFiniteSet(S), NEW s \in SUBSET S, s # {}
    PROVE  /\ Some(s) \in s /\ IsFiniteSet(s) /\ Cardinality(s) \in Nat
           /\ s \ {Some(s)} \in SUBSET S
           /\ Cardinality(s \ {Some(s)}) = Cardinality(s) - 1
<1>1. Some(s) \in s
  BY DEF Some
<1>2. IsFiniteSet(s) /\ Cardinality(s) \in Nat
  BY FS_Subset, FS_CardinalityType
<1>3. Cardinality(s \ {Some(s)}) = Cardinality(s) - 1
  BY <1>1, <1>2, FS_RemoveElement
<1>. QED
  BY <1>1, <1>2, <1>3

\* The recursion has a solution.
LEMMA SumsExist ==
    ASSUME NEW f, NEW S, IsFiniteSet(S), NEW l \in Nat
    PROVE  \E sum : Sums(f, S, l, sum)
<1>. DEFINE Small(n) == {s \in SUBSET S : Cardinality(s) <= n}
            N == {n \in 0 .. l : \E sum : Sums(f, S, n, sum)}
<1>1. 0 \in N
  <2>. DEFINE sum == [s \in Small(0) |-> 0]
  <2>1. ASSUME NEW s \in Small(0)
        PROVE  s = {}
    <3>1. s \in SUBSET S /\ Cardinality(s) <= 0
      OBVIOUS
    <3>2. IsFiniteSet(s) /\ Cardinality(s) \in Nat
      BY <3>1, FS_Subset, FS_CardinalityType
    <3>3. Cardinality(s) = 0
      BY <3>1, <3>2
    <3>. QED
      BY <3>2, <3>3, FS_EmptySet
  <2>2. Sums(f, S, 0, sum)
    BY <2>1 DEF Sums
  <2>. QED
    BY <2>2
<1>2. ASSUME NEW n \in 0 .. l, n < l, n \in N
      PROVE  n + 1 \in N
  <2>1. PICK sum : Sums(f, S, n, sum)
    BY <1>2
  <2>. DEFINE next == [s \in Small(n + 1) |-> IF Cardinality(s) <= n THEN sum[s]
                                              ELSE f[Some(s)] + sum[s \ {Some(s)}]]
  <2>2. ASSUME NEW s \in Small(n + 1)
        PROVE  next[s] = IF s = {} THEN 0 ELSE f[Some(s)] + next[s \ {Some(s)}]
    <3>1. s \in SUBSET S /\ Cardinality(s) <= n + 1
      OBVIOUS
    <3>2. CASE s = {}
      <4>1. Cardinality(s) = 0
        BY <3>2, FS_EmptySet
      <4>2. s \in Small(n) /\ next[s] = sum[s]
        BY <3>1, <4>1
      <4>. QED
        BY <2>1, <3>2, <4>2 DEF Sums
    <3>3. CASE s # {}
      <4>1. /\ s \ {Some(s)} \in SUBSET S /\ Cardinality(s) \in Nat
            /\ Cardinality(s \ {Some(s)}) = Cardinality(s) - 1
        BY <3>1, <3>3, WithoutSome
      <4>2. Cardinality(s \ {Some(s)}) <= n /\ Cardinality(s \ {Some(s)}) <= n + 1
        BY <3>1, <4>1
      <4>3. next[s \ {Some(s)}] = sum[s \ {Some(s)}]
        BY <4>1, <4>2
      <4>4. CASE Cardinality(s) <= n
        <5>1. s \in Small(n) /\ next[s] = sum[s]
          BY <3>1, <4>4
        <5>2. sum[s] = f[Some(s)] + sum[s \ {Some(s)}]
          BY <2>1, <3>3, <5>1 DEF Sums
        <5>. QED
          BY <3>3, <4>3, <5>1, <5>2
      <4>5. CASE ~(Cardinality(s) <= n)
        BY <3>3, <4>3, <4>5
      <4>. QED
        BY <4>4, <4>5
    <3>. QED
      BY <3>2, <3>3
  <2>3. next = [s \in Small(n + 1) |-> next[s]]
    OBVIOUS
  <2>. HIDE DEF next
  <2>4. Sums(f, S, n + 1, next)
    BY <2>2, <2>3 DEF Sums
  <2>5. n + 1 \in 0 .. l
    BY <1>2
  <2>. QED
    BY <2>4, <2>5
<1>3. 0 .. l \subseteq N
  <2>1. \A i \in 0 .. l : i < l /\ i \in N => i + 1 \in N
    BY <1>2
  <2>. HIDE DEF N
  <2>. QED
    BY <1>1, <2>1, IntervalInduction
<1>. QED
  BY <1>3

\* SumFunctionOnSet is a value of such a solution.
LEMMA SumIsSums ==
    ASSUME NEW f, NEW S, IsFiniteSet(S)
    PROVE  \E sum : Sums(f, S, Cardinality(S), sum) /\ SumFunctionOnSet(f, S) = sum[S]
<1>. DEFINE Body(sum) == [s \in SUBSET S |-> IF s = {} THEN 0
                                             ELSE f[Some(s)] + sum[s \ {Some(s)}]]
            u == CHOOSE sum : sum = Body(sum)
            small == {s \in SUBSET S : Cardinality(s) <= Cardinality(S)}
<1>1. SumFunctionOnSet(f, S) = u[S]
  BY DEF SumFunctionOnSet, FoldFunctionOnSet, MapThenFoldSet, Some
<1>2. small = SUBSET S
  BY FS_Subset
<1>3. Cardinality(S) \in Nat
  BY FS_CardinalityType
<1>4. PICK sum : Sums(f, S, Cardinality(S), sum)
  BY <1>3, SumsExist
<1>5. sum = Body(sum)
  <2>1. sum = [s \in SUBSET S |-> sum[s]]
    BY <1>2, <1>4 DEF Sums
  <2>2. \A s \in SUBSET S : sum[s] = IF s = {} THEN 0 ELSE f[Some(s)] + sum[s \ {Some(s)}]
    BY <1>2, <1>4 DEF Sums
  <2>3. [s \in SUBSET S |-> sum[s]] = Body(sum)
    BY <2>2
  <2>. QED
    BY <2>1, <2>3
<1>6. u = Body(u)
  <2>. HIDE DEF Body
  <2>. QED
    BY <1>5
<1>. HIDE DEF u
<1>7. Sums(f, S, Cardinality(S), u)
  <2>1. \A s \in SUBSET S : u[s] = IF s = {} THEN 0 ELSE f[Some(s)] + u[s \ {Some(s)}]
    <3>. HIDE DEF Body
    <3>1. \A s : u[s] = Body(u)[s]
      BY <1>6
    <3>. QED
      BY <3>1 DEF Body
  <2>2. u = [s \in SUBSET S |-> u[s]]
    BY <1>6
  <2>. QED
    BY <1>2, <2>1, <2>2 DEF Sums
<1>. QED
  BY <1>1, <1>7

\* The sum of a set does not depend on the set whose subsets the recursion
\* ranges over, nor on what f is elsewhere.
LEMMA SumsAgree ==
    ASSUME NEW S, IsFiniteSet(S), NEW R, IsFiniteSet(R), NEW f, NEW g,
           NEW sum, Sums(f, S, Cardinality(S), sum),
           NEW tum, Sums(g, R, Cardinality(R), tum),
           NEW T \in SUBSET (S \cap R), \A x \in T : f[x] = g[x]
    PROVE  sum[T] = tum[T]
<1>. DEFINE l == Cardinality(T)
            N == {n \in 0 .. l : \A s \in SUBSET T : Cardinality(s) <= n => sum[s] = tum[s]}
<1>0. IsFiniteSet(T) /\ l \in Nat
  BY FS_Subset, FS_CardinalityType
<1>1. ASSUME NEW s \in SUBSET T
      PROVE  /\ Cardinality(s) \in Nat /\ IsFiniteSet(s)
             /\ sum[s] = IF s = {} THEN 0 ELSE f[Some(s)] + sum[s \ {Some(s)}]
             /\ tum[s] = IF s = {} THEN 0 ELSE g[Some(s)] + tum[s \ {Some(s)}]
  <2>1. Cardinality(s) \in Nat /\ IsFiniteSet(s)
    BY <1>0, FS_Subset, FS_CardinalityType
  <2>2. s \in SUBSET S /\ Cardinality(s) <= Cardinality(S)
    BY FS_Subset
  <2>3. s \in SUBSET R /\ Cardinality(s) <= Cardinality(R)
    BY FS_Subset
  <2>. QED
    BY <2>1, <2>2, <2>3 DEF Sums
<1>2. 0 \in N
  <2>1. ASSUME NEW s \in SUBSET T, Cardinality(s) <= 0
        PROVE  sum[s] = tum[s]
    <3>0. Cardinality(s) \in Nat /\ IsFiniteSet(s)
      BY <1>1
    <3>1. Cardinality(s) = 0 /\ IsFiniteSet(s)
      BY <2>1, <3>0
    <3>2. s = {}
      BY <3>1, FS_EmptySet
    <3>. QED
      BY <1>1, <3>2
  <2>. QED
    BY <1>0, <2>1
<1>3. ASSUME NEW n \in 0 .. l, n < l, n \in N
      PROVE  n + 1 \in N
  <2>1. ASSUME NEW s \in SUBSET T, Cardinality(s) <= n + 1
        PROVE  sum[s] = tum[s]
    <3>1. CASE s = {}
      BY <1>1, <3>1
    <3>2. CASE s # {}
      <4>1. /\ Some(s) \in s /\ Cardinality(s) \in Nat /\ s \ {Some(s)} \in SUBSET T
            /\ Cardinality(s \ {Some(s)}) = Cardinality(s) - 1
        BY <1>0, <3>2, WithoutSome
      <4>2. Cardinality(s \ {Some(s)}) <= n
        BY <2>1, <4>1
      <4>3. sum[s \ {Some(s)}] = tum[s \ {Some(s)}]
        BY <1>3, <4>1, <4>2
      <4>4. f[Some(s)] = g[Some(s)]
        BY <4>1
      <4>. QED
        BY <1>1, <3>2, <4>3, <4>4
    <3>. QED
      BY <3>1, <3>2
  <2>2. n + 1 \in 0 .. l
    BY <1>0, <1>3
  <2>. QED
    BY <2>1, <2>2
<1>4. 0 .. l \subseteq N
  <2>1. \A i \in 0 .. l : i < l /\ i \in N => i + 1 \in N
    BY <1>3
  <2>. HIDE DEF N, l
  <2>. QED
    BY <1>0, <1>2, <2>1, IntervalInduction
<1>5. l \in N
  BY <1>0, <1>4
<1>. QED
  BY <1>0, <1>5

\* Equal values have equal sums.
LEMMA SumSame ==
    ASSUME NEW S, IsFiniteSet(S), NEW f, NEW g, \A x \in S : f[x] = g[x]
    PROVE  SumFunctionOnSet(f, S) = SumFunctionOnSet(g, S)
<1>1. PICK sum : Sums(f, S, Cardinality(S), sum) /\ SumFunctionOnSet(f, S) = sum[S]
  BY SumIsSums
<1>2. PICK tum : Sums(g, S, Cardinality(S), tum) /\ SumFunctionOnSet(g, S) = tum[S]
  BY SumIsSums
<1>3. S \in SUBSET (S \cap S)
  OBVIOUS
<1>4. sum[S] = tum[S]
  BY <1>1, <1>2, <1>3, SumsAgree
<1>. QED
  BY <1>1, <1>2, <1>4

\* The sum over no element, and the recursion as an equation about sums.
LEMMA SumUnfolds ==
    ASSUME NEW S, IsFiniteSet(S), NEW f
    PROVE  /\ S = {} => SumFunctionOnSet(f, S) = 0
           /\ S # {} => /\ Some(S) \in S
                        /\ SumFunctionOnSet(f, S)
                             = f[Some(S)] + SumFunctionOnSet(f, S \ {Some(S)})
<1>. DEFINE R == S \ {Some(S)}
<1>0. IsFiniteSet(R)
  BY FS_RemoveElement
<1>1. PICK sum : Sums(f, S, Cardinality(S), sum) /\ SumFunctionOnSet(f, S) = sum[S]
  BY SumIsSums
<1>2. PICK tum : Sums(f, R, Cardinality(R), tum) /\ SumFunctionOnSet(f, R) = tum[R]
  BY <1>0, SumIsSums
<1>3. Cardinality(S) <= Cardinality(S)
  BY FS_CardinalityType
<1>4. sum[S] = IF S = {} THEN 0 ELSE f[Some(S)] + sum[R]
  BY <1>1, <1>3 DEF Sums
<1>5. sum[R] = tum[R]
  <2>1. R \in SUBSET (S \cap R)
    OBVIOUS
  <2>2. PICK g : g = f
    OBVIOUS
  <2>3. Sums(g, R, Cardinality(R), tum) /\ \A x \in R : f[x] = g[x]
    BY <1>2, <2>2
  <2>. HIDE DEF R
  <2>. QED
    BY <1>0, <1>1, <2>1, <2>3, SumsAgree
<1>6. S # {} => Some(S) \in S
  BY DEF Some
<1>. QED
  BY <1>1, <1>2, <1>4, <1>5, <1>6

\* Induction over the subsets of a finite set: a family that holds every subset
\* whose own subsets it holds.
LEMMA SubsetInduction ==
    ASSUME NEW S, IsFiniteSet(S), NEW F,
           \A T \in SUBSET S : (\A U \in SUBSET T : U # T => U \in F) => T \in F
    PROVE  S \in F
<1>. DEFINE B == (SUBSET S) \ F
<1>1. ASSUME B # {}
      PROVE  FALSE
  <2>1. B \subseteq FiniteSubsetsOf(S)
    BY FS_Subset DEF FiniteSubsetsOf
  <2>2. PICK T \in B : \A U \in B : ~(<<U, T>> \in StrictSubsetOrdering(S))
    <3>. HIDE DEF B
    <3>. QED
      BY <1>1, <2>1, FS_StrictSubsetOrderingWellFounded, WFMin
  <2>3. ASSUME NEW U \in SUBSET T, U # T, U \notin F
        PROVE  FALSE
    <3>1. U \in SUBSET S /\ T \in SUBSET S /\ U \subseteq T
      BY <2>2
    <3>2. <<U, T>> \in StrictSubsetOrdering(S)
      BY <2>3, <3>1, Zenon DEF StrictSubsetOrdering
    <3>. QED
      BY <2>2, <2>3, <3>1, <3>2
  <2>. QED
    BY <2>2, <2>3
<1>. QED
  BY <1>1

\* Any element may be taken from a sum, not only the one the recursion takes.
LEMMA SumRemove ==
    ASSUME NEW S, IsFiniteSet(S), NEW f, \A x \in S : f[x] \in Nat
    PROVE  /\ SumFunctionOnSet(f, S) \in Nat
           /\ \A x \in S : SumFunctionOnSet(f, S) = f[x] + SumFunctionOnSet(f, S \ {x})
<1>. DEFINE Sum(T) == SumFunctionOnSet(f, T)
            F == {T \in SUBSET S : Sum(T) \in Nat /\ \A x \in T : Sum(T) = f[x] + Sum(T \ {x})}
<1>1. ASSUME NEW T \in SUBSET S, \A U \in SUBSET T : U # T => U \in F
      PROVE  T \in F
  <2>1. IsFiniteSet(T)
    BY FS_Subset
  <2>2. CASE T = {}
    <3>1. Sum(T) = 0
      BY <2>1, <2>2, SumUnfolds
    <3>. QED
      BY <2>2, <3>1
  <2>3. CASE T # {}
    <3>. DEFINE c == Some(T)
    <3>1. c \in T /\ Sum(T) = f[c] + Sum(T \ {c})
      BY <2>1, <2>3, SumUnfolds
    <3>. HIDE DEF c, Sum
    <3>2. T \ {c} \in F
      BY <1>1, <3>1
    <3>3. f[c] \in Nat /\ Sum(T \ {c}) \in Nat
      BY <3>1, <3>2
    <3>4. ASSUME NEW x \in T
          PROVE  Sum(T) = f[x] + Sum(T \ {x})
      <4>1. CASE x = c
        BY <3>1, <4>1
      <4>2. CASE x # c
        <5>1. Sum(T \ {c}) = f[x] + Sum((T \ {c}) \ {x})
          BY <3>2, <4>2
        <5>2. T \ {x} \in F /\ c \in T \ {x}
          BY <1>1, <3>1, <4>2
        <5>3. Sum(T \ {x}) = f[c] + Sum((T \ {x}) \ {c})
          BY <5>2
        <5>4. (T \ {c}) \ {x} = (T \ {x}) \ {c}
          OBVIOUS
        <5>5. (T \ {c}) \ {x} \in F
          BY <1>1, <3>1
        <5>6. Sum((T \ {c}) \ {x}) \in Nat /\ f[x] \in Nat
          BY <5>5
        <5>7. Sum((T \ {x}) \ {c}) = Sum((T \ {c}) \ {x})
          BY <5>4
        <5>. QED
          BY <3>1, <3>3, <5>1, <5>3, <5>6, <5>7
      <4>. QED
        BY <4>1, <4>2
    <3>5. Sum(T) \in Nat
      BY <3>1, <3>3
    <3>. QED
      BY <3>4, <3>5
  <2>. QED
    BY <2>2, <2>3
<1>2. S \in F
  <2>. HIDE DEF F
  <2>. QED
    BY <1>1, SubsetInduction
<1>. QED
  BY <1>2

\* The sum over two sets without a common element.
LEMMA SumDisjoint ==
    ASSUME NEW A, IsFiniteSet(A), NEW B, IsFiniteSet(B), A \cap B = {},
           NEW f, \A x \in A \cup B : f[x] \in Nat
    PROVE  SumFunctionOnSet(f, A \cup B) = SumFunctionOnSet(f, A) + SumFunctionOnSet(f, B)
<1>. DEFINE Sum(T) == SumFunctionOnSet(f, T)
            F == {T \in SUBSET B : Sum(A \cup T) = Sum(A) + Sum(T)}
<1>0. Sum(A) \in Nat
  BY SumRemove
<1>1. ASSUME NEW T \in SUBSET B, \A U \in SUBSET T : U # T => U \in F
      PROVE  T \in F
  <2>1. IsFiniteSet(T)
    BY FS_Subset
  <2>2. IsFiniteSet(A \cup T)
    BY <2>1, FS_Union
  <2>3. \A x \in A \cup T : f[x] \in Nat
    OBVIOUS
  <2>4. CASE T = {}
    <3>1. Sum(T) = 0
      BY <2>1, <2>4, SumUnfolds
    <3>2. A \cup T = A
      BY <2>4
    <3>. HIDE DEF Sum
    <3>3. Sum(A \cup T) = Sum(A)
      BY <3>2
    <3>4. Sum(A \cup T) = Sum(A) + Sum(T)
      BY <1>0, <3>1, <3>3
    <3>. QED
      BY <3>4
  <2>5. CASE T # {}
    <3>1. PICK x : x \in T
      BY <2>5
    <3>2. Sum(A \cup T) = f[x] + Sum((A \cup T) \ {x})
      BY <2>2, <2>3, <3>1, SumRemove
    <3>3. Sum(T) = f[x] + Sum(T \ {x})
      BY <2>1, <2>3, <3>1, SumRemove
    <3>4. (A \cup T) \ {x} = A \cup (T \ {x})
      BY <3>1
    <3>5. Sum(A \cup (T \ {x})) = Sum(A) + Sum(T \ {x})
      BY <1>1, <3>1
    <3>6. IsFiniteSet(T \ {x})
      BY <2>1, FS_RemoveElement
    <3>7. Sum(T \ {x}) \in Nat /\ f[x] \in Nat
      BY <2>3, <3>1, <3>6, SumRemove
    <3>. HIDE DEF Sum
    <3>8. Sum((A \cup T) \ {x}) = Sum(A) + Sum(T \ {x})
      BY <3>4, <3>5
    <3>9. Sum(A \cup T) = Sum(A) + Sum(T)
      BY <1>0, <3>2, <3>3, <3>7, <3>8
    <3>. QED
      BY <3>9
  <2>. QED
    BY <2>4, <2>5
<1>2. B \in F
  <2>. HIDE DEF F
  <2>. QED
    BY <1>1, SubsetInduction
<1>. QED
  BY <1>2

\* The values of f on S are numbers; g has the same ones.
NatOn(f, S) == \A x \in S : f[x] \in Nat

SameOn(g, f, S) == \A x \in S : g[x] = f[x]

\* What is left of a sum when a part of its set is taken away.
LEMMA SumWithout ==
    ASSUME NEW S, IsFiniteSet(S), NEW f, NatOn(f, S),
           NEW K \in SUBSET S, NEW g, SameOn(g, f, S \ K)
    PROVE  /\ SumFunctionOnSet(g, S \ K) = SumFunctionOnSet(f, S) - SumFunctionOnSet(f, K)
           /\ SumFunctionOnSet(g, S \ K) \in Nat
           /\ SumFunctionOnSet(f, K) \in Nat
           /\ SumFunctionOnSet(f, S) \in Nat
<1>. DEFINE A == S \ K
<1>1. IsFiniteSet(A) /\ IsFiniteSet(K)
  BY FS_Subset
<1>2. A \cap K = {} /\ A \cup K = S /\ A \in SUBSET S /\ \A x \in A : g[x] = f[x]
  BY DEF SameOn
<1>. HIDE DEF A
<1>3. \A x \in A \cup K : f[x] \in Nat
  BY <1>2 DEF NatOn
<1>4. SumFunctionOnSet(f, A \cup K) = SumFunctionOnSet(f, A) + SumFunctionOnSet(f, K)
  BY <1>1, <1>2, <1>3, SumDisjoint
<1>5. SumFunctionOnSet(f, S) = SumFunctionOnSet(f, A) + SumFunctionOnSet(f, K)
  BY <1>2, <1>4
<1>6. SumFunctionOnSet(g, A) = SumFunctionOnSet(f, A)
  BY <1>1, <1>2, SumSame
<1>7. SumFunctionOnSet(f, A) \in Nat
  BY <1>1, <1>3, SumRemove
<1>8. SumFunctionOnSet(f, K) \in Nat
  BY <1>1, <1>3, SumRemove
<1>9. /\ SumFunctionOnSet(g, A) = SumFunctionOnSet(f, S) - SumFunctionOnSet(f, K)
      /\ SumFunctionOnSet(g, A) \in Nat
      /\ SumFunctionOnSet(f, K) \in Nat
      /\ SumFunctionOnSet(f, S) \in Nat
  BY <1>5, <1>6, <1>7, <1>8
<1>. QED
  BY <1>9 DEF A

\* A sum with one more element.
LEMMA SumWith ==
    ASSUME NEW S, IsFiniteSet(S), NEW f, NatOn(f, S),
           NEW k, k \notin S, NEW g, SameOn(g, f, S), NEW n \in Nat, n = g[k]
    PROVE  /\ SumFunctionOnSet(g, S \cup {k}) = SumFunctionOnSet(f, S) + n
           /\ SumFunctionOnSet(f, S) \in Nat
<1>1. IsFiniteSet(S \cup {k})
  BY FS_AddElement
<1>0. \A x \in S : f[x] \in Nat /\ g[x] = f[x]
  BY DEF NatOn, SameOn
<1>2. \A x \in S \cup {k} : g[x] \in Nat
  BY <1>0
<1>3. SumFunctionOnSet(g, S \cup {k}) = g[k] + SumFunctionOnSet(g, (S \cup {k}) \ {k})
  BY <1>1, <1>2, SumRemove
<1>4. (S \cup {k}) \ {k} = S
  OBVIOUS
<1>5. SumFunctionOnSet(g, S) = SumFunctionOnSet(f, S)
  BY <1>0, SumSame
<1>6. SumFunctionOnSet(f, S) \in Nat
  BY <1>0, SumRemove
<1>7. SumFunctionOnSet(g, S \cup {k}) = g[k] + SumFunctionOnSet(f, S)
  BY <1>3, <1>4, <1>5
<1>. QED
  BY <1>6, <1>7

\* A sum of which one value has changed.
LEMMA SumUpdate ==
    ASSUME NEW S, IsFiniteSet(S), NEW f, NatOn(f, S),
           NEW k \in S, NEW g, SameOn(g, f, S \ {k}), NEW n \in Nat, g[k] = f[k] + n
    PROVE  /\ SumFunctionOnSet(g, S) = SumFunctionOnSet(f, S) + n
           /\ SumFunctionOnSet(f, S) \in Nat
<1>0. (\A x \in S : f[x] \in Nat) /\ (\A x \in S \ {k} : g[x] = f[x])
  BY DEF NatOn, SameOn
<1>1. \A x \in S : g[x] \in Nat
  BY <1>0
<1>2. SumFunctionOnSet(g, S) = g[k] + SumFunctionOnSet(g, S \ {k})
  BY <1>1, SumRemove
<1>3. SumFunctionOnSet(f, S) = f[k] + SumFunctionOnSet(f, S \ {k}) /\ SumFunctionOnSet(f, S) \in Nat
  BY <1>0, SumRemove
<1>4. IsFiniteSet(S \ {k}) /\ \A x \in S \ {k} : g[x] = f[x]
  BY <1>0, FS_RemoveElement
<1>5. SumFunctionOnSet(g, S \ {k}) = SumFunctionOnSet(f, S \ {k})
  BY <1>4, SumSame
<1>6. SumFunctionOnSet(f, S \ {k}) \in Nat
  <2>1. \A x \in S \ {k} : f[x] \in Nat
    BY <1>0
  <2>. QED
    BY <1>4, <2>1, SumRemove
<1>7. f[k] \in Nat
  BY <1>0
<1>. QED
  BY <1>2, <1>3, <1>5, <1>6, <1>7

\* g has at every x of S the number that f has at p[x], and p is one-to-one.
Carries(g, f, p, S) ==
    /\ \A x \in S : g[x] = f[p[x]] /\ g[x] \in Nat
    /\ \A x, y \in S : p[x] = p[y] => x = y

Image(p, S) == {p[x] : x \in S}

\* Sums do not depend on how the elements are named.
LEMMA SumImage ==
    ASSUME NEW S, IsFiniteSet(S), NEW f, NEW g, NEW p, Carries(g, f, p, S)
    PROVE  SumFunctionOnSet(g, S) = SumFunctionOnSet(f, Image(p, S))
<1>. DEFINE F == {T \in SUBSET S : SumFunctionOnSet(g, T) = SumFunctionOnSet(f, Image(p, T))}
<1>1. ASSUME NEW T \in SUBSET S, \A U \in SUBSET T : U # T => U \in F
      PROVE  T \in F
  <2>1. IsFiniteSet(T) /\ IsFiniteSet(Image(p, T))
    <3>1. IsFiniteSet(T)
      BY FS_Subset
    <3>. DEFINE q == [x \in T |-> p[x]]
    <3>2. q \in Surjection(T, Image(p, T))
      BY DEF Image, Surjection
    <3>. QED
      BY <3>1, <3>2, FS_Surjection
  <2>2. /\ \A x \in T : g[x] \in Nat
        /\ \A y \in Image(p, T) : f[y] \in Nat
    BY DEF Image, Carries
  <2>3. CASE T = {}
    <3>1. Image(p, T) = {}
      BY <2>3 DEF Image
    <3>2. SumFunctionOnSet(g, T) = 0 /\ SumFunctionOnSet(f, Image(p, T)) = 0
      BY <2>1, <2>3, <3>1, SumUnfolds
    <3>. QED
      BY <3>2
  <2>4. CASE T # {}
    <3>1. PICK x : x \in T
      BY <2>4
    <3>2. PICK U : U = T \ {x}
      OBVIOUS
    <3>3. SumFunctionOnSet(g, T) = g[x] + SumFunctionOnSet(g, U)
      BY <2>1, <2>2, <3>1, <3>2, SumRemove
    <3>4. p[x] \in Image(p, T) /\ Image(p, T) \ {p[x]} = Image(p, U)
      BY <3>1, <3>2 DEF Image, Carries
    <3>5. SumFunctionOnSet(f, Image(p, T)) = f[p[x]] + SumFunctionOnSet(f, Image(p, T) \ {p[x]})
      BY <2>1, <2>2, <3>4, SumRemove
    <3>6. U \in F
      BY <1>1, <3>1, <3>2
    <3>7. SumFunctionOnSet(g, U) = SumFunctionOnSet(f, Image(p, U))
      BY <3>6
    <3>8. g[x] = f[p[x]]
      BY <3>1 DEF Carries
    <3>9. SumFunctionOnSet(f, Image(p, T)) = f[p[x]] + SumFunctionOnSet(f, Image(p, U))
      BY <3>4, <3>5, Zenon
    <3>10. SumFunctionOnSet(g, T) = SumFunctionOnSet(f, Image(p, T))
      BY <3>3, <3>7, <3>8, <3>9, Zenon
    <3>. QED
      BY <3>10
  <2>. QED
    BY <2>3, <2>4
<1>2. S \in F
  <2>. HIDE DEF F
  <2>. QED
    BY <1>1, SubsetInduction
<1>. QED
  BY <1>2

\* g is f without its first m values.
Shifted(g, f, n, m) == \A i \in 1 .. (n - m) : g[i] = f[i + m]

\* The sum of a sequence of numbers without its first m.
LEMMA SumShift ==
    ASSUME NEW n \in Nat, NEW m \in 0 .. n, NEW f, NatOn(f, 1 .. n),
           NEW g, Shifted(g, f, n, m)
    PROVE  /\ SumFunctionOnSet(g, 1 .. (n - m)) = SumFunctionOnSet(f, 1 .. n) - SumFunctionOnSet(f, 1 .. m)
           /\ SumFunctionOnSet(g, 1 .. (n - m)) \in Nat
           /\ SumFunctionOnSet(f, 1 .. m) \in Nat
           /\ SumFunctionOnSet(f, 1 .. n) \in Nat
<1>. DEFINE p == [i \in 1 .. (n - m) |-> i + m]
<1>1. IsFiniteSet(1 .. n) /\ IsFiniteSet(1 .. (n - m)) /\ 1 .. m \in SUBSET (1 .. n)
  BY FS_Interval
<1>2. Carries(g, f, p, 1 .. (n - m))
  BY DEF Carries, NatOn, Shifted
<1>3. Image(p, 1 .. (n - m)) = (1 .. n) \ (1 .. m)
  <2>1. \A i \in 1 .. (n - m) : p[i] \in (1 .. n) \ (1 .. m)
    OBVIOUS
  <2>2. \A j \in (1 .. n) \ (1 .. m) : (j - m) \in 1 .. (n - m) /\ p[j - m] = j
    OBVIOUS
  <2>. HIDE DEF p
  <2>. QED
    BY <2>1, <2>2 DEF Image
<1>. HIDE DEF p
<1>4. PICK S, K, D, q : S = 1 .. n /\ K = 1 .. m /\ D = 1 .. (n - m) /\ q = p
  OBVIOUS
<1>5. /\ IsFiniteSet(S) /\ IsFiniteSet(D) /\ K \in SUBSET S /\ NatOn(f, S)
      /\ Carries(g, f, q, D) /\ Image(q, D) = S \ K /\ SameOn(f, f, S \ K)
  BY <1>1, <1>2, <1>3, <1>4 DEF SameOn
<1>6. SumFunctionOnSet(g, D) = SumFunctionOnSet(f, S \ K)
  <2>1. SumFunctionOnSet(g, D) = SumFunctionOnSet(f, Image(q, D))
    BY <1>5, SumImage, Zenon
  <2>. QED
    BY <1>5, <2>1, Zenon
<1>7. /\ SumFunctionOnSet(f, S \ K) = SumFunctionOnSet(f, S) - SumFunctionOnSet(f, K)
      /\ SumFunctionOnSet(f, S \ K) \in Nat
      /\ SumFunctionOnSet(f, K) \in Nat
      /\ SumFunctionOnSet(f, S) \in Nat
  BY <1>5, SumWithout, Zenon
<1>. QED
  BY <1>4, <1>6, <1>7

\* g is f with one more value.
Lengthened(g, f, n) ==
    n \in Nat /\ NatOn(f, 1 .. n) /\ SameOn(g, f, 1 .. n) /\ g[n + 1] \in Nat

\* The sum of a sequence of numbers with one more at its end.
LEMMA SumAppend ==
    ASSUME NEW n, NEW f, NEW g, Lengthened(g, f, n)
    PROVE  SumFunctionOnSet(g, 1 .. (n + 1)) = SumFunctionOnSet(f, 1 .. n) + g[n + 1]
<1>0. n \in Nat /\ NatOn(f, 1 .. n) /\ SameOn(g, f, 1 .. n) /\ g[n + 1] \in Nat
  BY DEF Lengthened
<1>1. PICK S, k : S = 1 .. n /\ k = n + 1
  OBVIOUS
<1>2. S \cup {k} = 1 .. (n + 1)
  BY <1>0, <1>1
<1>3. IsFiniteSet(S)
  BY <1>0, <1>1, FS_Interval
<1>4. /\ NatOn(g, S \cup {k}) /\ IsFiniteSet(S \cup {k}) /\ k \in S \cup {k}
      /\ (S \cup {k}) \ {k} = S
  <2>1. IsFiniteSet(S \cup {k}) /\ k \in S \cup {k}
    BY <1>3, FS_AddElement
  <2>2. k \notin S
    BY <1>0, <1>1
  <2>3. \A x \in S : g[x] \in Nat
    BY <1>0, <1>1 DEF NatOn, SameOn
  <2>. QED
    BY <1>0, <1>1, <2>1, <2>2, <2>3 DEF NatOn
<1>5. SumFunctionOnSet(g, S \cup {k}) = g[k] + SumFunctionOnSet(g, S)
  BY <1>4, SumRemove DEF NatOn
<1>6. SumFunctionOnSet(g, S) = SumFunctionOnSet(f, S)
  BY <1>0, <1>1, <1>3, SumSame DEF SameOn
<1>7. SumFunctionOnSet(f, S) \in Nat
  BY <1>0, <1>1, <1>3, SumRemove DEF NatOn
<1>8. PICK x, y, z : x = SumFunctionOnSet(g, S \cup {k}) /\ y = SumFunctionOnSet(f, S) /\ z = g[k]
  OBVIOUS
<1>9. x = y + z
  <2>1. x = z + y /\ y \in Nat /\ z \in Nat
    BY <1>0, <1>1, <1>5, <1>6, <1>7, <1>8
  <2>. QED
    BY <2>1
<1>. QED
  BY <1>1, <1>2, <1>8, <1>9, Zenon

\* g has the numbers of f at the indices that at names.
Through(g, f, at, n) == \A i \in 1 .. n : g[i] = f[at[i]]

\* The sum of the numbers that a subsequence keeps.
LEMMA SumDrawn ==
    ASSUME NEW p, Len(p) \in Nat, NEW s, NEW n \in Nat, NEW kept, NEW at,
           DrawnFrom(p, s, n, kept, at), TakesAll(p, n, kept, at),
           NEW f, NatOn(f, 1 .. n), NEW g, Through(g, f, at, Len(p))
    PROVE  SumFunctionOnSet(g, 1 .. Len(p)) = SumFunctionOnSet(f, kept \cap (1 .. n))
<1>1. /\ \A i \in 1 .. Len(p) : at[i] \in kept \cap (1 .. n)
      /\ \A i, j \in 1 .. Len(p) : i < j => at[i] < at[j]
  BY DEF DrawnFrom
<1>2. ASSUME NEW i \in 1 .. Len(p), NEW j \in 1 .. Len(p), at[i] = at[j]
      PROVE  i = j
  <2>1. at[i] \in Int /\ at[j] \in Int
    BY <1>1
  <2>2. ~(i < j) /\ ~(j < i)
    BY <1>1, <1>2, <2>1
  <2>. QED
    BY <2>2
<1>3. Carries(g, f, at, 1 .. Len(p))
  BY <1>1, <1>2 DEF Carries, NatOn, Through
<1>4. Image(at, 1 .. Len(p)) = kept \cap (1 .. n)
  BY <1>1 DEF Image, TakesAll
<1>5. IsFiniteSet(1 .. Len(p))
  BY FS_Interval
<1>6. SumFunctionOnSet(g, 1 .. Len(p)) = SumFunctionOnSet(f, Image(at, 1 .. Len(p)))
  BY <1>3, <1>5, SumImage, Zenon
<1>. QED
  BY <1>4, <1>6, Zenon

\* Every entry is listed once.
Once(o) == \A i, j \in 1 .. Len(o) : o[i] = o[j] => i = j

\* A queue that lists each entry once is as long as it has entries.
LEMMA CountOnce ==
    ASSUME NEW T, NEW o \in Seq(T), Once(o)
    PROVE  /\ IsFiniteSet({o[i] : i \in 1 .. Len(o)})
           /\ Cardinality({o[i] : i \in 1 .. Len(o)}) = Len(o)
<1>1. PICK S, U, n : S = 1 .. Len(o) /\ U = {o[i] : i \in 1 .. Len(o)} /\ n = Len(o)
  OBVIOUS
<1>2. n \in Nat /\ S = 1 .. n /\ DOMAIN o = S /\ U = {o[i] : i \in S}
  BY <1>1
<1>3. o = [i \in S |-> o[i]]
  BY <1>1
<1>4. o \in [S -> U]
  BY <1>2, <1>3, Zenon
<1>5. \A i, j \in S : o[i] = o[j] => i = j
  BY <1>1 DEF Once
<1>6. \A x \in U : \E i \in S : o[i] = x
  BY <1>2, Zenon
<1>7. o \in Bijection(S, U)
  BY <1>4, <1>5, <1>6 DEF Bijection, Injection, Surjection, IsInjective
<1>8. ExistsBijection(1 .. n, U)
  BY <1>2, <1>7 DEF ExistsBijection
<1>9. Cardinality(U) = n
  BY <1>2, <1>8, FS_CountingElements
<1>10. IsFiniteSet(U)
  BY <1>2, <1>8, FS_NatBijection
<1>. QED
  BY <1>1, <1>9, <1>10

\* The larger and the smaller of two numbers.
LEMMA MaxOfTwo ==
    ASSUME NEW a \in Int, NEW b \in Int
    PROVE  Max({a, b}) = IF a >= b THEN a ELSE b
<1>1. \E x \in {a, b} : \A y \in {a, b} : x >= y
  OBVIOUS
<1>2. PICK m : m = Max({a, b})
  OBVIOUS
<1>3. m \in {a, b} /\ \A y \in {a, b} : m >= y
  BY <1>1, <1>2 DEF Max
<1>. QED
  BY <1>2, <1>3

LEMMA MinOfTwo ==
    ASSUME NEW a \in Int, NEW b \in Int
    PROVE  Min({a, b}) = IF a <= b THEN a ELSE b
<1>1. \E x \in {a, b} : \A y \in {a, b} : x <= y
  OBVIOUS
<1>2. PICK m : m = Min({a, b})
  OBVIOUS
<1>3. m \in {a, b} /\ \A y \in {a, b} : m <= y
  BY <1>1, <1>2 DEF Min
<1>. QED
  BY <1>2, <1>3

\* A quotient times the divisor.
LEMMA QuotientTimes ==
    ASSUME NEW x \in Nat, NEW s \in Nat, s > 0
    PROVE  (x \div s) \in Nat /\ (x \div s) * s <= x
  OBVIOUS

\* A product grows with its factor.
LEMMA TimesMonotone ==
    ASSUME NEW a \in Nat, NEW b \in Nat, a <= b, NEW s \in Nat
    PROVE  a * s <= b * s /\ a * s \in Nat /\ b * s \in Nat
  OBVIOUS

\* A part of a sum is no more than the sum.
LEMMA SumPart ==
    ASSUME NEW S, IsFiniteSet(S), NEW f, NatOn(f, S), NEW A \in SUBSET S
    PROVE  /\ SumFunctionOnSet(f, A) <= SumFunctionOnSet(f, S)
           /\ SumFunctionOnSet(f, A) \in Nat /\ SumFunctionOnSet(f, S) \in Nat
<1>1. SameOn(f, f, S \ A)
  BY DEF SameOn
<1>2. PICK a, b, c : /\ a = SumFunctionOnSet(f, A) /\ b = SumFunctionOnSet(f, S)
                     /\ c = SumFunctionOnSet(f, S \ A)
  OBVIOUS
<1>3. c = b - a /\ a \in Nat /\ b \in Nat /\ c \in Nat
  BY <1>1, <1>2, SumWithout
<1>. QED
  BY <1>2, <1>3

\* An entry of a sequence.
LEMMA EntryOf ==
    ASSUME NEW T, NEW s \in Seq(T), NEW i \in 1 .. Len(s)
    PROVE  s[i] \in T
  OBVIOUS

\* Sequences with the same entries are equal.
LEMMA SameEntries ==
    ASSUME NEW T, NEW x \in Seq(T), NEW y \in Seq(T), NEW l \in Nat, Len(x) = l, Len(y) = l,
           \A i \in 1 .. l : x[i] = y[i]
    PROVE  x = y
  OBVIOUS

\* A sequence with one entry replaced.
LEMMA OneReplaced ==
    ASSUME NEW T, NEW p \in Seq(T), NEW n \in 1 .. Len(p), NEW x \in T
    PROVE  /\ [p EXCEPT ![n] = x] \in Seq(T) /\ Len([p EXCEPT ![n] = x]) = Len(p)
           /\ [p EXCEPT ![n] = x][n] = x
           /\ \A i \in 1 .. Len(p) : i # n => [p EXCEPT ![n] = x][i] = p[i]
  OBVIOUS

\* Some finite set of numbers has a largest one.
LEMMA GreatestElement ==
    ASSUME NEW S \in SUBSET Nat, IsFiniteSet(S), S # {}
    PROVE  \E m \in S : \A k \in S : k <= m
<1>. DEFINE F == {T \in SUBSET S : T # {} => \E m \in T : \A k \in T : k <= m}
<1>1. ASSUME NEW T \in SUBSET S, \A U \in SUBSET T : U # T => U \in F
      PROVE  T \in F
  <2>1. CASE T = {}
    BY <2>1
  <2>2. CASE T # {}
    <3>1. PICK x \in T : TRUE
      BY <2>2
    <3>2. PICK U : U = T \ {x}
      OBVIOUS
    <3>3. U \in SUBSET T /\ U # T
      BY <3>1, <3>2
    <3>4. U \in F
      BY <1>1, <3>3
    <3>5. CASE U = {}
      <4>1. \A k \in T : k <= x
        BY <3>2, <3>5
      <4>. QED
        BY <3>1, <4>1
    <3>6. CASE U # {}
      <4>1. PICK m \in U : \A k \in U : k <= m
        BY <3>4, <3>6
      <4>2. m \in Nat /\ x \in Nat /\ \A k \in T : k \in Nat /\ (k = x \/ k \in U)
        BY <3>1, <3>2, <3>3, <4>1
      <4>3. CASE x <= m
        BY <3>3, <4>1, <4>2, <4>3
      <4>4. CASE ~(x <= m)
        <5>1. \A k \in T : k <= x
          BY <4>1, <4>2, <4>4
        <5>. QED
          BY <3>1, <5>1
      <4>. QED
        BY <4>3, <4>4
    <3>. QED
      BY <3>5, <3>6
  <2>. QED
    BY <2>1, <2>2
<1>2. S \in F
  <2>. HIDE DEF F
  <2>. QED
    BY <1>1, SubsetInduction
<1>. QED
  BY <1>2

\* Max finds it.
LEMMA MaxOfFinite ==
    ASSUME NEW S \in SUBSET Nat, IsFiniteSet(S), S # {}
    PROVE  Max(S) \in S /\ \A k \in S : k <= Max(S)
<1>1. PICK m \in S : \A k \in S : k <= m
  BY GreatestElement
<1>2. \A k \in S : m >= k
  BY <1>1
<1>3. \E x \in S : \A y \in S : x >= y
  BY <1>2
<1>4. PICK n : n = Max(S)
  OBVIOUS
<1>5. n \in S /\ \A y \in S : n >= y
  BY <1>3, <1>4 DEF Max
<1>6. \A y \in S : y <= n
  BY <1>5
<1>. QED
  BY <1>4, <1>5, <1>6

\* The least number of a set.
LEMMA MinOfNat ==
    ASSUME NEW S \in SUBSET Nat, S # {}
    PROVE  Min(S) \in S /\ \A k \in S : Min(S) <= k
<1>1. \E x \in S : \A y \in S : x <= y
  BY LeastElement
<1>2. PICK m : m = Min(S)
  OBVIOUS
<1>3. m \in S /\ \A y \in S : m <= y
  BY <1>1, <1>2 DEF Min
<1>. QED
  BY <1>2, <1>3

\* A queue retains as many entries as indices are kept.
LEMMA SubsequenceLength ==
    ASSUME NEW T, NEW s \in Seq(T), NEW kept, kept \subseteq 1 .. Len(s)
    PROVE  /\ Len(Subsequence(s, kept)) = Cardinality(kept) /\ IsFiniteSet(kept)
           /\ Subsequence(s, kept) \in Seq(T)
<1>1. PICK p, n : p = Subsequence(s, kept) /\ n = Len(p)
  OBVIOUS
<1>2. p \in Seq(T) /\ n \in Nat
  BY <1>1, SubsequenceFacts
<1>3. PICK at : DrawnFrom(p, s, Len(s), kept, at) /\ TakesAll(p, Len(s), kept, at)
  BY <1>1, SubsequenceFacts
<1>4. kept \cap (1 .. Len(s)) = kept
  OBVIOUS
<1>5. /\ at \in [1 .. n -> kept]
      /\ \A i \in 1 .. n : \A j \in 1 .. n : i < j => at[i] < at[j]
      /\ \A k \in kept : \E i \in 1 .. n : at[i] = k
  BY <1>1, <1>3, <1>4 DEF DrawnFrom, TakesAll
<1>6. ASSUME NEW i \in 1 .. n, NEW j \in 1 .. n, at[i] = at[j]
      PROVE  i = j
  <2>0. kept \subseteq Nat /\ at[i] \in kept /\ at[j] \in kept
    BY <1>5
  <2>1. at[i] \in Nat /\ at[j] \in Nat
    BY <2>0
  <2>2. ~(i < j) /\ ~(j < i)
    BY <1>5, <1>6, <2>1
  <2>. QED
    BY <1>2, <2>2
<1>7. at \in Bijection(1 .. n, kept)
  BY <1>5, <1>6 DEF Bijection, Injection, Surjection, IsInjective
<1>8. ExistsBijection(1 .. n, kept)
  BY <1>7 DEF ExistsBijection
<1>9. Cardinality(kept) = n
  BY <1>2, <1>8, FS_CountingElements
<1>10. IsFiniteSet(kept)
  BY <1>2, <1>8, FS_NatBijection
<1>. QED
  BY <1>1, <1>2, <1>9, <1>10

\* One entry less at the front, one more at the back.
LEMMA TailEntries ==
    ASSUME NEW T, NEW s \in Seq(T), Len(s) >= 1
    PROVE  /\ Tail(s) \in Seq(T) /\ Len(Tail(s)) = Len(s) - 1
           /\ \A i \in 1 .. Len(s) - 1 : Tail(s)[i] = s[i + 1]
  OBVIOUS

LEMMA AppendEntries ==
    ASSUME NEW T, NEW s \in Seq(T), NEW x \in T
    PROVE  /\ Append(s, x) \in Seq(T) /\ Len(Append(s, x)) = Len(s) + 1
           /\ Append(s, x)[Len(s) + 1] = x
           /\ \A i \in 1 .. Len(s) : Append(s, x)[i] = s[i]
  OBVIOUS

\* What is left of a sequence from the m-th entry on.
LEMMA SliceEntries ==
    ASSUME NEW T, NEW s \in Seq(T), NEW m \in Nat, m >= 1
    PROVE  \A i \in 1 .. ((Len(s) - m) + 1) : SubSeq(s, m, Len(s))[i] = s[(m + i) - 1]
  OBVIOUS

\* A sum of nothing but zeros.
LEMMA SumOfZeros ==
    ASSUME NEW S, IsFiniteSet(S), NEW f, \A x \in S : f[x] = 0
    PROVE  SumFunctionOnSet(f, S) = 0
<1>. DEFINE Sum(T) == SumFunctionOnSet(f, T)
            F == {T \in SUBSET S : Sum(T) = 0}
<1>1. ASSUME NEW T \in SUBSET S, \A U \in SUBSET T : U # T => U \in F
      PROVE  T \in F
  <2>1. IsFiniteSet(T)
    BY FS_Subset
  <2>2. CASE T = {}
    <3>1. Sum(T) = 0
      BY <2>1, <2>2, SumUnfolds
    <3>. QED
      BY <2>2, <3>1
  <2>3. CASE T # {}
    <3>. DEFINE c == Some(T)
    <3>1. c \in T /\ Sum(T) = f[c] + Sum(T \ {c})
      BY <2>1, <2>3, SumUnfolds
    <3>. HIDE DEF c, Sum
    <3>2. T \ {c} \in F
      BY <1>1, <3>1
    <3>3. f[c] = 0 /\ Sum(T \ {c}) = 0
      BY <3>1, <3>2
    <3>4. Sum(T) = 0
      BY <3>1, <3>3
    <3>. QED
      BY <3>4
  <2>. QED
    BY <2>2, <2>3
<1>2. S \in F
  <2>. HIDE DEF F
  <2>. QED
    BY <1>1, SubsetInduction
<1>. QED
  BY <1>2

\* The pairs of R order S, one before the other.
Orders(R, S) ==
    /\ \A x \in S : <<x, x>> \notin R
    /\ \A x, y \in S : x = y \/ <<x, y>> \in R \/ <<y, x>> \in R
    /\ \A x, y, z \in S : <<x, y>> \in R /\ <<y, z>> \in R => <<x, z>> \in R

Ahead(S, R, x) == {y \in S : <<y, x>> \in R}

\* A finite set has a last element.
LEMMA LastElement ==
    ASSUME NEW S, IsFiniteSet(S), S # {}, NEW R, Orders(R, S)
    PROVE  \E m \in S : \A k \in S : k = m \/ <<k, m>> \in R
<1>. DEFINE F == {T \in SUBSET S : T # {} => \E m \in T : \A k \in T : k = m \/ <<k, m>> \in R}
<1>1. ASSUME NEW T \in SUBSET S, \A U \in SUBSET T : U # T => U \in F
      PROVE  T \in F
  <2>1. CASE T = {}
    BY <2>1
  <2>2. CASE T # {}
    <3>1. PICK x \in T : TRUE
      BY <2>2
    <3>2. PICK U : U = T \ {x}
      OBVIOUS
    <3>3. U \in SUBSET T /\ U # T
      BY <3>1, <3>2
    <3>4. U \in F
      BY <1>1, <3>3
    <3>5. CASE U = {}
      BY <3>1, <3>2, <3>5
    <3>6. CASE U # {}
      <4>1. PICK m \in U : \A k \in U : k = m \/ <<k, m>> \in R
        BY <3>4, <3>6
      <4>2. m \in T /\ m \in S /\ x \in S
        BY <3>1, <3>3, <4>1
      <4>3. <<x, m>> \in R \/ <<m, x>> \in R
        BY <3>2, <4>1, <4>2 DEF Orders
      <4>4. CASE <<x, m>> \in R
        <5>1. \A k \in T : k = m \/ <<k, m>> \in R
          BY <3>2, <4>1, <4>4
        <5>. QED
          BY <4>2, <5>1
      <4>5. CASE <<m, x>> \in R
        <5>1. \A k \in T : k = x \/ <<k, x>> \in R
          BY <3>2, <4>1, <4>2, <4>5 DEF Orders
        <5>. QED
          BY <3>1, <5>1
      <4>. QED
        BY <4>3, <4>4, <4>5
    <3>. QED
      BY <3>5, <3>6
  <2>. QED
    BY <2>1, <2>2
<1>2. S \in F
  <2>. HIDE DEF F
  <2>. QED
    BY <1>1, SubsetInduction
<1>. QED
  BY <1>2

\* As many elements are ahead of one as it takes: every place is taken.
LEMMA PlacesAreTaken ==
    ASSUME NEW S, IsFiniteSet(S), NEW R, Orders(R, S)
    PROVE  \A n \in 1 .. Cardinality(S) : \E x \in S : Cardinality(Ahead(S, R, x)) = n - 1
<1>. DEFINE F == {T \in SUBSET S :
                     \A n \in 1 .. Cardinality(T) : \E x \in T : Cardinality(Ahead(T, R, x)) = n - 1}
<1>1. ASSUME NEW T \in SUBSET S, \A U \in SUBSET T : U # T => U \in F
      PROVE  T \in F
  <2>1. IsFiniteSet(T) /\ Orders(R, T)
    BY FS_Subset DEF Orders
  <2>2. SUFFICES ASSUME NEW n \in 1 .. Cardinality(T)
                 PROVE  \E x \in T : Cardinality(Ahead(T, R, x)) = n - 1
    OBVIOUS
  <2>3. Cardinality(T) \in Nat
    BY <2>1, FS_CardinalityType
  <2>4. T # {}
    BY <2>2, FS_EmptySet
  <2>5. PICK m \in T : \A k \in T : k = m \/ <<k, m>> \in R
    BY <2>1, <2>4, LastElement
  <2>6. PICK U : U = T \ {m}
    OBVIOUS
  <2>7. U \in SUBSET T /\ U # T
    BY <2>5, <2>6
  <2>8. Cardinality(U) = Cardinality(T) - 1
    BY <2>1, <2>5, <2>6, FS_RemoveElement
  <2>9. CASE n = Cardinality(T)
    <3>1. Ahead(T, R, m) = U
      BY <2>1, <2>5, <2>6 DEF Ahead, Orders
    <3>. QED
      BY <2>8, <2>9, <3>1
  <2>10. CASE n # Cardinality(T)
    <3>1. n \in 1 .. Cardinality(U)
      BY <2>2, <2>3, <2>8, <2>10
    <3>2. U \in F
      BY <1>1, <2>7
    <3>3. PICK x \in U : Cardinality(Ahead(U, R, x)) = n - 1
      BY <3>1, <3>2
    <3>4. x \in T /\ <<x, m>> \in R
      BY <2>5, <2>6, <3>3
    <3>5. <<m, x>> \notin R
      BY <2>1, <2>5, <3>4 DEF Orders
    <3>6. Ahead(T, R, x) = Ahead(U, R, x)
      BY <2>6, <3>5 DEF Ahead
    <3>. QED
      BY <3>3, <3>4, <3>6
  <2>. QED
    BY <2>9, <2>10
<1>2. S \in F
  <2>. HIDE DEF F
  <2>. QED
    BY <1>1, SubsetInduction
<1>. QED
  BY <1>2

\* The later of two elements has more ahead of it.
LEMMA MoreAhead ==
    ASSUME NEW S, IsFiniteSet(S), NEW R, Orders(R, S), NEW x \in S, NEW y \in S, <<x, y>> \in R
    PROVE  Cardinality(Ahead(S, R, x)) < Cardinality(Ahead(S, R, y))
<1>1. PICK A, B : A = Ahead(S, R, x) /\ B = Ahead(S, R, y)
  OBVIOUS
<1>2. A \in SUBSET B /\ B \in SUBSET S
  BY <1>1 DEF Ahead, Orders
<1>3. x \in B /\ x \notin A
  BY <1>1 DEF Ahead, Orders
<1>4. IsFiniteSet(B)
  BY <1>2, FS_Subset
<1>5. IsFiniteSet(A) /\ Cardinality(A) <= Cardinality(B) /\ Cardinality(B) # Cardinality(A)
  BY <1>2, <1>3, <1>4, FS_Subset
<1>6. Cardinality(A) \in Nat /\ Cardinality(B) \in Nat
  BY <1>4, <1>5, FS_CardinalityType
<1>. QED
  BY <1>1, <1>5, <1>6

Listing(S, R) == [n \in 1 .. Cardinality(S) |-> CHOOSE x \in S : Cardinality(Ahead(S, R, x)) = n - 1]

\* The list of a finite set in an order has every element once, in that order.
LEMMA InOrderLists ==
    ASSUME NEW S, IsFiniteSet(S), NEW R, Orders(R, S)
    PROVE  /\ InOrder(S, R) \in Seq(S) /\ Len(InOrder(S, R)) = Cardinality(S) /\ Cardinality(S) \in Nat
           /\ \A i, j \in 1 .. Cardinality(S) : i < j => <<InOrder(S, R)[i], InOrder(S, R)[j]>> \in R
           /\ \A x \in S : \E i \in 1 .. Cardinality(S) : InOrder(S, R)[i] = x
<1>. DEFINE P == Listing(S, R)
<1>0. InOrder(S, R) = P
  BY Zenon DEF InOrder, Listing, Ahead
<1>1. PICK q, c : q = P /\ c = Cardinality(S)
  OBVIOUS
<1>2. c \in Nat
  BY <1>1, FS_CardinalityType
<1>3. ASSUME NEW n \in 1 .. c
      PROVE  q[n] \in S /\ Cardinality(Ahead(S, R, q[n])) = n - 1
  <2>1. \E x \in S : Cardinality(Ahead(S, R, x)) = n - 1
    BY <1>1, PlacesAreTaken
  <2>2. q[n] = CHOOSE x \in S : Cardinality(Ahead(S, R, x)) = n - 1
    BY <1>1 DEF Listing
  <2>. QED
    BY <2>1, <2>2
<1>4. q = [n \in 1 .. c |-> q[n]]
  BY <1>1 DEF Listing
<1>5. q \in Seq(S) /\ Len(q) = c
  BY <1>2, <1>3, <1>4
<1>6. ASSUME NEW i \in 1 .. c, NEW j \in 1 .. c, i < j
      PROVE  <<q[i], q[j]>> \in R
  <2>1. /\ q[i] \in S /\ Cardinality(Ahead(S, R, q[i])) = i - 1
        /\ q[j] \in S /\ Cardinality(Ahead(S, R, q[j])) = j - 1
    BY <1>3
  <2>2. i - 1 # j - 1 /\ ~(j - 1 < i - 1)
    BY <1>6
  <2>3. q[i] # q[j]
    BY <2>1, <2>2
  <2>4. <<q[j], q[i]>> \notin R
    BY <2>1, <2>2, MoreAhead
  <2>. QED
    BY <2>1, <2>3, <2>4 DEF Orders
<1>7. ASSUME NEW x \in S
      PROVE  \E i \in 1 .. c : q[i] = x
  <2>1. PICK A : A = Ahead(S, R, x)
    OBVIOUS
  <2>2. A \in SUBSET S /\ x \notin A
    BY <2>1 DEF Ahead, Orders
  <2>3. IsFiniteSet(A) /\ Cardinality(A) <= c /\ Cardinality(A) # c
    BY <1>1, <2>2, FS_Subset
  <2>4. Cardinality(A) \in Nat
    BY <2>3, FS_CardinalityType
  <2>5. PICK n : n = Cardinality(A) + 1
    OBVIOUS
  <2>6. n \in 1 .. c /\ n - 1 = Cardinality(A)
    BY <1>2, <2>3, <2>4, <2>5
  <2>7. q[n] \in S /\ Cardinality(Ahead(S, R, q[n])) = Cardinality(A)
    BY <1>3, <2>6
  <2>8. ~(Cardinality(A) < Cardinality(A))
    BY <2>4
  <2>9. <<q[n], x>> \notin R /\ <<x, q[n]>> \notin R
    BY <2>1, <2>7, <2>8, MoreAhead
  <2>10. q[n] = x
    BY <2>7, <2>9 DEF Orders
  <2>. QED
    BY <2>6, <2>10
<1>. QED
  BY <1>0, <1>1, <1>2, <1>5, <1>6, <1>7

\* A set of numbers in the order of their size.
LEMMA NumbersInOrder ==
    ASSUME NEW S \in SUBSET Int, IsFiniteSet(S), NEW R,
           \A x, y \in S : <<x, y>> \in R <=> x < y
    PROVE  /\ InOrder(S, R) \in Seq(S) /\ Len(InOrder(S, R)) = Cardinality(S) /\ Cardinality(S) \in Nat
           /\ \A i, j \in 1 .. Cardinality(S) : i < j => InOrder(S, R)[i] < InOrder(S, R)[j]
           /\ \A x \in S : \E i \in 1 .. Cardinality(S) : InOrder(S, R)[i] = x
<1>2. Orders(R, S)
  BY DEF Orders
<1>3. PICK q : q = InOrder(S, R)
  OBVIOUS
<1>4. /\ q \in Seq(S) /\ Len(q) = Cardinality(S) /\ Cardinality(S) \in Nat
      /\ \A i, j \in 1 .. Cardinality(S) : i < j => <<q[i], q[j]>> \in R
      /\ \A x \in S : \E i \in 1 .. Cardinality(S) : q[i] = x
  BY <1>2, <1>3, InOrderLists
<1>5. ASSUME NEW i \in 1 .. Cardinality(S), NEW j \in 1 .. Cardinality(S), i < j
      PROVE  q[i] < q[j]
  <2>1. q[i] \in S /\ q[j] \in S
    BY <1>4
  <2>2. <<q[i], q[j]>> \in R
    BY <1>4, <1>5
  <2>. QED
    BY <2>1, <2>2
<1>. QED
  BY <1>3, <1>4, <1>5
=============================================================================
