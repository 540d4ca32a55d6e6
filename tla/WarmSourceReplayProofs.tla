----------------------- MODULE WarmSourceReplayProofs -----------------------
(***************************************************************************)
(* Proofs about the replay of a warm child, for every set of keys,         *)
(* deadlines and sizes, every limit of the buffer, and every interleaving  *)
(* of the ingest task and the listener task.                               *)
(***************************************************************************)
EXTENDS WarmSourceReplay, SequenceFacts

(***************************************************************************)
(* Sequences of datagrams.                                                 *)
(***************************************************************************)
\* The wire lengths of datagrams.
SizesOf(s) == [i \in DOMAIN s |-> s[i].size]

\* No datagram is there twice.
DistinctIds(s) == \A i, j \in 1 .. Len(s) : s[i].id = s[j].id => i = j

\* The number and the wire length of a datagram.
LEMMA DatagramType ==
    ASSUME NEW d, d \in Datagram
    PROVE  d.id \in 1 .. MaxOffered /\ d.size \in Nat /\ d.key \in Keys \cup {NoKey}
<1>1. d.id \in 1 .. MaxOffered /\ d.key \in Keys \cup {NoKey} /\ d.size \in Sizes
  BY DEF Datagram
<1>2. Sizes \subseteq Nat
  BY ReplayInputs
<1>. QED
  BY <1>1, <1>2, Zenon

\* The bytes of a sequence of datagrams.
LEMMA SizeType ==
    ASSUME NEW s \in Seq(Datagram)
    PROVE  /\ TotalSize(s) = SumFunctionOnSet(SizesOf(s), 1 .. Len(s))
           /\ NatOn(SizesOf(s), 1 .. Len(s)) /\ TotalSize(s) \in Nat
           /\ \A i \in 1 .. Len(s) : s[i] \in Datagram /\ SizesOf(s)[i] = s[i].size
<1>1. /\ DOMAIN s = 1 .. Len(s) /\ Len(s) \in Nat /\ IsFiniteSet(1 .. Len(s))
      /\ \A i \in 1 .. Len(s) : s[i] \in Datagram
  BY FS_Interval
<1>2. TotalSize(s) = SumFunctionOnSet(SizesOf(s), 1 .. Len(s))
  BY <1>1 DEF TotalSize, SizesOf, SumFunction
<1>3. \A i \in 1 .. Len(s) : SizesOf(s)[i] = s[i].size
  BY <1>1 DEF SizesOf
<1>4. \A i \in 1 .. Len(s) : SizesOf(s)[i] \in Nat
  BY <1>1, <1>3, DatagramType
<1>5. SumFunctionOnSet(SizesOf(s), 1 .. Len(s)) \in Nat
  BY <1>1, <1>4, SumRemove
<1>. QED
  BY <1>1, <1>2, <1>3, <1>4, <1>5 DEF NatOn

\* What is known of some datagrams that were drawn from others.
LEMMA DrawnFacts ==
    ASSUME NEW s, s \in Seq(Datagram), NEW p, p \in Seq(Datagram),
           NEW kept, kept \in SUBSET (1 .. Len(s)),
           NEW at, DrawnFrom(p, s, Len(s), kept, at), TakesAll(p, Len(s), kept, at)
    PROVE  /\ TotalSize(p) = SumFunctionOnSet(SizesOf(s), kept)
           /\ Ids(p) = {s[i].id : i \in kept}
           /\ KeysOf(p) = {s[i].key : i \in kept}
           /\ DistinctIds(s) => DistinctIds(p)
<1>0. kept \cap (1 .. Len(s)) = kept
  BY Zenon
<1>1. Len(p) \in Nat /\ Len(s) \in Nat
  OBVIOUS
<1>2. /\ \A i \in 1 .. Len(p) : at[i] \in kept /\ p[i] = s[at[i]]
      /\ \A i, j \in 1 .. Len(p) : i < j => at[i] < at[j]
      /\ \A k \in kept : \E i \in 1 .. Len(p) : at[i] = k
  BY <1>0 DEF DrawnFrom, TakesAll
<1>3. TotalSize(p) = SumFunctionOnSet(SizesOf(s), kept)
  <2>1. Through(SizesOf(p), SizesOf(s), at, Len(p))
    <3>1. /\ \A i \in 1 .. Len(p) : SizesOf(p)[i] = p[i].size
          /\ \A i \in 1 .. Len(s) : SizesOf(s)[i] = s[i].size
      BY SizeType
    <3>2. ASSUME NEW i \in 1 .. Len(p) PROVE SizesOf(p)[i] = SizesOf(s)[at[i]]
      <4>1. PICK k : k = at[i]
        OBVIOUS
      <4>2. k \in 1 .. Len(s) /\ p[i] = s[k]
        BY <1>2, <4>1
      <4>. QED
        BY <3>1, <4>1, <4>2
    <3>. QED
      BY <3>2 DEF Through
  <2>2. NatOn(SizesOf(s), 1 .. Len(s))
    BY SizeType
  <2>3. SumFunctionOnSet(SizesOf(p), 1 .. Len(p)) = SumFunctionOnSet(SizesOf(s), kept \cap (1 .. Len(s)))
    BY <1>1, <2>1, <2>2, SumDrawn
  <2>. QED
    BY <1>0, <2>3, SizeType
<1>4. DOMAIN p = 1 .. Len(p)
  OBVIOUS
<1>5. Ids(p) = {s[i].id : i \in kept}
  <2>1. \A i \in 1 .. Len(p) : p[i].id \in {s[k].id : k \in kept}
    BY <1>2
  <2>2. \A k \in kept : \E i \in 1 .. Len(p) : s[k].id = p[i].id
    BY <1>2
  <2>. QED
    BY <1>4, <2>1, <2>2, Zenon DEF Ids
<1>6. KeysOf(p) = {s[i].key : i \in kept}
  <2>1. \A i \in 1 .. Len(p) : p[i].key \in {s[k].key : k \in kept}
    BY <1>2
  <2>2. \A k \in kept : \E i \in 1 .. Len(p) : s[k].key = p[i].key
    BY <1>2
  <2>. QED
    BY <1>4, <2>1, <2>2, Zenon DEF KeysOf
<1>7. ASSUME DistinctIds(s) PROVE DistinctIds(p)
  <2>. SUFFICES ASSUME NEW i \in 1 .. Len(p), NEW j \in 1 .. Len(p), p[i].id = p[j].id
                PROVE  i = j
    BY DEF DistinctIds
  <2>1. at[i] \in 1 .. Len(s) /\ at[j] \in 1 .. Len(s) /\ s[at[i]].id = s[at[j]].id
    BY <1>2
  <2>2. at[i] = at[j]
    BY <1>7, <2>1 DEF DistinctIds
  <2>3. at[i] \in Int /\ at[j] \in Int
    BY <2>1
  <2>4. ~(i < j) /\ ~(j < i)
    BY <1>2, <2>2, <2>3
  <2>. QED
    BY <2>4
<1>. QED
  BY <1>3, <1>5, <1>6, <1>7

\* What is known of some datagrams that were kept.
LEMMA KeptFacts ==
    ASSUME NEW s \in Seq(Datagram), NEW kept \in SUBSET (1 .. Len(s))
    PROVE  /\ Subsequence(s, kept) \in Seq(Datagram)
           /\ Len(Subsequence(s, kept)) <= Len(s) /\ Len(Subsequence(s, kept)) \in Nat
           /\ TotalSize(Subsequence(s, kept)) = SumFunctionOnSet(SizesOf(s), kept)
           /\ Ids(Subsequence(s, kept)) = {s[i].id : i \in kept}
           /\ KeysOf(Subsequence(s, kept)) = {s[i].key : i \in kept}
           /\ DistinctIds(s) => DistinctIds(Subsequence(s, kept))
<1>1. PICK p : p = Subsequence(s, kept)
  OBVIOUS
<1>2. p \in Seq(Datagram) /\ Len(p) <= Len(s) /\ Len(p) \in Nat
  BY <1>1, SubsequenceFacts
<1>3. PICK at : DrawnFrom(p, s, Len(s), kept, at) /\ TakesAll(p, Len(s), kept, at)
  BY <1>1, SubsequenceFacts
<1>4. /\ TotalSize(p) = SumFunctionOnSet(SizesOf(s), kept)
      /\ Ids(p) = {s[i].id : i \in kept}
      /\ KeysOf(p) = {s[i].key : i \in kept}
      /\ DistinctIds(s) => DistinctIds(p)
  BY <1>2, <1>3, DrawnFacts, Zenon
<1>. QED
  BY <1>1, <1>2, <1>4, Zenon

\* The bytes of what is kept and of what goes add up.
LEMMA Parted ==
    ASSUME NEW s \in Seq(Datagram), NEW gone \in SUBSET (1 .. Len(s))
    PROVE  /\ TotalSize(Subsequence(s, (1 .. Len(s)) \ gone))
                = TotalSize(s) - TotalSize(Subsequence(s, gone))
           /\ TotalSize(Subsequence(s, gone)) \in Nat
<1>1. PICK kept : kept = (1 .. Len(s)) \ gone
  OBVIOUS
<1>2. PICK f : f = SizesOf(s)
  OBVIOUS
<1>3. NatOn(f, 1 .. Len(s)) /\ TotalSize(s) = SumFunctionOnSet(f, 1 .. Len(s))
  BY <1>2, SizeType
<1>4. /\ TotalSize(Subsequence(s, kept)) = SumFunctionOnSet(f, kept)
      /\ TotalSize(Subsequence(s, gone)) = SumFunctionOnSet(f, gone)
  <2>1. kept \in SUBSET (1 .. Len(s))
    BY <1>1
  <2>. QED
    BY <1>2, <2>1, KeptFacts
<1>5. PICK S : S = 1 .. Len(s)
  OBVIOUS
<1>6. IsFiniteSet(S) /\ SameOn(f, f, S \ gone) /\ NatOn(f, S) /\ gone \in SUBSET S
  BY <1>3, <1>5, FS_Interval DEF SameOn
<1>7. /\ SumFunctionOnSet(f, S \ gone) = SumFunctionOnSet(f, S) - SumFunctionOnSet(f, gone)
      /\ SumFunctionOnSet(f, S \ gone) \in Nat
      /\ SumFunctionOnSet(f, gone) \in Nat
      /\ SumFunctionOnSet(f, S) \in Nat
  BY <1>6, SumWithout, Zenon
<1>. QED
  BY <1>1, <1>3, <1>4, <1>5, <1>7

\* One datagram more at the end.
LEMMA SizeAppend ==
    ASSUME NEW q \in Seq(Datagram), NEW d, d \in Datagram
    PROVE  TotalSize(Append(q, d)) = TotalSize(q) + d.size
<1>0. d.size \in Nat
  BY DatagramType
<1>1. PICK l, n : l = Append(q, d) /\ n = Len(q)
  OBVIOUS
<1>2. /\ l \in Seq(Datagram) /\ Len(l) = n + 1 /\ n \in Nat /\ l[n + 1] = d
      /\ \A i \in 1 .. n : l[i] = q[i]
  BY <1>1
<1>3. PICK f, g : f = SizesOf(q) /\ g = SizesOf(l)
  OBVIOUS
<1>4. /\ NatOn(f, 1 .. n) /\ TotalSize(q) = SumFunctionOnSet(f, 1 .. n)
      /\ \A i \in 1 .. n : f[i] = q[i].size
  BY <1>1, <1>3, SizeType
<1>5. /\ TotalSize(l) = SumFunctionOnSet(g, 1 .. (n + 1))
      /\ \A i \in 1 .. (n + 1) : g[i] = l[i].size
  BY <1>2, <1>3, SizeType
<1>6. g[n + 1] = d.size /\ Lengthened(g, f, n)
  BY <1>0, <1>2, <1>4, <1>5 DEF Lengthened, SameOn
<1>7. SumFunctionOnSet(g, 1 .. (n + 1)) = SumFunctionOnSet(f, 1 .. n) + g[n + 1]
  BY <1>6, SumAppend
<1>. QED
  BY <1>1, <1>4, <1>5, <1>6, <1>7

\* q is cut after its first m datagrams into p and r.
Cut(q, m, p, r) == p = SubSeq(q, 1, m) /\ r = SubSeq(q, m + 1, Len(q))

\* The datagrams without the first m.
LEMMA SizeDrop ==
    ASSUME NEW q \in Seq(Datagram), NEW m \in 0 .. Len(q), NEW p, NEW r, Cut(q, m, p, r)
    PROVE  /\ r \in Seq(Datagram) /\ Len(r) = Len(q) - m
           /\ \A i \in 1 .. Len(r) : r[i] = q[i + m] /\ i + m \in 1 .. Len(q)
           /\ p \in Seq(Datagram) /\ Len(p) = m /\ \A i \in 1 .. m : p[i] = q[i]
           /\ TotalSize(r) = TotalSize(q) - TotalSize(p)
           /\ TotalSize(p) \in Nat
<1>1. /\ r \in Seq(Datagram) /\ Len(r) = Len(q) - m /\ Len(q) \in Nat
      /\ \A i \in 1 .. (Len(q) - m) : r[i] = q[i + m] /\ i + m \in 1 .. Len(q)
  BY DEF Cut
<1>2. /\ p \in Seq(Datagram) /\ Len(p) = m
      /\ \A i \in 1 .. m : p[i] = q[i]
  BY DEF Cut
<1>3. PICK n, f, g, h : /\ n = Len(q) /\ f = SizesOf(q) /\ g = SizesOf(r) /\ h = SizesOf(p)
  OBVIOUS
<1>4. /\ TotalSize(q) = SumFunctionOnSet(f, 1 .. n) /\ NatOn(f, 1 .. n)
      /\ \A i \in 1 .. n : f[i] = q[i].size
  BY <1>3, SizeType
<1>5. /\ TotalSize(r) = SumFunctionOnSet(g, 1 .. (n - m))
      /\ \A i \in 1 .. (n - m) : g[i] = r[i].size
  BY <1>1, <1>3, SizeType
<1>6. /\ TotalSize(p) = SumFunctionOnSet(h, 1 .. m) /\ TotalSize(p) \in Nat
      /\ \A i \in 1 .. m : h[i] = p[i].size
  BY <1>2, <1>3, SizeType
<1>7. n \in Nat /\ m \in 0 .. n
  BY <1>1, <1>3
<1>8. Shifted(g, f, n, m)
  BY <1>1, <1>3, <1>4, <1>5 DEF Shifted
<1>9. SumFunctionOnSet(g, 1 .. (n - m)) = SumFunctionOnSet(f, 1 .. n) - SumFunctionOnSet(f, 1 .. m)
  BY <1>4, <1>7, <1>8, SumShift
<1>10. SumFunctionOnSet(h, 1 .. m) = SumFunctionOnSet(f, 1 .. m)
  <2>1. \A i \in 1 .. m : h[i] = f[i]
    BY <1>2, <1>4, <1>6, <1>7
  <2>2. IsFiniteSet(1 .. m)
    BY <1>7, FS_Interval
  <2>. QED
    BY <2>1, <2>2, SumSame
<1>. QED
  BY <1>1, <1>2, <1>4, <1>5, <1>6, <1>9, <1>10

\* What is left of the order of objects.
LEMMA OrderKept ==
    ASSUME NEW o \in Seq(Keys), Once(o), NEW kept \in SUBSET (1 .. Len(o))
    PROVE  /\ Subsequence(o, kept) \in Seq(Keys) /\ Once(Subsequence(o, kept))
           /\ Len(Subsequence(o, kept)) <= Len(o) /\ Len(Subsequence(o, kept)) \in Nat
           /\ ToSet(Subsequence(o, kept)) = {o[i] : i \in kept}
<1>1. PICK p : p = Subsequence(o, kept)
  OBVIOUS
<1>2. p \in Seq(Keys) /\ Len(p) <= Len(o) /\ Len(p) \in Nat
  BY <1>1, SubsequenceFacts
<1>3. PICK at : DrawnFrom(p, o, Len(o), kept, at) /\ TakesAll(p, Len(o), kept, at)
  BY <1>1, SubsequenceFacts
<1>4. kept \cap (1 .. Len(o)) = kept
  BY Zenon
<1>5. /\ \A i \in 1 .. Len(p) : at[i] \in kept /\ p[i] = o[at[i]]
      /\ \A i, j \in 1 .. Len(p) : i < j => at[i] < at[j]
      /\ \A k \in kept : \E i \in 1 .. Len(p) : at[i] = k
  BY <1>3, <1>4 DEF DrawnFrom, TakesAll
<1>6. DOMAIN p = 1 .. Len(p)
  BY <1>2
<1>7. ToSet(p) = {o[i] : i \in kept}
  <2>1. \A i \in 1 .. Len(p) : p[i] \in {o[k] : k \in kept}
    BY <1>5
  <2>2. \A k \in kept : \E i \in 1 .. Len(p) : o[k] = p[i]
    BY <1>5
  <2>. QED
    BY <1>6, <2>1, <2>2, Zenon DEF ToSet
<1>8. Once(p)
  <2>. SUFFICES ASSUME NEW i \in 1 .. Len(p), NEW j \in 1 .. Len(p), p[i] = p[j]
                PROVE  i = j
    BY DEF Once
  <2>1. at[i] \in 1 .. Len(o) /\ at[j] \in 1 .. Len(o) /\ o[at[i]] = o[at[j]]
    BY <1>5
  <2>2. at[i] = at[j]
    BY <2>1 DEF Once
  <2>3. at[i] \in Int /\ at[j] \in Int
    BY <2>1
  <2>4. ~(i < j) /\ ~(j < i)
    BY <1>5, <2>2, <2>3
  <2>. QED
    BY <2>4
<1>. QED
  BY <1>1, <1>2, <1>7, <1>8, Zenon

(***************************************************************************)
(* The operations of WarmSourceReplayBuffer keep its accounts.             *)
(***************************************************************************)
\* Datagrams, order of objects and bytes agree.
Tally(q, o, bytes) ==
    /\ q \in Seq(Datagram) /\ DistinctIds(q)
    /\ o \in Seq(Keys) /\ Once(o)
    /\ ToSet(o) = KeysOf(q)
    /\ bytes = TotalSize(q)

\* A buffer's accounts are exact.
Tallied(b) == Tally(b.datagrams, b.object_order, b.bytes)

\* One buffer has nothing another one had not.
Within(c, b) ==
    /\ Len(c.datagrams) <= Len(b.datagrams) /\ Len(c.object_order) <= Len(b.object_order)
    /\ c.bytes <= b.bytes /\ Ids(c.datagrams) \subseteq Ids(b.datagrams)

\* Some datagrams go, and the keys of those that stay are known.
LEMMA Removed ==
    ASSUME NEW q, NEW o, NEW bytes, Tally(q, o, bytes), NEW gone \in SUBSET (1 .. Len(q)),
           NEW r, r \in Seq(Keys), Once(r),
           ToSet(r) = KeysOf(Subsequence(q, (1 .. Len(q)) \ gone))
    PROVE  /\ Tally(Subsequence(q, (1 .. Len(q)) \ gone), r, bytes - TotalSize(Subsequence(q, gone)))
           /\ Len(Subsequence(q, (1 .. Len(q)) \ gone)) <= Len(q)
           /\ bytes - TotalSize(Subsequence(q, gone)) <= bytes
           /\ Ids(Subsequence(q, (1 .. Len(q)) \ gone)) \subseteq Ids(q)
<1>1. q \in Seq(Datagram) /\ DistinctIds(q) /\ bytes = TotalSize(q) /\ bytes \in Nat
  BY SizeType DEF Tally
<1>2. PICK kept : kept = (1 .. Len(q)) \ gone
  OBVIOUS
<1>3. PICK p : p = Subsequence(q, kept)
  OBVIOUS
<1>4. kept \in SUBSET (1 .. Len(q))
  BY <1>2, Zenon
<1>5. /\ p \in Seq(Datagram) /\ Len(p) <= Len(q) /\ Ids(p) = {q[i].id : i \in kept} /\ DistinctIds(p)
  BY <1>1, <1>3, <1>4, KeptFacts
<1>6. TotalSize(p) = bytes - TotalSize(Subsequence(q, gone)) /\ TotalSize(Subsequence(q, gone)) \in Nat
  BY <1>1, <1>2, <1>3, Parted
<1>7. Ids(p) \subseteq Ids(q)
  <2>1. DOMAIN q = 1 .. Len(q)
    BY <1>1
  <2>. QED
    BY <1>4, <1>5, <2>1, Zenon DEF Ids
<1>8. Tally(p, r, bytes - TotalSize(Subsequence(q, gone)))
  <2>1. ToSet(r) = KeysOf(p)
    BY <1>2, <1>3, Zenon
  <2>. QED
    BY <1>5, <1>6, <2>1 DEF Tally
<1>9. bytes - TotalSize(Subsequence(q, gone)) <= bytes
  BY <1>1, <1>6
<1>. QED
  BY <1>2, <1>3, <1>5, <1>7, <1>8, <1>9, Zenon

\* remove_expired.
LEMMA ExpiredRemoved ==
    ASSUME NEW b, Tallied(b)
    PROVE  Tallied(RemoveExpired(b)) /\ Within(RemoveExpired(b), b)
<1>1. PICK q, o, bytes : q = b.datagrams /\ o = b.object_order /\ bytes = b.bytes
  OBVIOUS
<1>2. /\ Tally(q, o, bytes) /\ q \in Seq(Datagram) /\ o \in Seq(Keys) /\ Once(o)
      /\ ToSet(o) = KeysOf(q)
  BY <1>1 DEF Tallied, Tally
<1>3. DOMAIN q = 1 .. Len(q) /\ DOMAIN o = 1 .. Len(o)
  BY <1>2
<1>4. PICK gone : gone = Late(q)
  OBVIOUS
<1>5. gone \in SUBSET (1 .. Len(q))
  BY <1>3, <1>4 DEF Late
<1>6. PICK kept : kept = (1 .. Len(q)) \ gone
  OBVIOUS
<1>7. kept \in SUBSET (1 .. Len(q))
  BY <1>6, Zenon
<1>8. PICK p : p = Subsequence(q, kept)
  OBVIOUS
<1>9. PICK listed : listed = {i \in 1 .. Len(o) : o[i] \in KeysOf(p)}
  OBVIOUS
<1>10. PICK r : r = Subsequence(o, listed)
  OBVIOUS
<1>11. /\ RemoveExpired(b).datagrams = p /\ RemoveExpired(b).object_order = r
       /\ RemoveExpired(b).bytes = bytes - TotalSize(Subsequence(q, gone))
  BY <1>1, <1>3, <1>4, <1>6, <1>8, <1>9, <1>10 DEF RemoveExpired, RetainOrder, Live
<1>12. r \in Seq(Keys) /\ Once(r) /\ Len(r) <= Len(o) /\ ToSet(r) = {o[i] : i \in listed}
  <2>1. listed \in SUBSET (1 .. Len(o))
    BY <1>9, Zenon
  <2>. QED
    BY <1>2, <1>10, <2>1, OrderKept
<1>13. ToSet(r) = KeysOf(p)
  <2>1. KeysOf(p) = {q[i].key : i \in kept}
    BY <1>2, <1>7, <1>8, KeptFacts
  <2>2. \A k \in KeysOf(p) : \E i \in 1 .. Len(o) : o[i] = k
    <3>1. \A i \in kept : q[i].key \in ToSet(o)
      BY <1>2, <1>3, <1>7, Zenon DEF KeysOf
    <3>. QED
      BY <1>3, <2>1, <3>1, Zenon DEF ToSet
  <2>. QED
    BY <1>9, <1>12, <2>2, Zenon
<1>14. /\ Tally(p, r, bytes - TotalSize(Subsequence(q, gone))) /\ Len(p) <= Len(q)
       /\ bytes - TotalSize(Subsequence(q, gone)) <= bytes /\ Ids(p) \subseteq Ids(q)
  BY <1>2, <1>5, <1>6, <1>8, <1>12, <1>13, Removed, Zenon
<1>. QED
  BY <1>1, <1>11, <1>12, <1>14, Zenon DEF Tallied, Within

\* A datagram is appended.
LEMMA Inserted ==
    ASSUME NEW b, Tallied(b), NEW d, d \in Datagram, d.key \in Keys, d.id \notin Ids(b.datagrams)
    PROVE  /\ Tallied(Insert(b, d))
           /\ Len(Insert(b, d).datagrams) = Len(b.datagrams) + 1
           /\ Ids(Insert(b, d).datagrams) \subseteq Ids(b.datagrams) \cup {d.id}
<1>1. PICK q, o, bytes : q = b.datagrams /\ o = b.object_order /\ bytes = b.bytes
  OBVIOUS
<1>2. /\ q \in Seq(Datagram) /\ DistinctIds(q) /\ o \in Seq(Keys) /\ Once(o)
      /\ ToSet(o) = KeysOf(q) /\ bytes = TotalSize(q)
  BY <1>1 DEF Tallied, Tally
<1>3. DOMAIN q = 1 .. Len(q) /\ DOMAIN o = 1 .. Len(o) /\ Len(q) \in Nat /\ Len(o) \in Nat
  BY <1>2
<1>4. PICK l, r : l = Append(q, d) /\ r = IF Contains(o, d.key) THEN o ELSE Append(o, d.key)
  OBVIOUS
<1>5. /\ Insert(b, d).datagrams = l /\ Insert(b, d).object_order = r
      /\ Insert(b, d).bytes = bytes + d.size
  BY <1>1, <1>4 DEF Insert
<1>6. /\ l \in Seq(Datagram) /\ Len(l) = Len(q) + 1 /\ l[Len(q) + 1] = d
      /\ DOMAIN l = 1 .. (Len(q) + 1) /\ \A i \in 1 .. Len(q) : l[i] = q[i]
  BY <1>2, <1>4
<1>7. TotalSize(l) = bytes + d.size
  BY <1>2, <1>4, SizeAppend
<1>8. \A i \in 1 .. Len(q) : q[i].id # d.id
  BY <1>1, <1>3 DEF Ids
<1>9. DistinctIds(l)
  <2>. SUFFICES ASSUME NEW i \in 1 .. Len(l), NEW j \in 1 .. Len(l), l[i].id = l[j].id
                PROVE  i = j
    BY DEF DistinctIds
  <2>1. CASE i \in 1 .. Len(q) /\ j \in 1 .. Len(q)
    BY <1>2, <1>6, <2>1 DEF DistinctIds
  <2>2. CASE i = Len(q) + 1
    BY <1>3, <1>6, <1>8, <2>2
  <2>3. CASE j = Len(q) + 1
    BY <1>3, <1>6, <1>8, <2>3
  <2>. QED
    BY <1>3, <1>6, <2>1, <2>2, <2>3
<1>10. Ids(l) \subseteq Ids(q) \cup {d.id} /\ KeysOf(l) = KeysOf(q) \cup {d.key}
  <2>1. \A i \in 1 .. (Len(q) + 1) : i \in 1 .. Len(q) \/ i = Len(q) + 1
    BY <1>3
  <2>2. \A i \in 1 .. Len(q) : i \in 1 .. (Len(q) + 1)
    BY <1>3
  <2>3. Len(q) + 1 \in 1 .. (Len(q) + 1)
    BY <1>3
  <2>4. PICK n : n = Len(q) + 1
    OBVIOUS
  <2>5. \A i \in 1 .. n : (i \in 1 .. Len(q) /\ l[i] = q[i]) \/ l[i] = d
    BY <1>6, <2>1, <2>4
  <2>6. \A i \in 1 .. Len(q) : i \in 1 .. n /\ q[i] = l[i]
    BY <1>6, <2>2, <2>4
  <2>7. Ids(l) \subseteq Ids(q) \cup {d.id}
    BY <1>3, <1>6, <2>4, <2>5 DEF Ids
  <2>8. \A k \in KeysOf(l) : k \in KeysOf(q) \cup {d.key}
    BY <1>3, <1>6, <2>4, <2>5 DEF KeysOf
  <2>9. \A k \in KeysOf(q) : k \in KeysOf(l)
    <3>1. \A i \in 1 .. Len(q) : l[i].key \in KeysOf(l)
      BY <1>6, <2>4, <2>6, Zenon DEF KeysOf
    <3>. QED
      BY <1>3, <2>6, <3>1 DEF KeysOf
  <2>10. d.key \in KeysOf(l)
    <3>1. n \in DOMAIN l /\ l[n] = d
      BY <1>6, <2>3, <2>4
    <3>. QED
      BY <3>1 DEF KeysOf
  <2>. QED
    BY <2>7, <2>8, <2>9, <2>10, Zenon
<1>11. r \in Seq(Keys) /\ Once(r) /\ ToSet(r) = ToSet(o) \cup {d.key}
  <2>1. CASE Contains(o, d.key)
    <3>1. PICK i \in 1 .. Len(o) : o[i] = d.key
      BY <2>1 DEF Contains
    <3>2. d.key \in ToSet(o)
      BY <1>3, <3>1, Zenon DEF ToSet
    <3>3. r = o
      BY <1>4, <2>1
    <3>. QED
      BY <1>2, <3>2, <3>3, Zenon
  <2>2. CASE ~Contains(o, d.key)
    <3>1. r = Append(o, d.key)
      BY <1>4, <2>2
    <3>2. \A i \in 1 .. Len(o) : o[i] # d.key
      BY <2>2 DEF Contains
    <3>3. PICK k : k = d.key
      OBVIOUS
    <3>4. k \in Keys /\ r = Append(o, k)
      BY <3>1, <3>3
    <3>5. /\ r \in Seq(Keys) /\ Len(r) = Len(o) + 1 /\ r[Len(o) + 1] = k
          /\ DOMAIN r = 1 .. (Len(o) + 1) /\ \A i \in 1 .. Len(o) : r[i] = o[i]
      BY <1>2, <3>4
    <3>6. Once(r)
      <4>. SUFFICES ASSUME NEW i \in 1 .. Len(r), NEW j \in 1 .. Len(r), r[i] = r[j]
                    PROVE  i = j
        BY DEF Once
      <4>1. CASE i \in 1 .. Len(o) /\ j \in 1 .. Len(o)
        BY <1>2, <3>5, <4>1 DEF Once
      <4>2. CASE i = Len(o) + 1
        BY <1>3, <3>2, <3>3, <3>5, <4>2
      <4>3. CASE j = Len(o) + 1
        BY <1>3, <3>2, <3>3, <3>5, <4>3
      <4>. QED
        BY <1>3, <3>5, <4>1, <4>2, <4>3
    <3>7. ToSet(r) = ToSet(o) \cup {k}
      <4>1. PICK n : n = Len(o) + 1
        OBVIOUS
      <4>2. n \in 1 .. n /\ \A i \in 1 .. n : i \in 1 .. Len(o) \/ i = n
        BY <1>3, <4>1
      <4>3. \A i \in 1 .. Len(o) : i \in 1 .. n
        BY <1>3, <4>1
      <4>4. DOMAIN r = 1 .. n /\ r[n] = k /\ \A i \in 1 .. Len(o) : r[i] = o[i]
        BY <3>5, <4>1
      <4>5. \A x \in ToSet(r) : x \in ToSet(o) \cup {k}
        BY <1>3, <4>2, <4>4 DEF ToSet
      <4>6. \A x \in ToSet(o) : x \in ToSet(r)
        BY <1>3, <4>3, <4>4 DEF ToSet
      <4>7. k \in ToSet(r)
        BY <4>2, <4>4 DEF ToSet
      <4>. QED
        BY <4>5, <4>6, <4>7, Zenon
    <3>. QED
      BY <3>3, <3>5, <3>6, <3>7, Zenon
  <2>. QED
    BY <2>1, <2>2
<1>12. Tally(l, r, bytes + d.size)
  BY <1>2, <1>6, <1>7, <1>9, <1>10, <1>11 DEF Tally
<1>. QED
  BY <1>1, <1>5, <1>6, <1>10, <1>12, Zenon DEF Tallied

\* The objects that leave the window.
LEMMA Retired ==
    ASSUME NEW b, Tallied(b)
    PROVE  /\ Tallied(RetireObjects(b)) /\ Within(RetireObjects(b), b)
           /\ Len(RetireObjects(b).object_order) <= MaxObjects
<1>1. PICK q, o, bytes : q = b.datagrams /\ o = b.object_order /\ bytes = b.bytes
  OBVIOUS
<1>2. /\ Tally(q, o, bytes) /\ q \in Seq(Datagram) /\ o \in Seq(Keys) /\ Once(o)
      /\ ToSet(o) = KeysOf(q)
  BY <1>1 DEF Tallied, Tally
<1>3. DOMAIN q = 1 .. Len(q) /\ DOMAIN o = 1 .. Len(o) /\ Len(o) \in Nat /\ MaxObjects \in Nat
  BY <1>2, ReplayBounds
<1>4. PICK m : m = IF Len(o) > MaxObjects THEN Len(o) - MaxObjects ELSE 0
  OBVIOUS
<1>5. m \in 0 .. Len(o) /\ Len(o) - m <= MaxObjects
  <2>1. PICK n : n = Len(o)
    OBVIOUS
  <2>2. n \in Nat /\ m = IF n > MaxObjects THEN n - MaxObjects ELSE 0
    BY <1>3, <1>4, <2>1, Zenon
  <2>3. m \in 0 .. n /\ n - m <= MaxObjects
    <3>1. CASE n > MaxObjects
      BY <1>3, <2>2, <3>1
    <3>2. CASE ~(n > MaxObjects)
      BY <1>3, <2>2, <3>2
    <3>. QED
      BY <3>1, <3>2
  <2>. QED
    BY <2>1, <2>3, Zenon
<1>6. PICK retired : retired = ToSet(SubSeq(o, 1, m))
  OBVIOUS
<1>7. PICK gone : gone = Of(q, retired)
  OBVIOUS
<1>8. PICK kept : kept = (1 .. Len(q)) \ gone
  OBVIOUS
<1>9. PICK p, r : p = Subsequence(q, kept) /\ r = SubSeq(o, m + 1, Len(o))
  OBVIOUS
<1>10. /\ RetireObjects(b).datagrams = p /\ RetireObjects(b).object_order = r
       /\ RetireObjects(b).bytes = bytes - TotalSize(Subsequence(q, gone))
  BY <1>1, <1>3, <1>4, <1>6, <1>7, <1>8, <1>9 DEF RetireObjects
<1>11. gone \in SUBSET (1 .. Len(q)) /\ kept \in SUBSET (1 .. Len(q))
  BY <1>3, <1>7, <1>8, Zenon DEF Of
<1>12. /\ r \in Seq(Keys) /\ Len(r) = Len(o) - m /\ DOMAIN r = 1 .. (Len(o) - m)
       /\ \A i \in 1 .. (Len(o) - m) : r[i] = o[i + m] /\ i + m \in 1 .. Len(o)
  BY <1>2, <1>5, <1>9
<1>13. retired = {o[i] : i \in 1 .. m}
  <2>1. PICK t : t = SubSeq(o, 1, m)
    OBVIOUS
  <2>2. DOMAIN t = 1 .. m /\ \A i \in 1 .. m : t[i] = o[i]
    BY <1>2, <1>5, <2>1
  <2>. QED
    BY <1>6, <2>1, <2>2 DEF ToSet
<1>14. Once(r)
  <2>. SUFFICES ASSUME NEW i \in 1 .. Len(r), NEW j \in 1 .. Len(r), r[i] = r[j]
                PROVE  i = j
    BY DEF Once
  <2>1. i + m = j + m
    BY <1>2, <1>12 DEF Once
  <2>. QED
    BY <1>5, <1>12, <2>1
<1>15. \A k : k \in ToSet(r) <=> k \in ToSet(o) /\ k \notin retired
  <2>1. ASSUME NEW i \in 1 .. (Len(o) - m)
        PROVE  r[i] \in ToSet(o) /\ r[i] \notin retired
    <3>1. PICK j : j = i + m
      OBVIOUS
    <3>2. r[i] = o[j] /\ j \in 1 .. Len(o) /\ j > m
      BY <1>5, <1>12, <3>1
    <3>3. r[i] \in ToSet(o)
      BY <1>3, <3>2 DEF ToSet
    <3>4. \A k \in 1 .. m : o[k] # o[j]
      <4>1. \A k \in 1 .. m : k \in 1 .. Len(o) /\ k # j
        BY <1>3, <1>5, <3>2
      <4>. QED
        BY <1>2, <3>2, <4>1, Zenon DEF Once
    <3>5. r[i] \notin retired
      BY <1>13, <3>2, <3>4
    <3>. QED
      BY <3>3, <3>5
  <2>2. ASSUME NEW j \in 1 .. Len(o), o[j] \notin retired
        PROVE  o[j] \in ToSet(r)
    <3>1. j \notin 1 .. m
      BY <1>13, <2>2
    <3>2. PICK i : i = j - m
      OBVIOUS
    <3>3. i \in 1 .. (Len(o) - m) /\ i + m = j
      BY <1>3, <1>5, <3>1, <3>2
    <3>4. r[i] = o[j]
      BY <1>12, <3>3
    <3>. QED
      BY <1>12, <3>3, <3>4 DEF ToSet
  <2>3. \A k \in ToSet(r) : \E i \in 1 .. (Len(o) - m) : r[i] = k
    BY <1>12 DEF ToSet
  <2>4. \A k \in ToSet(o) : \E j \in 1 .. Len(o) : o[j] = k
    BY <1>3 DEF ToSet
  <2>5. \A k \in ToSet(r) : k \in ToSet(o) /\ k \notin retired
    BY <2>1, <2>3
  <2>6. \A k \in ToSet(o) : k \notin retired => k \in ToSet(r)
    BY <2>2, <2>4
  <2>. QED
    BY <2>5, <2>6
<1>16. \A k : k \in KeysOf(p) <=> k \in KeysOf(q) /\ k \notin retired
  <2>1. KeysOf(p) = {q[i].key : i \in kept}
    BY <1>2, <1>9, <1>11, KeptFacts
  <2>2. \A i \in 1 .. Len(q) : i \in kept <=> q[i].key \notin retired
    BY <1>3, <1>7, <1>8 DEF Of
  <2>3. KeysOf(q) = {q[i].key : i \in 1 .. Len(q)}
    BY <1>3 DEF KeysOf
  <2>4. \A k \in KeysOf(p) : k \in KeysOf(q) /\ k \notin retired
    BY <1>11, <2>1, <2>2, <2>3
  <2>5. \A k \in KeysOf(q) : k \notin retired => k \in KeysOf(p)
    BY <2>1, <2>2, <2>3
  <2>. QED
    BY <2>4, <2>5
<1>17. ToSet(r) = KeysOf(p)
  BY <1>2, <1>15, <1>16, Zenon
<1>18. /\ Tally(p, r, bytes - TotalSize(Subsequence(q, gone))) /\ Len(p) <= Len(q)
       /\ bytes - TotalSize(Subsequence(q, gone)) <= bytes /\ Ids(p) \subseteq Ids(q)
  BY <1>2, <1>8, <1>9, <1>11, <1>12, <1>14, <1>17, Removed, Zenon
<1>19. Len(r) <= Len(o) /\ Len(r) <= MaxObjects
  BY <1>3, <1>5, <1>12
<1>. QED
  BY <1>1, <1>10, <1>18, <1>19, Zenon DEF Tallied, Within

\* The oldest datagrams are evicted.
LEMMA Evicted ==
    ASSUME NEW b, Tallied(b)
    PROVE  /\ Tallied(EvictDatagrams(b)) /\ Within(EvictDatagrams(b), b)
           /\ Len(EvictDatagrams(b).datagrams) <= MaxDatagrams
           /\ EvictDatagrams(b).bytes <= MaxBytes
<1>1. PICK q, o, bytes : q = b.datagrams /\ o = b.object_order /\ bytes = b.bytes
  OBVIOUS
<1>2. /\ q \in Seq(Datagram) /\ DistinctIds(q) /\ o \in Seq(Keys) /\ Once(o)
      /\ ToSet(o) = KeysOf(q) /\ bytes = TotalSize(q)
  BY <1>1 DEF Tallied, Tally
<1>3. /\ DOMAIN q = 1 .. Len(q) /\ DOMAIN o = 1 .. Len(o) /\ Len(o) \in Nat /\ Len(q) \in Nat
      /\ MaxDatagrams \in Nat /\ MaxBytes \in Nat /\ bytes \in Nat
  BY <1>2, ReplayBounds, SizeType
<1>. DEFINE Fits(k) == /\ Len(q) - k <= MaxDatagrams
                       /\ bytes - TotalSize(SubSeq(q, 1, k)) <= MaxBytes
            N == {k \in 0 .. Len(q) : Fits(k)}
            Least == CHOOSE k \in 0 .. Len(q) : Fits(k) /\ \A j \in 0 .. (k - 1) : ~Fits(j)
<1>4. Len(q) \in N
  <2>1. PICK p : p = SubSeq(q, 1, Len(q))
    OBVIOUS
  <2>2. PICK r : r = SubSeq(q, Len(q) + 1, Len(q))
    OBVIOUS
  <2>3. Cut(q, Len(q), p, r) /\ Len(q) \in 0 .. Len(q)
    BY <1>3, <2>1, <2>2 DEF Cut
  <2>4. TotalSize(r) = TotalSize(q) - TotalSize(p) /\ TotalSize(p) \in Nat /\ Len(r) = Len(q) - Len(q)
        /\ r \in Seq(Datagram)
    BY <1>2, <2>3, SizeDrop
  <2>5. TotalSize(r) = 0
    <3>1. TotalSize(r) = SumFunctionOnSet(SizesOf(r), 1 .. Len(r))
      BY <2>4, SizeType
    <3>2. 1 .. Len(r) = {} /\ IsFiniteSet({})
      BY <1>3, <2>4, FS_EmptySet
    <3>. QED
      BY <3>1, <3>2, SumUnfolds
  <2>6. bytes - TotalSize(p) = 0
    BY <1>2, <1>3, <2>4, <2>5
  <2>. QED
    BY <1>3, <2>1, <2>3, <2>6
<1>5. \E k \in 0 .. Len(q) : Fits(k) /\ \A j \in 0 .. (k - 1) : ~Fits(j)
  <2>1. N \in SUBSET Nat /\ N # {}
    BY <1>3, <1>4
  <2>2. PICK k \in N : \A j \in N : k <= j
    <3>. HIDE DEF N
    <3>. QED
      BY <2>1, LeastElement
  <2>3. \A j \in 0 .. (k - 1) : j \in 0 .. Len(q) /\ ~(k <= j)
    BY <1>3
  <2>4. \A j \in 0 .. (k - 1) : ~Fits(j)
    <3>. HIDE DEF Fits
    <3>. QED
      BY <2>2, <2>3
  <2>5. k \in 0 .. Len(q) /\ Fits(k)
    <3>. HIDE DEF Fits
    <3>. QED
      OBVIOUS
  <2>. HIDE DEF Fits
  <2>. QED
    BY <2>4, <2>5
<1>6. Least \in 0 .. Len(q) /\ Fits(Least)
  <2>. HIDE DEF Fits
  <2>. QED
    BY <1>5, Zenon
<1>7. PICK m : m = Least
  OBVIOUS
<1>8. m \in 0 .. Len(q) /\ Len(q) - m <= MaxDatagrams /\ bytes - TotalSize(SubSeq(q, 1, m)) <= MaxBytes
  BY <1>6, <1>7, Zenon
<1>9. PICK p, r : p = SubSeq(q, 1, m) /\ r = SubSeq(q, m + 1, Len(q))
  OBVIOUS
<1>10. PICK listed : listed = {i \in 1 .. Len(o) : o[i] \notin KeysOf(p) \/ o[i] \in KeysOf(r)}
  OBVIOUS
<1>11. PICK t : t = Subsequence(o, listed)
  OBVIOUS
<1>12. /\ EvictDatagrams(b).datagrams = r /\ EvictDatagrams(b).object_order = t
       /\ EvictDatagrams(b).bytes = bytes - TotalSize(p)
  BY <1>1, <1>3, <1>7, <1>9, <1>10, <1>11 DEF EvictDatagrams
<1>13. /\ r \in Seq(Datagram) /\ Len(r) = Len(q) - m
       /\ \A i \in 1 .. Len(r) : r[i] = q[i + m] /\ i + m \in 1 .. Len(q)
       /\ p \in Seq(Datagram) /\ Len(p) = m /\ \A i \in 1 .. m : p[i] = q[i]
       /\ TotalSize(r) = TotalSize(q) - TotalSize(p) /\ TotalSize(p) \in Nat
  <2>1. Cut(q, m, p, r)
    BY <1>9 DEF Cut
  <2>. QED
    BY <1>2, <1>8, <2>1, SizeDrop
<1>14. t \in Seq(Keys) /\ Once(t) /\ Len(t) <= Len(o) /\ ToSet(t) = {o[i] : i \in listed}
  <2>1. listed \in SUBSET (1 .. Len(o))
    BY <1>10, Zenon
  <2>. QED
    BY <1>2, <1>11, <2>1, OrderKept
<1>15. DOMAIN r = 1 .. Len(r) /\ DOMAIN p = 1 .. m
  BY <1>13
<1>16. \A i \in 1 .. Len(q) : (i \in 1 .. m /\ q[i] = p[i]) \/ \E j \in 1 .. Len(r) : q[i] = r[j]
  <2>. SUFFICES ASSUME NEW i \in 1 .. Len(q), i \notin 1 .. m
                PROVE  \E j \in 1 .. Len(r) : q[i] = r[j]
    BY <1>13
  <2>1. PICK j : j = i - m
    OBVIOUS
  <2>2. j \in 1 .. Len(r) /\ j + m = i
    BY <1>3, <1>8, <1>13, <2>1
  <2>3. r[j] = q[i]
    BY <1>13, <2>2
  <2>. QED
    BY <2>2, <2>3
<1>17. Ids(r) \subseteq Ids(q) /\ KeysOf(r) \subseteq KeysOf(q)
  <2>1. \A j \in 1 .. Len(r) : \E i \in 1 .. Len(q) : r[j] = q[i]
    BY <1>13
  <2>2. Ids(r) \subseteq Ids(q)
    BY <1>3, <1>15, <2>1 DEF Ids
  <2>3. KeysOf(r) \subseteq KeysOf(q)
    BY <1>3, <1>15, <2>1 DEF KeysOf
  <2>. QED
    BY <2>2, <2>3
<1>18. KeysOf(q) \subseteq KeysOf(p) \cup KeysOf(r)
  <2>1. \A i \in 1 .. m : p[i].key \in KeysOf(p)
    BY <1>15 DEF KeysOf
  <2>2. \A j \in 1 .. Len(r) : r[j].key \in KeysOf(r)
    BY <1>15 DEF KeysOf
  <2>3. \A i \in 1 .. Len(q) : q[i].key \in KeysOf(p) \cup KeysOf(r)
    BY <1>16, <2>1, <2>2
  <2>. QED
    BY <1>3, <2>3 DEF KeysOf
<1>19. ToSet(t) = KeysOf(r)
  <2>1. ToSet(o) = {o[i] : i \in 1 .. Len(o)}
    BY <1>3 DEF ToSet
  <2>2. \A i \in listed : o[i] \in KeysOf(r)
    <3>1. \A i \in 1 .. Len(o) : o[i] \in KeysOf(q)
      BY <1>2, <2>1
    <3>. QED
      BY <1>10, <1>18, <3>1
  <2>3. \A k \in KeysOf(r) : \E i \in listed : o[i] = k
    <3>1. \A k \in KeysOf(r) : \E i \in 1 .. Len(o) : o[i] = k
      BY <1>2, <1>17, <2>1
    <3>. QED
      BY <1>10, <3>1
  <2>. QED
    BY <1>14, <2>2, <2>3, Zenon
<1>20. DistinctIds(r)
  <2>. SUFFICES ASSUME NEW i \in 1 .. Len(r), NEW j \in 1 .. Len(r), r[i].id = r[j].id
                PROVE  i = j
    BY DEF DistinctIds
  <2>1. i + m = j + m
    <3>1. PICK k, l : k = i + m /\ l = j + m
      OBVIOUS
    <3>2. k \in 1 .. Len(q) /\ l \in 1 .. Len(q) /\ q[k].id = q[l].id
      BY <1>13, <3>1
    <3>3. k = l
      BY <1>2, <3>2 DEF DistinctIds
    <3>. QED
      BY <3>1, <3>3
  <2>. QED
    BY <1>8, <1>13, <2>1
<1>21. Tally(r, t, bytes - TotalSize(p))
  BY <1>2, <1>13, <1>14, <1>19, <1>20 DEF Tally
<1>22. Len(r) <= Len(q) /\ Len(r) <= MaxDatagrams /\ bytes - TotalSize(p) <= bytes
       /\ bytes - TotalSize(p) <= MaxBytes
  <2>1. bytes - TotalSize(p) <= MaxBytes
    BY <1>8, <1>9
  <2>. QED
    BY <1>3, <1>8, <1>13, <2>1
<1>. QED
  BY <1>1, <1>12, <1>14, <1>17, <1>21, <1>22, Zenon DEF Tallied, Within

\* The limits of the buffer hold.
Bounded(b) ==
    /\ Len(b.object_order) <= MaxObjects
    /\ Len(b.datagrams) <= MaxDatagrams
    /\ b.bytes <= MaxBytes

\* push: accounts and limits, whatever had to go.
LEMMA Pushed ==
    ASSUME NEW b, Tallied(b), Bounded(b),
           NEW d, d \in Datagram, d.key \in Keys, d.id \notin Ids(b.datagrams)
    PROVE  /\ Tallied(Push(b, d)) /\ Bounded(Push(b, d))
           /\ Ids(Push(b, d).datagrams) \subseteq Ids(b.datagrams) \cup {d.id}
           /\ Len(Push(b, d).datagrams) <= Len(b.datagrams) + (IF Refused(d) THEN 0 ELSE 1)
<1>0. /\ MaxObjects \in Nat /\ MaxDatagrams \in Nat /\ MaxBytes \in Nat
  BY ReplayBounds
<1>. DEFINE Sized(c) == Len(c.datagrams) \in Nat /\ Len(c.object_order) \in Nat /\ c.bytes \in Nat
<1>1. ASSUME NEW c, Tallied(c) PROVE Sized(c)
  <2>1. PICK q, o, n : q = c.datagrams /\ o = c.object_order /\ n = c.bytes
    OBVIOUS
  <2>2. q \in Seq(Datagram) /\ o \in Seq(Keys) /\ n = TotalSize(q)
    BY <1>1, <2>1 DEF Tallied, Tally
  <2>3. Len(q) \in Nat /\ Len(o) \in Nat /\ n \in Nat
    BY <2>2, SizeType
  <2>. QED
    BY <2>1, <2>3
<1>2. PICK live : live = RemoveExpired(b)
  OBVIOUS
<1>3. Tallied(live) /\ Within(live, b)
  BY <1>2, ExpiredRemoved
<1>4. CASE Refused(d)
  <2>1. Push(b, d) = live
    BY <1>2, <1>4 DEF Push
  <2>2. Sized(b) /\ Sized(live)
    BY <1>1, <1>3
  <2>3. Bounded(live)
    <3>1. Len(live.object_order) <= MaxObjects
      <4>1. /\ Len(live.object_order) <= Len(b.object_order)
            /\ Len(b.object_order) <= MaxObjects
        BY <1>3, Zenon DEF Within, Bounded
      <4>. QED
        BY <1>0, <2>2, <4>1
    <3>2. Len(live.datagrams) <= MaxDatagrams
      <4>1. /\ Len(live.datagrams) <= Len(b.datagrams)
            /\ Len(b.datagrams) <= MaxDatagrams
        BY <1>3, Zenon DEF Within, Bounded
      <4>. QED
        BY <1>0, <2>2, <4>1
    <3>3. live.bytes <= MaxBytes
      <4>1. live.bytes <= b.bytes /\ b.bytes <= MaxBytes
        BY <1>3, Zenon DEF Within, Bounded
      <4>. QED
        BY <1>0, <2>2, <4>1
    <3>. QED
      BY <3>1, <3>2, <3>3, Zenon DEF Bounded
  <2>4. Ids(live.datagrams) \subseteq Ids(b.datagrams) \cup {d.id} /\ Len(live.datagrams) <= Len(b.datagrams) + 0
    BY <1>3, <2>2 DEF Within
  <2>. QED
    BY <1>3, <1>4, <2>1, <2>3, <2>4, Zenon
<1>5. CASE ~Refused(d)
  <2>1. PICK c1 : c1 = Insert(live, d)
    OBVIOUS
  <2>2. PICK c2 : c2 = RetireObjects(c1)
    OBVIOUS
  <2>3. PICK c3 : c3 = EvictDatagrams(c2)
    OBVIOUS
  <2>4. Push(b, d) = c3
    BY <1>2, <1>5, <2>1, <2>2, <2>3 DEF Push
  <2>5. d.id \notin Ids(live.datagrams)
    BY <1>3, Zenon DEF Within
  <2>6. /\ Tallied(c1) /\ Len(c1.datagrams) = Len(live.datagrams) + 1
        /\ Ids(c1.datagrams) \subseteq Ids(live.datagrams) \cup {d.id}
    BY <1>3, <2>1, <2>5, Inserted
  <2>7. Tallied(c2) /\ Within(c2, c1) /\ Len(c2.object_order) <= MaxObjects
    BY <2>2, <2>6, Retired
  <2>8. /\ Tallied(c3) /\ Within(c3, c2) /\ Len(c3.datagrams) <= MaxDatagrams /\ c3.bytes <= MaxBytes
    BY <2>3, <2>7, Evicted
  <2>9. Sized(b) /\ Sized(live) /\ Sized(c1) /\ Sized(c2) /\ Sized(c3)
    BY <1>1, <1>3, <2>6, <2>7, <2>8
  <2>10. Bounded(c3)
    BY <1>0, <2>7, <2>8, <2>9 DEF Bounded, Within
  <2>11. Len(c3.datagrams) <= Len(b.datagrams) + 1
    <3>1. /\ Len(c3.datagrams) <= Len(c2.datagrams)
          /\ Len(c2.datagrams) <= Len(c1.datagrams)
          /\ Len(live.datagrams) <= Len(b.datagrams)
      BY <1>3, <2>7, <2>8, Zenon DEF Within
    <3>2. PICK n0, n1, n2, n3, n4 \in Nat :
             /\ n0 = Len(b.datagrams) /\ n1 = Len(live.datagrams)
             /\ n2 = Len(c1.datagrams) /\ n3 = Len(c2.datagrams) /\ n4 = Len(c3.datagrams)
      BY <2>9, Zenon
    <3>3. n4 <= n3 /\ n3 <= n2 /\ n2 = n1 + 1 /\ n1 <= n0
      BY <2>6, <3>1, <3>2, Zenon
    <3>4. n4 <= n0 + 1
      BY <3>3
    <3>. QED
      BY <3>2, <3>4, Zenon
  <2>12. Ids(c3.datagrams) \subseteq Ids(b.datagrams) \cup {d.id}
    BY <1>3, <2>6, <2>7, <2>8 DEF Within
  <2>. QED
    BY <1>5, <2>4, <2>8, <2>10, <2>11, <2>12, Zenon
<1>. QED
  BY <1>4, <1>5

(***************************************************************************)
(* The inductive invariant.                                                *)
(***************************************************************************)
\* The types of everything but the datagrams.
Scalars ==
    /\ now \in 0 .. MaxTime /\ promoted \in BOOLEAN /\ gauge \in Nat
    /\ offered \in 0 .. MaxOffered
    /\ f_pc \in {"idle", "loaded", "pushed", "added"} /\ f_promoted \in BOOLEAN
    /\ f_mutation \in [added : 0 .. 1, removed : Nat]
    /\ l_pc \in {"idle", "promoted", "drained", "sending"} /\ l_removed \in Nat
    /\ fate \in [1 .. MaxOffered -> Seq({"sent", "filtered", "discarded"})]

\* Of the first n datagrams, those that are not on the way met their fate, once.
Fates(f, way, n) ==
    \A i \in 1 .. MaxOffered : Len(f[i]) = IF i \in way \/ i > n THEN 0 ELSE 1

\* Where datagrams are: in one place each, and those that are nowhere met their
\* fate.
Places ==
    /\ f_pc = "loaded" => f_datagram \in Datagram /\ f_datagram.id = offered
    /\ f_pc # "loaded" => f_datagram = Idle
    /\ l_batch \in Seq(Datagram) /\ DistinctIds(l_batch)
    /\ l_pc \in {"idle", "promoted"} => l_batch = <<>>
    /\ Ids(buffer.datagrams) \cup Ids(l_batch) \subseteq 1 .. offered
    /\ Ids(buffer.datagrams) \cap Ids(l_batch) = {}
    /\ f_datagram.id \notin Ids(buffer.datagrams) \cup Ids(l_batch)
    /\ Fates(fate, Ids(buffer.datagrams) \cup Ids(l_batch) \cup {f_datagram.id}, offered)

\* A drained buffer takes in the one datagram that was loaded before the
\* promotion, if any.
Stranded ==
    /\ l_pc # "idle" => promoted
    /\ promoted /\ l_pc # "promoted" =>
          /\ Len(buffer.datagrams) <= 1
          /\ f_pc = "loaded" /\ ~f_promoted => Len(buffer.datagrams) = 0

\* What the ingest task has yet to add to the gauge and to subtract from it.
ToAdd == IF f_pc = "pushed" THEN f_mutation.added ELSE 0
ToSubtract == IF f_pc \in {"pushed", "added"} THEN f_mutation.removed ELSE 0

\* The gauge covers what is retained and what both tasks have yet to subtract, so
\* that the ingest task's subtraction never saturates.
GaugeCovers ==
    /\ l_pc # "drained" => l_removed = 0
    /\ gauge + ToAdd >= Len(buffer.datagrams) + ToSubtract + l_removed

\* The inductive invariant behind ReplaySound.
ReplayInv ==
    Scalars /\ Tallied(buffer) /\ Bounded(buffer) /\ Places /\ Stranded /\ GaugeCovers

\* The parts of the invariant after a step, put together.
LEMMA PlacesAfter ==
    ASSUME f_pc' = "loaded" => f_datagram' \in Datagram /\ f_datagram'.id = offered',
           f_pc' # "loaded" => f_datagram' = Idle,
           l_batch' \in Seq(Datagram), DistinctIds(l_batch'),
           l_pc' \in {"idle", "promoted"} => l_batch' = <<>>,
           Ids(buffer'.datagrams) \cup Ids(l_batch') \subseteq 1 .. offered',
           Ids(buffer'.datagrams) \cap Ids(l_batch') = {},
           f_datagram'.id \notin Ids(buffer'.datagrams) \cup Ids(l_batch'),
           Fates(fate', Ids(buffer'.datagrams) \cup Ids(l_batch') \cup {f_datagram'.id}, offered')
    PROVE  Places'
<1>1. DistinctIds(l_batch)'
  BY DEF DistinctIds
<1>2. /\ Ids(buffer.datagrams)' = Ids(buffer'.datagrams) /\ Ids(l_batch)' = Ids(l_batch')
  BY DEF Ids
<1>3. Fates(fate, Ids(buffer.datagrams) \cup Ids(l_batch) \cup {f_datagram.id}, offered)'
  BY DEF Fates, Ids
<1>4. (f_pc = "loaded" => f_datagram \in Datagram /\ f_datagram.id = offered)'
  BY DEF Datagram
<1>5. (f_pc # "loaded" => f_datagram = Idle)'
  BY DEF Idle
<1>6. (l_batch \in Seq(Datagram))'
  BY DEF Datagram
<1>7. (Ids(buffer.datagrams) \cup Ids(l_batch) \subseteq 1 .. offered)'
  BY <1>2
<1>8. (Ids(buffer.datagrams) \cap Ids(l_batch) = {})'
  BY <1>2
<1>9. (f_datagram.id \notin Ids(buffer.datagrams) \cup Ids(l_batch))'
  BY <1>2
<1>. QED
  BY <1>1, <1>3, <1>4, <1>5, <1>6, <1>7, <1>8, <1>9, Zenon DEF Places

\* The invariant after a step, from its parts.
LEMMA ReplayInvAfter ==
    ASSUME Scalars', Tallied(buffer'), Bounded(buffer'), Places', Stranded', GaugeCovers'
    PROVE  ReplayInv'
<1>1. Tallied(buffer)'
  BY DEF Tallied, Tally, Datagram, DistinctIds, Once, ToSet, KeysOf, TotalSize
<1>2. Bounded(buffer)'
  BY DEF Bounded
<1>. QED
  BY <1>1, <1>2, Zenon DEF ReplayInv

\* An idle ingest task holds no datagram that was offered.
LEMMA IdleFacts == Idle.id = 0 /\ Idle.id \notin 1 .. MaxOffered
  BY ReplayInputs DEF Idle

\* The number of a datagram that is being forwarded, and of those elsewhere.
LEMMA PlacesFacts ==
    ASSUME ReplayInv
    PROVE  /\ buffer.datagrams \in Seq(Datagram) /\ Len(buffer.datagrams) \in Nat
           /\ f_pc = "loaded" => f_datagram.id \in 1 .. MaxOffered /\ f_datagram \in Datagram
           /\ f_pc # "loaded" => f_datagram.id = 0
           /\ offered \in Nat /\ offered <= MaxOffered /\ MaxOffered \in Nat
           /\ 0 \notin Ids(buffer.datagrams) /\ 0 \notin Ids(l_batch)
<1>1. buffer.datagrams \in Seq(Datagram)
  BY DEF ReplayInv, Tallied, Tally
<1>2. Len(buffer.datagrams) \in Nat
  BY <1>1
<1>3. offered \in 0 .. MaxOffered /\ MaxOffered \in Nat
  BY ReplayInputs DEF ReplayInv, Scalars
<1>4. f_pc = "loaded" => f_datagram.id \in 1 .. MaxOffered /\ f_datagram \in Datagram
  BY DatagramType DEF ReplayInv, Places
<1>5. f_pc # "loaded" => f_datagram.id = 0
  BY IdleFacts DEF ReplayInv, Places
<1>6. Ids(buffer.datagrams) \cup Ids(l_batch) \subseteq 1 .. offered
  BY DEF ReplayInv, Places
<1>7. 0 \notin 1 .. offered
  BY <1>3
<1>. QED
  BY <1>1, <1>2, <1>3, <1>4, <1>5, <1>6, <1>7

\* A datagram is taken up.
LEMMA LoadKeeps ==
    ASSUME ReplayInv, NEW key \in Keys \cup {NoKey}, NEW size \in Sizes, Load(key, size)
    PROVE  ReplayInv'
<1>1. /\ f_pc = "idle" /\ offered < MaxOffered /\ offered' = offered + 1
      /\ f_promoted' = promoted /\ f_pc' = "loaded"
      /\ f_datagram' = [id |-> offered + 1, key |-> key, size |-> size]
      /\ now' = now /\ promoted' = promoted /\ buffer' = buffer /\ gauge' = gauge
      /\ f_mutation' = f_mutation /\ l_pc' = l_pc /\ l_batch' = l_batch
      /\ l_removed' = l_removed /\ fate' = fate
  BY DEF Load
<1>2. PICK n : n = offered + 1
  OBVIOUS
<1>3. n \in 1 .. MaxOffered /\ n > offered /\ offered \in Nat
  BY <1>1, <1>2, PlacesFacts
<1>4. f_datagram' \in Datagram /\ f_datagram'.id = n
  <2>1. f_datagram' = [id |-> n, key |-> key, size |-> size]
    BY <1>1, <1>2
  <2>. QED
    BY <1>3, <2>1 DEF Datagram
<1>5. Scalars'
  BY <1>1, <1>2, <1>3 DEF ReplayInv, Scalars
<1>6. Places'
  <2>1. PICK A, B : A = Ids(buffer.datagrams) /\ B = Ids(l_batch)
    OBVIOUS
  <2>2. A \cup B \subseteq 1 .. offered /\ A \cap B = {} /\ Fates(fate, A \cup B \cup {0}, offered)
    BY <1>1, <2>1, PlacesFacts DEF ReplayInv, Places
  <2>3. A \cup B \subseteq 1 .. n /\ n \notin A \cup B
    BY <1>2, <1>3, <2>2
  <2>4. Fates(fate, A \cup B \cup {n}, n)
    <3>1. \A i \in 1 .. MaxOffered : (i \in A \cup B \cup {n} \/ i > n) <=> (i \in A \cup B \cup {0} \/ i > offered)
      BY <1>2, <1>3, PlacesFacts
    <3>. QED
      BY <2>2, <3>1 DEF Fates
  <2>5. /\ l_batch \in Seq(Datagram) /\ DistinctIds(l_batch)
        /\ l_pc \in {"idle", "promoted"} => l_batch = <<>>
    BY DEF ReplayInv, Places
  <2>. QED
    BY <1>1, <1>2, <1>4, <2>1, <2>2, <2>3, <2>4, <2>5, PlacesAfter
<1>7. Stranded'
  BY <1>1 DEF ReplayInv, Stranded
<1>8. GaugeCovers'
  BY <1>1 DEF ReplayInv, GaugeCovers, ToAdd, ToSubtract
<1>9. Tallied(buffer') /\ Bounded(buffer')
  BY <1>1 DEF ReplayInv
<1>. QED
  BY <1>5, <1>6, <1>7, <1>8, <1>9, ReplayInvAfter

\* A datagram is sent or filtered at once.
LEMMA ForwardKeeps ==
    ASSUME ReplayInv, SendSource \/ FilterSource
    PROVE  ReplayInv'
<1>1. PICK w \in {"sent", "filtered"} :
        /\ f_pc = "loaded" /\ fate' = [fate EXCEPT ![f_datagram.id] = Append(@, w)]
        /\ f_datagram' = Idle /\ f_pc' = "idle"
        /\ now' = now /\ promoted' = promoted /\ buffer' = buffer /\ gauge' = gauge
        /\ offered' = offered /\ f_promoted' = f_promoted
        /\ f_mutation' = f_mutation /\ l_pc' = l_pc /\ l_batch' = l_batch
        /\ l_removed' = l_removed
  BY DEF SendSource, FilterSource
<1>2. PICK n : n = f_datagram.id
  OBVIOUS
<1>3. n \in 1 .. MaxOffered /\ n = offered
  BY <1>1, <1>2, PlacesFacts DEF ReplayInv, Places
<1>4. PICK outcomes : outcomes = {"sent", "filtered", "discarded"}
  OBVIOUS
<1>5. fate \in [1 .. MaxOffered -> Seq(outcomes)] /\ w \in outcomes
  BY <1>4 DEF ReplayInv, Scalars
<1>6. /\ fate' \in [1 .. MaxOffered -> Seq(outcomes)]
      /\ \A i \in 1 .. MaxOffered : Len(fate'[i]) = IF i = n THEN Len(fate[i]) + 1 ELSE Len(fate[i])
  BY <1>1, <1>2, <1>3, <1>5
<1>7. Scalars'
  BY <1>1, <1>4, <1>6 DEF ReplayInv, Scalars
<1>8. Places'
  <2>1. PICK A, B : A = Ids(buffer.datagrams) /\ B = Ids(l_batch)
    OBVIOUS
  <2>2. /\ A \cup B \subseteq 1 .. offered /\ A \cap B = {} /\ Fates(fate, A \cup B \cup {n}, offered)
        /\ n \notin A \cup B
    BY <1>2, <2>1 DEF ReplayInv, Places
  <2>3. Fates(fate', A \cup B \cup {0}, offered)
    <3>1. ASSUME NEW i \in 1 .. MaxOffered
          PROVE  Len(fate'[i]) = IF i \in A \cup B \cup {0} \/ i > offered THEN 0 ELSE 1
      <4>1. Len(fate[i]) = IF i \in A \cup B \cup {n} \/ i > offered THEN 0 ELSE 1
        BY <2>2 DEF Fates
      <4>2. i # 0
        OBVIOUS
      <4>3. CASE i = n
        <5>1. Len(fate[i]) = 0
          BY <4>1, <4>3
        <5>2. Len(fate'[i]) = 1
          <6>1. Len(fate'[i]) = Len(fate[i]) + 1
            BY <1>6, <4>3, Zenon
          <6>. QED
            BY <5>1, <6>1
        <5>3. i \notin A \cup B \cup {0} /\ ~(i > offered)
          BY <1>3, <2>2, <4>2, <4>3
        <5>. QED
          BY <5>2, <5>3
      <4>4. CASE i # n
        BY <1>6, <4>1, <4>2, <4>4
      <4>. QED
        BY <4>3, <4>4
    <3>. QED
      BY <3>1 DEF Fates
  <2>4. /\ l_batch \in Seq(Datagram) /\ DistinctIds(l_batch)
        /\ l_pc \in {"idle", "promoted"} => l_batch = <<>>
    BY DEF ReplayInv, Places
  <2>5. 0 \notin A \cup B
    BY <2>1, PlacesFacts
  <2>6. f_datagram'.id = 0 /\ f_pc' # "loaded"
    BY <1>1, IdleFacts
  <2>. QED
    BY <1>1, <2>1, <2>2, <2>3, <2>4, <2>5, <2>6, PlacesAfter
<1>9. Stranded'
  BY <1>1 DEF ReplayInv, Stranded
<1>10. GaugeCovers'
  BY <1>1 DEF ReplayInv, GaugeCovers, ToAdd, ToSubtract
<1>11. Tallied(buffer') /\ Bounded(buffer')
  BY <1>1 DEF ReplayInv
<1>. QED
  BY <1>7, <1>8, <1>9, <1>10, <1>11, ReplayInvAfter

\* Histories after some datagrams were discarded.
Discards(f, g, gone) ==
    g = [i \in DOMAIN f |-> IF i \in gone THEN Append(f[i], "discarded") ELSE f[i]]

\* What was on the way and no longer is has been discarded.
LEMMA DiscardedOnce ==
    ASSUME NEW f \in [1 .. MaxOffered -> Seq({"sent", "filtered", "discarded"})],
           NEW n \in Nat, NEW way, Fates(f, way, n), NEW rest, rest \subseteq way \cup {0},
           way \ {0} \subseteq 1 .. n,
           NEW gone, \A i \in 1 .. MaxOffered : i \in gone <=> i \in way /\ i \notin rest,
           NEW g, Discards(f, g, gone)
    PROVE  /\ g \in [1 .. MaxOffered -> Seq({"sent", "filtered", "discarded"})]
           /\ Fates(g, rest, n)
<1>1. PICK outcomes : outcomes = {"sent", "filtered", "discarded"}
  OBVIOUS
<1>2. PICK w : w = "discarded" /\ w \in outcomes
  BY <1>1
<1>3. f \in [1 .. MaxOffered -> Seq(outcomes)] /\ DOMAIN f = 1 .. MaxOffered
  BY <1>1
<1>4. /\ g = [i \in 1 .. MaxOffered |-> IF i \in gone THEN Append(f[i], w) ELSE f[i]]
  BY <1>2, <1>3, Zenon DEF Discards
<1>5. ASSUME NEW i \in 1 .. MaxOffered
      PROVE  g[i] \in Seq(outcomes) /\ Len(g[i]) = IF i \in gone THEN Len(f[i]) + 1 ELSE Len(f[i])
  <2>1. f[i] \in Seq(outcomes) /\ w \in outcomes
    BY <1>2, <1>3
  <2>2. g[i] = IF i \in gone THEN Append(f[i], w) ELSE f[i]
    BY <1>4, Zenon
  <2>3. PICK x : x = f[i]
    OBVIOUS
  <2>4. x \in Seq(outcomes) /\ g[i] = IF i \in gone THEN Append(x, w) ELSE x
    BY <2>1, <2>2, <2>3
  <2>5. g[i] \in Seq(outcomes) /\ Len(g[i]) = IF i \in gone THEN Len(x) + 1 ELSE Len(x)
    BY <2>1, <2>4
  <2>. QED
    BY <2>3, <2>5
<1>6. g \in [1 .. MaxOffered -> Seq(outcomes)]
  <2>1. g = [i \in 1 .. MaxOffered |-> g[i]]
    BY <1>4, Zenon
  <2>. QED
    BY <1>5, <2>1, Zenon
<1>7. Fates(g, rest, n)
  <2>. SUFFICES ASSUME NEW i \in 1 .. MaxOffered
                PROVE  Len(g[i]) = IF i \in rest \/ i > n THEN 0 ELSE 1
    BY DEF Fates
  <2>1. Len(f[i]) = IF i \in way \/ i > n THEN 0 ELSE 1
    BY DEF Fates
  <2>2. CASE i \in gone
    <3>1. i \in way /\ i \notin rest /\ i # 0
      BY <2>2
    <3>2. i \in 1 .. n
      BY <3>1
    <3>. QED
      BY <1>5, <2>1, <2>2, <3>1, <3>2
  <2>3. CASE i \notin gone
    <3>1. i \in way <=> i \in rest
      BY <2>3
    <3>. QED
      BY <1>5, <2>1, <2>3, <3>1
  <2>. QED
    BY <2>2, <2>3
<1>. QED
  BY <1>1, <1>6, <1>7, Zenon

\* A datagram is retained, and what has to go is discarded.
LEMMA BufferKeeps ==
    ASSUME ReplayInv, BufferSource
    PROVE  ReplayInv'
<1>1. PICK d, q : d = f_datagram /\ q = buffer.datagrams
  OBVIOUS
<1>2. PICK p : p = Push(buffer, d).datagrams
  OBVIOUS
<1>3. PICK n : n = d.id
  OBVIOUS
<1>4. /\ f_pc = "loaded" /\ ~f_promoted /\ d.key # NoKey /\ buffer' = Push(buffer, d)
      /\ fate' = [i \in DOMAIN fate |->
                    IF i \in (Ids(q) \cup {n}) \ Ids(p) THEN Append(fate[i], "discarded") ELSE fate[i]]
      /\ f_mutation' = Mutation(buffer, d) /\ f_datagram' = Idle /\ f_pc' = "pushed"
      /\ now' = now /\ promoted' = promoted /\ gauge' = gauge /\ offered' = offered
      /\ f_promoted' = f_promoted /\ l_pc' = l_pc /\ l_batch' = l_batch /\ l_removed' = l_removed
  BY <1>1, <1>2, <1>3 DEF BufferSource
<1>5. /\ d \in Datagram /\ d.key \in Keys /\ n = offered /\ n \in 1 .. MaxOffered
      /\ q \in Seq(Datagram) /\ Len(q) \in Nat /\ offered \in Nat
  <2>1. d \in Datagram /\ n = offered
    BY <1>1, <1>3, <1>4 DEF ReplayInv, Places
  <2>. QED
    BY <1>1, <1>3, <1>4, <2>1, DatagramType, PlacesFacts
<1>6. PICK added : added = IF Refused(d) THEN 0 ELSE 1
  OBVIOUS
<1>7. /\ Tallied(buffer') /\ Bounded(buffer') /\ Ids(p) \subseteq Ids(q) \cup {n}
      /\ Len(p) <= Len(q) + added
  <2>1. d.id \notin Ids(buffer.datagrams)
    BY <1>1 DEF ReplayInv, Places
  <2>2. Tallied(buffer) /\ Bounded(buffer)
    BY DEF ReplayInv
  <2>3. /\ Tallied(Push(buffer, d)) /\ Bounded(Push(buffer, d))
        /\ Ids(Push(buffer, d).datagrams) \subseteq Ids(buffer.datagrams) \cup {d.id}
        /\ Len(Push(buffer, d).datagrams) <= Len(buffer.datagrams) + (IF Refused(d) THEN 0 ELSE 1)
    BY <1>5, <2>1, <2>2, Pushed
  <2>. QED
    BY <1>1, <1>2, <1>3, <1>4, <1>6, <2>3, Zenon
<1>8. added \in 0 .. 1 /\ Len(p) \in Nat /\ buffer'.datagrams = p
  <2>1. p \in Seq(Datagram)
    BY <1>2, <1>4, <1>7 DEF Tallied, Tally
  <2>. QED
    BY <1>2, <1>4, <1>6, <2>1
<1>9. PICK removed : removed = Len(q) + added - Len(p)
  OBVIOUS
<1>10. f_mutation' = [added |-> added, removed |-> removed]
  BY <1>1, <1>2, <1>4, <1>6, <1>9 DEF Mutation
<1>11. removed \in Nat
  BY <1>5, <1>7, <1>8, <1>9
<1>12. PICK A, B, C : A = Ids(q) /\ B = Ids(l_batch) /\ C = Ids(p)
  OBVIOUS
<1>13. /\ A \cup B \subseteq 1 .. offered /\ A \cap B = {} /\ Fates(fate, A \cup B \cup {n}, offered)
       /\ n \notin A \cup B /\ 0 \notin A \cup B
  <2>1. 0 \notin A \cup B
    BY <1>1, <1>12, PlacesFacts
  <2>. QED
    BY <1>1, <1>3, <1>12, <2>1 DEF ReplayInv, Places
<1>14. C \subseteq A \cup {n}
  BY <1>7, <1>12, Zenon
<1>15. /\ fate' \in [1 .. MaxOffered -> Seq({"sent", "filtered", "discarded"})]
       /\ Fates(fate', C \cup B \cup {0}, offered)
  <2>1. fate \in [1 .. MaxOffered -> Seq({"sent", "filtered", "discarded"})]
    BY DEF ReplayInv, Scalars
  <2>2. PICK gone : gone = (A \cup {n}) \ C
    OBVIOUS
  <2>3. Discards(fate, fate', gone)
    BY <1>4, <1>12, <2>2 DEF Discards
  <2>4. \A i \in 1 .. MaxOffered : i \in gone <=> i \in A \cup B \cup {n} /\ i \notin C \cup B \cup {0}
    <3>1. \A i \in 1 .. MaxOffered : i # 0
      OBVIOUS
    <3>. QED
      BY <1>13, <2>2, <3>1
  <2>5. C \cup B \cup {0} \subseteq (A \cup B \cup {n}) \cup {0}
    BY <1>14, Zenon
  <2>6. (A \cup B \cup {n}) \ {0} \subseteq 1 .. offered
    BY <1>5, <1>13
  <2>7. PICK way, rest : way = A \cup B \cup {n} /\ rest = C \cup B \cup {0}
    OBVIOUS
  <2>8. /\ Fates(fate, way, offered) /\ rest \subseteq way \cup {0} /\ way \ {0} \subseteq 1 .. offered
        /\ \A i \in 1 .. MaxOffered : i \in gone <=> i \in way /\ i \notin rest
    BY <1>13, <2>4, <2>5, <2>6, <2>7, Zenon
  <2>9. /\ fate' \in [1 .. MaxOffered -> Seq({"sent", "filtered", "discarded"})]
        /\ Fates(fate', rest, offered)
    BY <1>5, <2>1, <2>3, <2>8, DiscardedOnce
  <2>. QED
    BY <2>7, <2>9, Zenon
<1>16. Scalars'
  <2>1. f_mutation' \in [added : 0 .. 1, removed : Nat]
    BY <1>8, <1>10, <1>11
  <2>. QED
    BY <1>4, <1>15, <2>1 DEF ReplayInv, Scalars
<1>17. Places'
  <2>1. C \cup B \subseteq 1 .. offered /\ C \cap B = {} /\ 0 \notin C \cup B
    BY <1>5, <1>13, <1>14
  <2>2. /\ l_batch \in Seq(Datagram) /\ DistinctIds(l_batch)
        /\ l_pc \in {"idle", "promoted"} => l_batch = <<>>
    BY DEF ReplayInv, Places
  <2>3. f_datagram'.id = 0 /\ f_pc' # "loaded"
    BY <1>4, IdleFacts
  <2>4. Ids(buffer'.datagrams) = C /\ Ids(l_batch') = B
    BY <1>4, <1>8, <1>12
  <2>. QED
    BY <1>4, <1>15, <2>1, <2>2, <2>3, <2>4, PlacesAfter
<1>18. Stranded'
  <2>1. promoted /\ l_pc # "promoted" => Len(p) <= 1
    <3>1. promoted /\ l_pc # "promoted" => Len(q) = 0
      BY <1>1, <1>4 DEF ReplayInv, Stranded
    <3>. QED
      BY <1>5, <1>7, <1>8, <3>1
  <2>2. l_pc # "idle" => promoted
    BY DEF ReplayInv, Stranded
  <2>. QED
    BY <1>4, <1>8, <2>1, <2>2 DEF Stranded
<1>19. GaugeCovers'
  <2>1. /\ gauge >= Len(q) + l_removed /\ (l_pc # "drained" => l_removed = 0)
        /\ gauge \in Nat /\ l_removed \in Nat
    <3>1. ToAdd = 0 /\ ToSubtract = 0
      BY <1>4 DEF ToAdd, ToSubtract
    <3>. QED
      BY <1>1, <1>5, <3>1 DEF ReplayInv, GaugeCovers, Scalars
  <2>2. ToAdd' = added /\ ToSubtract' = removed
    BY <1>4, <1>10 DEF ToAdd, ToSubtract
  <2>3. gauge + added >= Len(p) + removed + l_removed
    BY <1>5, <1>8, <1>9, <2>1
  <2>. QED
    BY <1>4, <1>8, <2>1, <2>2, <2>3 DEF GaugeCovers
<1>. QED
  BY <1>7, <1>16, <1>17, <1>18, <1>19, ReplayInvAfter

\* The accounts of an empty buffer.
LEMMA EmptyIsTallied ==
    Tallied(EmptyBuffer) /\ Bounded(EmptyBuffer) /\ EmptyBuffer.datagrams = <<>> /\ Ids(<<>>) = {}
<1>0. <<>> \in Seq(Datagram) /\ <<>> \in Seq(Keys) /\ Len(<<>>) = 0 /\ DOMAIN <<>> = {}
  OBVIOUS
<1>1. PICK e : e = <<>> /\ e \in Seq(Datagram) /\ e \in Seq(Keys) /\ Len(e) = 0 /\ DOMAIN e = {}
  BY <1>0, Zenon
<1>2. TotalSize(e) = 0
  <2>1. TotalSize(e) = SumFunctionOnSet(SizesOf(e), 1 .. Len(e))
    BY <1>1, SizeType
  <2>2. 1 .. Len(e) = {} /\ IsFiniteSet({})
    BY <1>1, FS_EmptySet
  <2>. QED
    BY <2>1, <2>2, SumUnfolds
<1>3. ToSet(e) = {} /\ KeysOf(e) = {} /\ Ids(e) = {}
  BY <1>1 DEF ToSet, KeysOf, Ids
<1>4. DistinctIds(e) /\ Once(e)
  BY <1>1 DEF DistinctIds, Once
<1>5. EmptyBuffer.datagrams = e /\ EmptyBuffer.object_order = e /\ EmptyBuffer.bytes = 0
  BY <1>1 DEF EmptyBuffer
<1>6. Tally(e, e, 0)
  BY <1>1, <1>2, <1>3, <1>4 DEF Tally
<1>7. MaxObjects \in Nat /\ MaxDatagrams \in Nat /\ MaxBytes \in Nat
  BY ReplayBounds
<1>8. Bounded(EmptyBuffer)
  BY <1>1, <1>5, <1>7 DEF Bounded
<1>. QED
  BY <1>1, <1>3, <1>5, <1>6, <1>8, Zenon DEF Tallied

\* The late datagrams and the others.
LEMMA LiveAndLate ==
    ASSUME NEW q \in Seq(Datagram), DistinctIds(q),
           NEW live, live = Subsequence(q, Live(q)), NEW late, late = Subsequence(q, Late(q))
    PROVE  /\ live \in Seq(Datagram) /\ DistinctIds(live)
           /\ Ids(live) \subseteq Ids(q)
           /\ \A i : i \in Ids(late) <=> i \in Ids(q) /\ i \notin Ids(live)
<1>1. DOMAIN q = 1 .. Len(q)
  OBVIOUS
<1>2. PICK K, L : K = Live(q) /\ L = Late(q)
  OBVIOUS
<1>3. K \in SUBSET (1 .. Len(q)) /\ L \in SUBSET (1 .. Len(q)) /\ K = (1 .. Len(q)) \ L
  BY <1>1, <1>2 DEF Live, Late
<1>4. /\ live \in Seq(Datagram) /\ DistinctIds(live)
      /\ Ids(live) = {q[i].id : i \in K}
  BY <1>2, <1>3, KeptFacts
<1>5. Ids(late) = {q[i].id : i \in L}
  BY <1>2, <1>3, KeptFacts
<1>6. Ids(q) = {q[i].id : i \in 1 .. Len(q)}
  BY <1>1 DEF Ids
<1>7. Ids(live) \subseteq Ids(q)
  BY <1>3, <1>4, <1>6, Zenon
<1>8. \A i \in L : q[i].id \in Ids(q) /\ q[i].id \notin Ids(live)
  <2>. SUFFICES ASSUME NEW i \in L, NEW k \in K, q[i].id = q[k].id
                PROVE  FALSE
    BY <1>3, <1>4, <1>6, Zenon
  <2>1. i = k
    BY <1>3 DEF DistinctIds
  <2>. QED
    BY <1>3, <2>1
<1>9. \A i \in 1 .. Len(q) : q[i].id \notin Ids(live) => i \in L
  BY <1>3, <1>4, Zenon
<1>. QED
  BY <1>4, <1>5, <1>6, <1>7, <1>8, <1>9, Zenon

\* take_live drains the buffer.
LEMMA TakeKeeps ==
    ASSUME ReplayInv, TakeLive
    PROVE  ReplayInv'
<1>1. PICK q, n : q = buffer.datagrams /\ n = f_datagram.id
  OBVIOUS
<1>2. PICK live, late : live = Subsequence(q, Live(q)) /\ late = Subsequence(q, Late(q))
  OBVIOUS
<1>3. /\ l_pc = "promoted" /\ l_batch' = live /\ l_removed' = Len(q)
      /\ fate' = [i \in DOMAIN fate |->
                    IF i \in Ids(late) THEN Append(fate[i], "discarded") ELSE fate[i]]
      /\ buffer' = EmptyBuffer /\ l_pc' = "drained"
      /\ now' = now /\ promoted' = promoted /\ gauge' = gauge /\ offered' = offered
      /\ f_pc' = f_pc /\ f_datagram' = f_datagram /\ f_promoted' = f_promoted
      /\ f_mutation' = f_mutation
  BY <1>1, <1>2 DEF TakeLive
<1>4. q \in Seq(Datagram) /\ DistinctIds(q) /\ Len(q) \in Nat /\ offered \in Nat
  BY <1>1, PlacesFacts DEF ReplayInv, Tallied, Tally
<1>5. PICK A, B, D : A = Ids(q) /\ B = Ids(live) /\ D = Ids(late)
  OBVIOUS
<1>6. /\ live \in Seq(Datagram) /\ DistinctIds(live) /\ B \subseteq A
      /\ \A i : i \in D <=> i \in A /\ i \notin B
  BY <1>2, <1>4, <1>5, LiveAndLate
<1>7. /\ A \subseteq 1 .. offered /\ Fates(fate, A \cup {n}, offered) /\ n \notin A
      /\ n \in 0 .. offered
  <2>1. l_batch = <<>>
    BY <1>3 DEF ReplayInv, Places
  <2>2. Ids(l_batch) = {}
    BY <2>1, EmptyIsTallied
  <2>3. n \in 0 .. offered
    BY <1>1, <1>4, PlacesFacts DEF ReplayInv, Places
  <2>4. A \cup {} \cup {n} = A \cup {n}
    BY Zenon
  <2>5. /\ A \cup {} \subseteq 1 .. offered /\ Fates(fate, A \cup {} \cup {n}, offered) /\ n \notin A \cup {}
    BY <1>1, <1>5, <2>2 DEF ReplayInv, Places
  <2>. QED
    BY <2>3, <2>4, <2>5
<1>8. /\ fate' \in [1 .. MaxOffered -> Seq({"sent", "filtered", "discarded"})]
      /\ Fates(fate', B \cup {n}, offered)
  <2>1. fate \in [1 .. MaxOffered -> Seq({"sent", "filtered", "discarded"})]
    BY DEF ReplayInv, Scalars
  <2>2. Discards(fate, fate', D)
    BY <1>3, <1>5 DEF Discards
  <2>3. PICK way, rest : way = A \cup {n} /\ rest = B \cup {n}
    OBVIOUS
  <2>4. /\ Fates(fate, way, offered) /\ rest \subseteq way \cup {0}
        /\ \A i \in 1 .. MaxOffered : i \in D <=> i \in way /\ i \notin rest
    BY <1>6, <1>7, <2>3
  <2>5. way \ {0} \subseteq 1 .. offered
    BY <1>4, <1>7, <2>3
  <2>6. /\ fate' \in [1 .. MaxOffered -> Seq({"sent", "filtered", "discarded"})]
        /\ Fates(fate', rest, offered)
    BY <1>4, <2>1, <2>2, <2>4, <2>5, DiscardedOnce
  <2>. QED
    BY <2>3, <2>6, Zenon
<1>9. Scalars'
  BY <1>3, <1>4, <1>8 DEF ReplayInv, Scalars
<1>10. Places'
  <2>1. Ids(buffer'.datagrams) = {} /\ Ids(l_batch') = B /\ f_datagram'.id = n
    BY <1>1, <1>3, <1>5, EmptyIsTallied
  <2>2. {} \cup B \subseteq 1 .. offered /\ {} \cap B = {} /\ n \notin {} \cup B
    BY <1>6, <1>7
  <2>3. {} \cup B \cup {n} = B \cup {n}
    BY Zenon
  <2>4. /\ f_pc = "loaded" => f_datagram \in Datagram /\ f_datagram.id = offered
        /\ f_pc # "loaded" => f_datagram = Idle
    BY DEF ReplayInv, Places
  <2>. QED
    BY <1>3, <1>6, <1>8, <2>1, <2>2, <2>3, <2>4, PlacesAfter
<1>11. buffer'.datagrams = <<>> /\ Len(<<>>) = 0
  BY <1>3, EmptyIsTallied
<1>12. Stranded'
  <2>1. promoted
    BY <1>3 DEF ReplayInv, Stranded
  <2>. QED
    BY <1>3, <1>11, <2>1 DEF Stranded
<1>13. GaugeCovers'
  <2>1. gauge + ToAdd >= Len(q) + ToSubtract + l_removed /\ l_removed = 0
    BY <1>1, <1>3 DEF ReplayInv, GaugeCovers
  <2>2. gauge \in Nat /\ ToAdd \in Nat /\ ToSubtract \in Nat
    BY DEF ReplayInv, Scalars, ToAdd, ToSubtract
  <2>3. gauge + ToAdd >= 0 + ToSubtract + Len(q)
    BY <1>4, <2>1, <2>2
  <2>4. ToAdd' = ToAdd /\ ToSubtract' = ToSubtract
    BY <1>3 DEF ToAdd, ToSubtract
  <2>. QED
    BY <1>3, <1>11, <2>3, <2>4 DEF GaugeCovers
<1>14. Tallied(buffer') /\ Bounded(buffer')
  BY <1>3, EmptyIsTallied
<1>. QED
  BY <1>9, <1>10, <1>12, <1>13, <1>14, ReplayInvAfter

\* A datagram of the batch is sent.
LEMMA ReplaySendKeeps ==
    ASSUME ReplayInv, ReplaySend
    PROVE  ReplayInv'
<1>1. PICK l, n, d : l = l_batch /\ n = f_datagram.id /\ d = Head(l).id
  OBVIOUS
<1>2. /\ l_pc = "sending" /\ l # <<>> /\ l_batch' = Tail(l)
      /\ fate' = [fate EXCEPT ![d] = Append(@, "sent")]
      /\ now' = now /\ promoted' = promoted /\ buffer' = buffer /\ gauge' = gauge
      /\ offered' = offered /\ f_pc' = f_pc /\ f_datagram' = f_datagram
      /\ f_promoted' = f_promoted /\ f_mutation' = f_mutation /\ l_pc' = l_pc
      /\ l_removed' = l_removed
  BY <1>1 DEF ReplaySend
<1>3. l \in Seq(Datagram) /\ DistinctIds(l)
  BY <1>1 DEF ReplayInv, Places
<1>4. PICK t : t = Tail(l)
  OBVIOUS
<1>5. /\ t \in Seq(Datagram) /\ Len(t) = Len(l) - 1 /\ Len(l) \in Nat /\ Len(l) >= 1
      /\ Head(l) = l[1] /\ DOMAIN l = 1 .. Len(l) /\ DOMAIN t = 1 .. (Len(l) - 1)
      /\ \A i \in 1 .. (Len(l) - 1) : t[i] = l[i + 1] /\ i + 1 \in 1 .. Len(l)
  BY <1>2, <1>3, <1>4
<1>6. DistinctIds(t)
  <2>. SUFFICES ASSUME NEW i \in 1 .. Len(t), NEW j \in 1 .. Len(t), t[i].id = t[j].id
                PROVE  i = j
    BY DEF DistinctIds
  <2>1. PICK a, b : a = i + 1 /\ b = j + 1
    OBVIOUS
  <2>2. a \in 1 .. Len(l) /\ b \in 1 .. Len(l) /\ l[a].id = l[b].id
    BY <1>5, <2>1
  <2>3. a = b
    BY <1>3, <2>2 DEF DistinctIds
  <2>. QED
    BY <2>1, <2>3
<1>7. PICK A, B, C : A = Ids(buffer.datagrams) /\ B = Ids(l) /\ C = Ids(t)
  OBVIOUS
<1>8. /\ A \cup B \subseteq 1 .. offered /\ A \cap B = {} /\ Fates(fate, A \cup B \cup {n}, offered)
      /\ n \notin A \cup B
  BY <1>1, <1>7 DEF ReplayInv, Places
<1>9. B = C \cup {d} /\ d \notin C
  <2>1. \A i \in 1 .. Len(l) : i # 1 => \E j \in 1 .. (Len(l) - 1) : l[i] = t[j]
    <3>. SUFFICES ASSUME NEW i \in 1 .. Len(l), i # 1
                  PROVE  \E j \in 1 .. (Len(l) - 1) : l[i] = t[j]
      OBVIOUS
    <3>1. PICK j : j = i - 1
      OBVIOUS
    <3>2. j \in 1 .. (Len(l) - 1) /\ j + 1 = i
      BY <1>5, <3>1
    <3>. QED
      BY <1>5, <3>2
  <2>2. \A j \in 1 .. (Len(l) - 1) : \E i \in 1 .. Len(l) : i # 1 /\ t[j] = l[i]
    <3>. SUFFICES ASSUME NEW j \in 1 .. (Len(l) - 1)
                  PROVE  \E i \in 1 .. Len(l) : i # 1 /\ t[j] = l[i]
      OBVIOUS
    <3>1. PICK i : i = j + 1
      OBVIOUS
    <3>2. i \in 1 .. Len(l) /\ i # 1 /\ t[j] = l[i]
      BY <1>5, <3>1
    <3>. QED
      BY <3>2
  <2>3. d = l[1].id /\ 1 \in 1 .. Len(l)
    BY <1>1, <1>5
  <2>4. B = {l[i].id : i \in 1 .. Len(l)} /\ C = {t[i].id : i \in 1 .. (Len(l) - 1)}
    BY <1>5, <1>7 DEF Ids
  <2>5. \A x \in B : x = d \/ x \in C
    <3>. SUFFICES ASSUME NEW i \in 1 .. Len(l) PROVE l[i].id = d \/ l[i].id \in C
      BY <2>4
    <3>1. CASE i = 1
      BY <2>3, <3>1
    <3>2. CASE i # 1
      <4>1. PICK j \in 1 .. (Len(l) - 1) : l[i] = t[j]
        BY <2>1, <3>2
      <4>. QED
        BY <2>4, <4>1
    <3>. QED
      BY <3>1, <3>2
  <2>6. \A x \in C : x \in B /\ x # d
    <3>. SUFFICES ASSUME NEW j \in 1 .. (Len(l) - 1) PROVE t[j].id \in B /\ t[j].id # d
      BY <2>4
    <3>1. PICK i \in 1 .. Len(l) : i # 1 /\ t[j] = l[i]
      BY <2>2
    <3>2. l[i].id # l[1].id
      BY <1>3, <2>3, <3>1 DEF DistinctIds
    <3>. QED
      BY <2>3, <2>4, <3>1, <3>2
  <2>7. d \in B
    BY <2>3, <2>4
  <2>. QED
    BY <2>5, <2>6, <2>7, Zenon
<1>10. d \in 1 .. MaxOffered /\ d \in 1 .. offered /\ offered \in Nat
  BY <1>8, <1>9, PlacesFacts
<1>11. PICK outcomes : outcomes = {"sent", "filtered", "discarded"}
  OBVIOUS
<1>12. PICK w : w = "sent" /\ w \in outcomes
  BY <1>11
<1>13. fate \in [1 .. MaxOffered -> Seq(outcomes)] /\ fate' = [fate EXCEPT ![d] = Append(@, w)]
  BY <1>2, <1>11, <1>12 DEF ReplayInv, Scalars
<1>14. /\ fate' \in [1 .. MaxOffered -> Seq(outcomes)]
       /\ \A i \in 1 .. MaxOffered : Len(fate'[i]) = IF i = d THEN Len(fate[i]) + 1 ELSE Len(fate[i])
  BY <1>10, <1>12, <1>13
<1>15. Scalars'
  BY <1>2, <1>11, <1>14 DEF ReplayInv, Scalars
<1>16. Fates(fate', A \cup C \cup {n}, offered)
  <2>. SUFFICES ASSUME NEW i \in 1 .. MaxOffered
                PROVE  Len(fate'[i]) = IF i \in A \cup C \cup {n} \/ i > offered THEN 0 ELSE 1
    BY DEF Fates
  <2>1. Len(fate[i]) = IF i \in A \cup B \cup {n} \/ i > offered THEN 0 ELSE 1
    BY <1>8 DEF Fates
  <2>2. CASE i = d
    <3>1. Len(fate'[i]) = Len(fate[i]) + 1
      BY <1>14, <2>2, Zenon
    <3>2. Len(fate[i]) = 0
      BY <1>9, <2>1, <2>2
    <3>3. i \notin A \cup C \cup {n} /\ ~(i > offered)
      BY <1>8, <1>9, <1>10, <2>2
    <3>. QED
      BY <3>1, <3>2, <3>3
  <2>3. CASE i # d
    <3>1. Len(fate'[i]) = Len(fate[i])
      BY <1>14, <2>3, Zenon
    <3>2. i \in A \cup B \cup {n} <=> i \in A \cup C \cup {n}
      BY <1>9, <2>3
    <3>. QED
      BY <2>1, <3>1, <3>2
  <2>. QED
    BY <2>2, <2>3
<1>17. Places'
  <2>1. /\ f_pc = "loaded" => f_datagram \in Datagram /\ f_datagram.id = offered
        /\ f_pc # "loaded" => f_datagram = Idle
    BY DEF ReplayInv, Places
  <2>2. Ids(buffer'.datagrams) = A /\ Ids(l_batch') = C /\ f_datagram'.id = n
    BY <1>1, <1>2, <1>4, <1>7
  <2>3. A \cup C \subseteq 1 .. offered /\ A \cap C = {} /\ n \notin A \cup C
    BY <1>8, <1>9
  <2>4. l_batch' \in Seq(Datagram) /\ DistinctIds(l_batch') /\ l_pc' \notin {"idle", "promoted"}
    BY <1>2, <1>4, <1>5, <1>6
  <2>. QED
    BY <1>2, <1>16, <2>1, <2>2, <2>3, <2>4, PlacesAfter
<1>18. Stranded' /\ GaugeCovers'
  BY <1>2 DEF ReplayInv, Stranded, GaugeCovers, ToAdd, ToSubtract
<1>19. Tallied(buffer') /\ Bounded(buffer')
  BY <1>2 DEF ReplayInv
<1>. QED
  BY <1>15, <1>17, <1>18, <1>19, ReplayInvAfter

\* A step that leaves the datagrams where they are.
LEMMA PlacesStay ==
    ASSUME ReplayInv, buffer' = buffer, l_batch' = l_batch, f_datagram' = f_datagram,
           offered' = offered, fate' = fate, f_pc' = "loaded" <=> f_pc = "loaded",
           l_pc' \in {"idle", "promoted"} => l_pc \in {"idle", "promoted"} \/ l_batch = <<>>
    PROVE  Places' /\ Tallied(buffer') /\ Bounded(buffer')
<1>1. /\ f_pc = "loaded" => f_datagram \in Datagram /\ f_datagram.id = offered
      /\ f_pc # "loaded" => f_datagram = Idle
      /\ l_batch \in Seq(Datagram) /\ DistinctIds(l_batch)
      /\ l_pc \in {"idle", "promoted"} => l_batch = <<>>
      /\ Ids(buffer.datagrams) \cup Ids(l_batch) \subseteq 1 .. offered
      /\ Ids(buffer.datagrams) \cap Ids(l_batch) = {}
      /\ f_datagram.id \notin Ids(buffer.datagrams) \cup Ids(l_batch)
      /\ Fates(fate, Ids(buffer.datagrams) \cup Ids(l_batch) \cup {f_datagram.id}, offered)
  BY DEF ReplayInv, Places
<1>2. Places'
  BY <1>1, PlacesAfter
<1>3. Tallied(buffer') /\ Bounded(buffer')
  BY DEF ReplayInv
<1>. QED
  BY <1>2, <1>3

\* What the invariant says of the gauge, as numbers.
LEMMA GaugeFacts ==
    ASSUME ReplayInv
    PROVE  /\ gauge \in Nat /\ l_removed \in Nat /\ Len(buffer.datagrams) \in Nat
           /\ f_mutation.added \in Nat /\ f_mutation.removed \in Nat
           /\ l_pc # "drained" => l_removed = 0
           /\ f_pc = "pushed" => gauge + f_mutation.added
                                   >= Len(buffer.datagrams) + f_mutation.removed + l_removed
           /\ f_pc = "added" => gauge >= Len(buffer.datagrams) + f_mutation.removed + l_removed
           /\ f_pc \notin {"pushed", "added"} => gauge >= Len(buffer.datagrams) + l_removed
<1>1. gauge \in Nat /\ l_removed \in Nat /\ f_mutation.added \in Nat /\ f_mutation.removed \in Nat
  BY DEF ReplayInv, Scalars
<1>2. Len(buffer.datagrams) \in Nat
  BY PlacesFacts
<1>3. /\ l_pc # "drained" => l_removed = 0
      /\ gauge + ToAdd >= Len(buffer.datagrams) + ToSubtract + l_removed
  BY DEF ReplayInv, GaugeCovers
<1>4. CASE f_pc = "pushed"
  BY <1>1, <1>2, <1>3, <1>4 DEF ToAdd, ToSubtract
<1>5. CASE f_pc = "added"
  BY <1>1, <1>2, <1>3, <1>5 DEF ToAdd, ToSubtract
<1>6. CASE f_pc \notin {"pushed", "added"}
  BY <1>1, <1>2, <1>3, <1>6 DEF ToAdd, ToSubtract
<1>. QED
  BY <1>1, <1>2, <1>3, <1>4, <1>5, <1>6

\* The ingest task corrects the gauge.
LEMMA GaugeAddKeeps == ASSUME ReplayInv, GaugeAdd PROVE ReplayInv'
<1>1. /\ f_pc = "pushed" /\ f_pc' = "added" /\ gauge' = gauge + f_mutation.added
      /\ now' = now /\ promoted' = promoted /\ buffer' = buffer /\ offered' = offered
      /\ f_datagram' = f_datagram /\ f_promoted' = f_promoted /\ f_mutation' = f_mutation
      /\ l_pc' = l_pc /\ l_batch' = l_batch /\ l_removed' = l_removed /\ fate' = fate
  BY DEF GaugeAdd
<1>2. Scalars'
  <2>1. gauge' \in Nat
    BY <1>1, GaugeFacts
  <2>. QED
    BY <1>1, <2>1 DEF ReplayInv, Scalars
<1>3. Places' /\ Tallied(buffer') /\ Bounded(buffer')
  BY <1>1, PlacesStay
<1>4. Stranded'
  BY <1>1 DEF ReplayInv, Stranded
<1>5. GaugeCovers'
  <2>1. ToAdd' = 0 /\ ToSubtract' = f_mutation.removed
    BY <1>1 DEF ToAdd, ToSubtract
  <2>2. gauge' + 0 >= Len(buffer.datagrams) + f_mutation.removed + l_removed
    BY <1>1, GaugeFacts
  <2>. QED
    BY <1>1, <2>1, <2>2, GaugeFacts DEF GaugeCovers
<1>. QED
  BY <1>2, <1>3, <1>4, <1>5, ReplayInvAfter

\* The ingest task's subtraction does not saturate.
LEMMA GaugeSubKeeps == ASSUME ReplayInv, GaugeSub PROVE ReplayInv'
<1>1. /\ f_pc = "added" /\ f_pc' = "idle" /\ gauge' = SaturatingSub(gauge, f_mutation.removed)
      /\ now' = now /\ promoted' = promoted /\ buffer' = buffer /\ offered' = offered
      /\ f_datagram' = f_datagram /\ f_promoted' = f_promoted /\ f_mutation' = NoMutation
      /\ l_pc' = l_pc /\ l_batch' = l_batch /\ l_removed' = l_removed /\ fate' = fate
  BY DEF GaugeSub
<1>2. gauge' \in Nat /\ gauge' >= Len(buffer.datagrams) + l_removed
  <2>1. PICK a, b : a = gauge /\ b = f_mutation.removed
    OBVIOUS
  <2>2. a \in Nat /\ b \in Nat /\ a >= Len(buffer.datagrams) + b + l_removed
    BY <1>1, <2>1, GaugeFacts
  <2>3. a >= b /\ a - b \in Nat /\ a - b >= Len(buffer.datagrams) + l_removed
    BY <2>2, GaugeFacts
  <2>4. gauge' = a - b
    BY <1>1, <2>1, <2>3 DEF SaturatingSub
  <2>. QED
    BY <2>3, <2>4
<1>3. Scalars'
  <2>1. f_mutation' \in [added : 0 .. 1, removed : Nat]
    BY <1>1 DEF NoMutation
  <2>. QED
    BY <1>1, <1>2, <2>1 DEF ReplayInv, Scalars
<1>4. Places' /\ Tallied(buffer') /\ Bounded(buffer')
  BY <1>1, PlacesStay
<1>5. Stranded'
  BY <1>1 DEF ReplayInv, Stranded
<1>6. GaugeCovers'
  <2>1. ToAdd' = 0 /\ ToSubtract' = 0
    BY <1>1 DEF ToAdd, ToSubtract
  <2>2. gauge' + 0 >= Len(buffer.datagrams) + 0 + l_removed
    BY <1>2, GaugeFacts
  <2>. QED
    BY <1>1, <2>1, <2>2, GaugeFacts DEF GaugeCovers
<1>. QED
  BY <1>3, <1>4, <1>5, <1>6, ReplayInvAfter

\* The listener subtracts what it drained; a subtraction that saturates leaves
\* the gauge above.
LEMMA GaugeDrainedKeeps == ASSUME ReplayInv, GaugeDrained PROVE ReplayInv'
<1>1. /\ l_pc = "drained" /\ l_pc' = "sending" /\ gauge' = SaturatingSub(gauge, l_removed)
      /\ now' = now /\ promoted' = promoted /\ buffer' = buffer /\ offered' = offered
      /\ f_pc' = f_pc /\ f_datagram' = f_datagram /\ f_promoted' = f_promoted
      /\ f_mutation' = f_mutation /\ l_batch' = l_batch /\ l_removed' = 0 /\ fate' = fate
  BY DEF GaugeDrained
<1>2. PICK a, b, c, e : a = gauge /\ b = l_removed /\ c = ToAdd /\ e = Len(buffer.datagrams) + ToSubtract
  OBVIOUS
<1>3. a \in Nat /\ b \in Nat /\ c \in Nat /\ e \in Nat /\ a + c >= e + b
  <2>1. ToAdd \in Nat /\ ToSubtract \in Nat
    BY GaugeFacts DEF ToAdd, ToSubtract
  <2>2. gauge + ToAdd >= Len(buffer.datagrams) + ToSubtract + l_removed
    BY DEF ReplayInv, GaugeCovers
  <2>. QED
    BY <1>2, <2>1, <2>2, GaugeFacts
<1>4. gauge' = IF a >= b THEN a - b ELSE 0
  BY <1>1, <1>2 DEF SaturatingSub
<1>5. gauge' \in Nat /\ gauge' + c >= e + 0
  <2>1. CASE a >= b
    BY <1>3, <1>4, <2>1
  <2>2. CASE ~(a >= b)
    BY <1>3, <1>4, <2>2
  <2>. QED
    BY <2>1, <2>2
<1>6. Scalars'
  BY <1>1, <1>5 DEF ReplayInv, Scalars
<1>7. Places' /\ Tallied(buffer') /\ Bounded(buffer')
  BY <1>1, PlacesStay
<1>8. Stranded'
  BY <1>1 DEF ReplayInv, Stranded
<1>9. GaugeCovers'
  <2>1. ToAdd' = ToAdd /\ ToSubtract' = ToSubtract
    BY <1>1 DEF ToAdd, ToSubtract
  <2>2. Len(buffer'.datagrams) + ToSubtract' = e
    BY <1>1, <1>2, <2>1
  <2>. QED
    BY <1>1, <1>2, <1>5, <2>1, <2>2 DEF GaugeCovers
<1>. QED
  BY <1>6, <1>7, <1>8, <1>9, ReplayInvAfter

\* Buffer, batch, histories and gauge of a warm child (src/src/main.rs, forward,
\* buffer_warm_source, replay_warm_sources) in every reachable state: each
\* datagram is in one place or met its fate, the buffer's accounts are exact, and
\* the gauge covers what is retained or yet to be subtracted.
THEOREM ReplayInvariant == Spec => []ReplayInv
<1>1. Init => ReplayInv
  <2>. SUFFICES ASSUME Init PROVE ReplayInv
    OBVIOUS
  <2>1. /\ now = 0 /\ promoted = FALSE /\ buffer = EmptyBuffer /\ gauge = 0 /\ offered = 0
        /\ f_pc = "idle" /\ f_datagram = Idle /\ f_promoted = FALSE /\ f_mutation = NoMutation
        /\ l_pc = "idle" /\ l_batch = <<>> /\ l_removed = 0
        /\ fate = [i \in 1 .. MaxOffered |-> <<>>]
    BY DEF Init
  <2>2. Tallied(buffer) /\ Bounded(buffer) /\ buffer.datagrams = <<>> /\ Ids(<<>>) = {}
    BY <2>1, EmptyIsTallied
  <2>3. Scalars
    <3>1. f_mutation \in [added : 0 .. 1, removed : Nat]
      BY <2>1 DEF NoMutation
    <3>2. now \in 0 .. MaxTime /\ offered \in 0 .. MaxOffered
      BY <2>1, ReplayInputs
    <3>3. fate \in [1 .. MaxOffered -> Seq({"sent", "filtered", "discarded"})]
      BY <2>1
    <3>. QED
      BY <2>1, <3>1, <3>2, <3>3 DEF Scalars
  <2>4. Places
    <3>1. Ids(buffer.datagrams) = {} /\ Ids(l_batch) = {} /\ f_datagram.id = 0
      BY <2>1, <2>2, IdleFacts
    <3>2. \A i \in 1 .. MaxOffered : Len(fate[i]) = 0
      BY <2>1
    <3>3. Fates(fate, {} \cup {} \cup {0}, 0)
      BY <3>2 DEF Fates
    <3>4. <<>> \in Seq(Datagram) /\ DistinctIds(<<>>)
      BY DEF DistinctIds
    <3>. QED
      BY <2>1, <3>1, <3>3, <3>4 DEF Places
  <2>5. Stranded
    BY <2>1 DEF Stranded
  <2>6. GaugeCovers
    <3>1. Len(buffer.datagrams) = 0 /\ ToAdd = 0 /\ ToSubtract = 0
      BY <2>1, <2>2 DEF ToAdd, ToSubtract
    <3>. QED
      BY <2>1, <3>1 DEF GaugeCovers
  <2>. QED
    BY <2>2, <2>3, <2>4, <2>5, <2>6 DEF ReplayInv
<1>2. ASSUME ReplayInv, [Next]_vars PROVE ReplayInv'
  <2>1. ASSUME NEW key \in Keys \cup {NoKey}, NEW size \in Sizes, Load(key, size) PROVE ReplayInv'
    BY <1>2, <2>1, LoadKeeps
  <2>2. CASE SendSource \/ FilterSource
    BY <1>2, <2>2, ForwardKeeps
  <2>3. CASE BufferSource
    BY <1>2, <2>3, BufferKeeps
  <2>4. CASE GaugeAdd
    BY <1>2, <2>4, GaugeAddKeeps
  <2>5. CASE GaugeSub
    BY <1>2, <2>5, GaugeSubKeeps
  <2>6. CASE Promote
    <3>1. /\ l_pc = "idle" /\ promoted' = TRUE /\ l_pc' = "promoted"
          /\ now' = now /\ buffer' = buffer /\ gauge' = gauge /\ offered' = offered
          /\ f_pc' = f_pc /\ f_datagram' = f_datagram /\ f_promoted' = f_promoted
          /\ f_mutation' = f_mutation /\ l_batch' = l_batch /\ l_removed' = l_removed
          /\ fate' = fate
      BY <2>6 DEF Promote
    <3>2. Scalars' /\ Stranded' /\ GaugeCovers'
      BY <1>2, <3>1 DEF ReplayInv, Scalars, Stranded, GaugeCovers, ToAdd, ToSubtract
    <3>3. Places' /\ Tallied(buffer') /\ Bounded(buffer')
      BY <1>2, <3>1, PlacesStay
    <3>. QED
      BY <3>2, <3>3, ReplayInvAfter
  <2>7. CASE Demote
    <3>1. /\ l_pc = "idle" /\ promoted' = FALSE /\ l_pc' = l_pc
          /\ now' = now /\ buffer' = buffer /\ gauge' = gauge /\ offered' = offered
          /\ f_pc' = f_pc /\ f_datagram' = f_datagram /\ f_promoted' = f_promoted
          /\ f_mutation' = f_mutation /\ l_batch' = l_batch /\ l_removed' = l_removed
          /\ fate' = fate
      BY <2>7 DEF Demote
    <3>2. Scalars' /\ Stranded' /\ GaugeCovers'
      BY <1>2, <3>1 DEF ReplayInv, Scalars, Stranded, GaugeCovers, ToAdd, ToSubtract
    <3>3. Places' /\ Tallied(buffer') /\ Bounded(buffer')
      BY <1>2, <3>1, PlacesStay
    <3>. QED
      BY <3>2, <3>3, ReplayInvAfter
  <2>8. CASE TakeLive
    BY <1>2, <2>8, TakeKeeps
  <2>9. CASE GaugeDrained
    BY <1>2, <2>9, GaugeDrainedKeeps
  <2>10. CASE ReplaySend
    BY <1>2, <2>10, ReplaySendKeeps
  <2>11. CASE ReplayDone
    <3>1. /\ l_pc = "sending" /\ l_batch = <<>> /\ l_pc' = "idle" /\ promoted' = promoted
          /\ now' = now /\ buffer' = buffer /\ gauge' = gauge /\ offered' = offered
          /\ f_pc' = f_pc /\ f_datagram' = f_datagram /\ f_promoted' = f_promoted
          /\ f_mutation' = f_mutation /\ l_batch' = l_batch /\ l_removed' = l_removed
          /\ fate' = fate
      BY <2>11 DEF ReplayDone
    <3>2. Scalars' /\ Stranded' /\ GaugeCovers'
      BY <1>2, <3>1 DEF ReplayInv, Scalars, Stranded, GaugeCovers, ToAdd, ToSubtract
    <3>3. Places' /\ Tallied(buffer') /\ Bounded(buffer')
      BY <1>2, <3>1, PlacesStay
    <3>. QED
      BY <3>2, <3>3, ReplayInvAfter
  <2>12. CASE Elapse
    <3>1. /\ now < MaxTime /\ now' = now + 1 /\ l_pc' = l_pc /\ promoted' = promoted
          /\ buffer' = buffer /\ gauge' = gauge /\ offered' = offered
          /\ f_pc' = f_pc /\ f_datagram' = f_datagram /\ f_promoted' = f_promoted
          /\ f_mutation' = f_mutation /\ l_batch' = l_batch /\ l_removed' = l_removed
          /\ fate' = fate
      BY <2>12 DEF Elapse
    <3>2. now' \in 0 .. MaxTime
      BY <1>2, <3>1, ReplayInputs DEF ReplayInv, Scalars
    <3>3. Scalars' /\ Stranded' /\ GaugeCovers'
      BY <1>2, <3>1, <3>2 DEF ReplayInv, Scalars, Stranded, GaugeCovers, ToAdd, ToSubtract
    <3>4. Places' /\ Tallied(buffer') /\ Bounded(buffer')
      BY <1>2, <3>1, PlacesStay
    <3>. QED
      BY <3>3, <3>4, ReplayInvAfter
  <2>13. CASE UNCHANGED vars
    <3>1. /\ now' = now /\ l_pc' = l_pc /\ promoted' = promoted
          /\ buffer' = buffer /\ gauge' = gauge /\ offered' = offered
          /\ f_pc' = f_pc /\ f_datagram' = f_datagram /\ f_promoted' = f_promoted
          /\ f_mutation' = f_mutation /\ l_batch' = l_batch /\ l_removed' = l_removed
          /\ fate' = fate
      BY <2>13 DEF vars
    <3>2. Scalars' /\ Stranded' /\ GaugeCovers'
      BY <1>2, <3>1 DEF ReplayInv, Scalars, Stranded, GaugeCovers, ToAdd, ToSubtract
    <3>3. Places' /\ Tallied(buffer') /\ Bounded(buffer')
      BY <1>2, <3>1, PlacesStay
    <3>. QED
      BY <3>2, <3>3, ReplayInvAfter
  <2>. QED
    BY <1>2, <2>1, <2>2, <2>3, <2>4, <2>5, <2>6, <2>7, <2>8, <2>9, <2>10, <2>11, <2>12, <2>13
    DEF Next
<1>. QED
  BY <1>1, <1>2, PTL DEF Spec

\* One place at most for a number.
LEMMA CountOfId ==
    ASSUME NEW q \in Seq(Datagram), DistinctIds(q), NEW n
    PROVE  Cardinality({j \in DOMAIN q : q[j].id = n}) = IF n \in Ids(q) THEN 1 ELSE 0
<1>1. DOMAIN q = 1 .. Len(q)
  OBVIOUS
<1>2. PICK S : S = {j \in 1 .. Len(q) : q[j].id = n}
  OBVIOUS
<1>3. CASE n \in Ids(q)
  <2>1. PICK k \in 1 .. Len(q) : q[k].id = n
    BY <1>1, <1>3 DEF Ids
  <2>2. \A j \in S : j = k
    BY <1>2, <2>1 DEF DistinctIds
  <2>3. k \in S
    BY <1>2, <2>1, Zenon
  <2>4. S = {k}
    BY <2>2, <2>3, Zenon
  <2>5. Cardinality(S) = 1
    BY <2>4, FS_Singleton
  <2>. QED
    BY <1>1, <1>2, <1>3, <2>5, Zenon
<1>4. CASE n \notin Ids(q)
  <2>1. \A j \in 1 .. Len(q) : q[j].id # n
    BY <1>1, <1>4 DEF Ids
  <2>2. S = {}
    BY <1>2, <2>1, Zenon
  <2>3. Cardinality(S) = 0
    BY <2>2, FS_EmptySet
  <2>. QED
    BY <1>1, <1>2, <1>4, <2>3, Zenon
<1>. QED
  BY <1>3, <1>4

\* However the ingest task and the listener of a warm child interleave at locks
\* and atomics (src/src/main.rs), every source datagram is sent, filtered or
\* discarded once, the buffer keeps its limits and exact accounts, a promoted
\* child strands at most one datagram, and the gauge never hides one.
THEOREM ReplayCorrect == Spec => []ReplaySound
<1>1. ReplayInv => ReplaySound
  <2>. SUFFICES ASSUME ReplayInv PROVE ReplaySound
    OBVIOUS
  <2>1. PICK q, o : q = buffer.datagrams /\ o = buffer.object_order
    OBVIOUS
  <2>2. /\ q \in Seq(Datagram) /\ DistinctIds(q) /\ o \in Seq(Keys) /\ Once(o)
        /\ ToSet(o) = KeysOf(q) /\ buffer.bytes = TotalSize(q)
    BY <2>1 DEF ReplayInv, Tallied, Tally
  <2>3. TypeOK
    <3>1. buffer.bytes \in Nat
      BY <2>2, SizeType
    <3>2. f_datagram \in Datagram \cup {Idle} /\ l_batch \in Seq(Datagram)
      BY DEF ReplayInv, Places
    <3>3. buffer.datagrams \in Seq(Datagram) /\ buffer.object_order \in Seq(Keys)
      BY <2>1, <2>2
    <3>4. Scalars
      BY DEF ReplayInv
    <3>. QED
      BY <3>1, <3>2, <3>3, <3>4, Zenon DEF TypeOK, Scalars
  <2>4. BufferWithinBounds
    <3>1. Bounded(buffer)
      BY DEF ReplayInv
    <3>2. Len(o) = Cardinality(KeysOf(q))
      <4>1. o \in Seq(Keys) /\ Once(o) /\ KeysOf(q) = ToSet(o)
        BY <2>2
      <4>2. ToSet(o) = {o[i] : i \in 1 .. Len(o)}
        BY <4>1 DEF ToSet
      <4>. QED
        BY <4>1, <4>2, CountOnce
    <3>. QED
      BY <2>1, <2>2, <3>1, <3>2 DEF BufferWithinBounds, Bounded
  <2>5. OneFate
    <3>. SUFFICES ASSUME NEW i \in 1 .. offered
                  PROVE  (IF f_datagram.id = i THEN 1 ELSE 0)
                           + Cardinality({j \in DOMAIN buffer.datagrams : buffer.datagrams[j].id = i})
                           + Cardinality({j \in DOMAIN l_batch : l_batch[j].id = i})
                           + Len(fate[i]) = 1
      BY DEF OneFate
    <3>1. PICK A, B, n : A = Ids(q) /\ B = Ids(l_batch) /\ n = f_datagram.id
      OBVIOUS
    <3>2. /\ A \cap B = {} /\ n \notin A \cup B /\ Fates(fate, A \cup B \cup {n}, offered)
          /\ l_batch \in Seq(Datagram) /\ DistinctIds(l_batch)
      BY <2>1, <3>1 DEF ReplayInv, Places
    <3>3. i \in 1 .. MaxOffered /\ ~(i > offered)
      BY PlacesFacts
    <3>4. Len(fate[i]) = IF i \in A \cup B \cup {n} THEN 0 ELSE 1
      BY <3>2, <3>3 DEF Fates
    <3>5. Cardinality({j \in DOMAIN buffer.datagrams : buffer.datagrams[j].id = i}) = IF i \in A THEN 1 ELSE 0
      BY <2>1, <2>2, <3>1, CountOfId
    <3>6. Cardinality({j \in DOMAIN l_batch : l_batch[j].id = i}) = IF i \in B THEN 1 ELSE 0
      BY <3>1, <3>2, CountOfId
    <3>7. PICK a, b, c, e : /\ a = Cardinality({j \in DOMAIN buffer.datagrams : buffer.datagrams[j].id = i})
                            /\ b = Cardinality({j \in DOMAIN l_batch : l_batch[j].id = i})
                            /\ c = (IF f_datagram.id = i THEN 1 ELSE 0) /\ e = Len(fate[i])
      OBVIOUS
    <3>8. /\ a = (IF i \in A THEN 1 ELSE 0) /\ b = (IF i \in B THEN 1 ELSE 0)
          /\ c = (IF n = i THEN 1 ELSE 0) /\ e = (IF i \in A \cup B \cup {n} THEN 0 ELSE 1)
      BY <3>1, <3>4, <3>5, <3>6, <3>7, Zenon
    <3>9. c + a + b + e = 1
      BY <3>2, <3>8
    <3>. QED
      BY <3>7, <3>9, Zenon
  <2>6. ReplayOnlyWhilePromoted /\ AtMostOneStranded
    BY DEF ReplayInv, Stranded, ReplayOnlyWhilePromoted, AtMostOneStranded
  <2>7. GaugeNeverUnderReports
    <3>. SUFFICES ASSUME f_pc = "idle", l_pc = "idle" PROVE gauge >= Len(buffer.datagrams)
      BY DEF GaugeNeverUnderReports
    <3>. QED
      BY GaugeFacts
  <2>. QED
    BY <2>3, <2>4, <2>5, <2>6, <2>7 DEF ReplaySound
<1>. QED
  BY <1>1, ReplayInvariant, PTL
=============================================================================
