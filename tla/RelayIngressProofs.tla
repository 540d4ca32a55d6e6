------------------------- MODULE RelayIngressProofs -------------------------
(***************************************************************************)
(* IngressSound of RelayIngress, for all keys, profiles, sessions, symbols *)
(* and limits.  The parts of the invariant speak of the tables they need,  *)
(* so that the operators that take one state of the receiver to the next   *)
(* can be treated one by one.                                              *)
(***************************************************************************)
EXTENDS RelayIngress, SequenceFacts

\* A receiver has these fields and no others.
RxShape(r) ==
    r = [objects |-> r.objects, logical_keys |-> r.logical_keys,
         completed |-> r.completed, completed_order |-> r.completed_order,
         buffered_object_bytes |-> r.buffered_object_bytes,
         buffered_datagrams |-> r.buffered_datagrams,
         next_expiry_scan |-> r.next_expiry_scan]

\* An object is of the key it is kept under, and has finitely many symbols.
ObjectOK(o, k) ==
    o \in Object /\ KeyOf(o.announcement) = k /\ IsFiniteSet(DOMAIN o.symbols)

\* The active objects.
ObjectsOK(ob) ==
    /\ DOMAIN ob \subseteq Keys /\ IsFiniteSet(DOMAIN ob)
    /\ \A k \in DOMAIN ob : ObjectOK(ob[k], k)

\* The completed objects that are remembered.
TombstonesOK(c) == DOMAIN c \subseteq Keys /\ \A k \in DOMAIN c : c[k] \in Tombstone

\* The index is exact for the active keys O and the completed keys C.
IndexOK(O, C, l) ==
    /\ O \cap C = {}
    /\ \A k \in O \cup C : LogicalOf[k] \in DOMAIN l /\ l[LogicalOf[k]] = k
    /\ \A x \in DOMAIN l : l[x] \in O \cup C /\ LogicalOf[l[x]] = x

\* The order lists each completed key once.
OrderOK(C, o) ==
    /\ o \in Seq(Keys) /\ Once(o)
    /\ C = {o[i] : i \in 1 .. Len(o)}

\* The tombstones are those of the last objects that were delivered.
Recent(o, d) ==
    /\ d \in Seq(Keys)
    /\ Len(o) = IF Len(d) < MaxCompleted THEN Len(d) ELSE MaxCompleted
    /\ \A i \in 1 .. Len(o) : o[i] = d[Len(d) - Len(o) + i]

\* What is counted is what the objects reserve, and within the limits.
CountsOK(ob, bytes, datagrams) ==
    /\ bytes = SumFunctionOnSet(Lengths(ob), DOMAIN ob)
    /\ datagrams = SumFunctionOnSet(Retained(ob), DOMAIN ob)
    /\ bytes <= MaxBytes /\ datagrams <= MaxBuffered
    /\ Cardinality(DOMAIN ob) <= MaxActive

\* The parents are sessions of the object's binding, one per path.
DiverseOK(ses, parents, binding) ==
    /\ parents \subseteq DOMAIN ses /\ parents # {}
    /\ \A e \in parents : ses[e].binding = binding
    /\ \A d, e \in parents : d # e =>
          /\ ses[d].path # ses[e].path
          /\ ses[d].peer = ses[e].peer => ses[d].controlled /\ ses[e].controlled

\* The parents of every entry of a table.
ParentsOK(ses, t) ==
    \A k \in DOMAIN t : DiverseOK(ses, t[k].parents, t[k].announcement.profile.binding)

\* The next scan is not further off than one interval.
ScanOK(n) == n \in {Never} \cup (0 .. (MaxTime + ScanInterval))

\* A state of the receiver, next to the sessions it knows.
RxOK(ses, r) ==
    /\ RxShape(r) /\ ObjectsOK(r.objects) /\ TombstonesOK(r.completed)
    /\ IndexOK(DOMAIN r.objects, DOMAIN r.completed, r.logical_keys)
    /\ OrderOK(DOMAIN r.completed, r.completed_order)
    /\ CountsOK(r.objects, r.buffered_object_bytes, r.buffered_datagrams)
    /\ ParentsOK(ses, r.objects) /\ ParentsOK(ses, r.completed)
    /\ ScanOK(r.next_expiry_scan)

\* A session is known under its own id.
SessionsOK(ses) ==
    /\ DOMAIN ses \subseteq SessionIds
    /\ \A id \in DOMAIN ses : ses[id] \in SessionRecords /\ ses[id].id = id

\* An identity is delivered again only after MaxCompleted others.
OnceOK(d) ==
    \A i, j \in 1 .. Len(d) :
        i < j /\ LogicalOf[d[i]] = LogicalOf[d[j]] => j - i > MaxCompleted

\* The inductive invariant behind IngressSound.
IngressInv ==
    /\ SessionsOK(sessions) /\ RxOK(sessions, rx)
    /\ Recent(rx.completed_order, delivered) /\ OnceOK(delivered)
    /\ now \in 0 .. MaxTime

-----------------------------------------------------------------------------
(***************************************************************************)
(* Objects and what they reserve.                                          *)
(***************************************************************************)
\* The limits are positive numbers.
LEMMA Limits ==
    /\ MaxActive \in Nat /\ MaxBytes \in Nat /\ MaxBuffered \in Nat
    /\ MaxCompleted \in Nat /\ MaxCompleted >= 1
    /\ Inactivity \in Nat /\ ScanInterval \in Nat /\ MaxTime \in Nat
<1>1. ValidConfig
  BY ConfigAssumption
<1>2. MaxTime \in Nat
  BY InputAssumption
<1>. QED
  BY <1>1, <1>2 DEF ValidConfig

\* What is announced.
LEMMA AnnouncementFacts ==
    ASSUME NEW a \in Announcement
    PROVE  a.profile \in Profiles /\ KeyOf(a) \in Keys /\ a.profile.length \in Nat
<1>1. a.profile \in Profiles
  BY DEF Announcement
<1>2. a.profile \in ProfileSet
  BY <1>1, InputAssumption
<1>3. a.profile.key \in Keys /\ a.profile.length \in Nat
  BY <1>2 DEF ProfileSet
<1>. QED
  BY <1>1, <1>3 DEF KeyOf

\* What an object reserves are numbers.
LEMMA ReservedTypes ==
    ASSUME NEW ob, ObjectsOK(ob)
    PROVE  /\ IsFiniteSet(DOMAIN ob)
           /\ NatOn(Lengths(ob), DOMAIN ob) /\ NatOn(Retained(ob), DOMAIN ob)
           /\ \A k \in DOMAIN ob : /\ Lengths(ob)[k] = LengthOf(ob[k])
                                   /\ Retained(ob)[k] = Cardinality(DOMAIN ob[k].symbols)
<1>1. \A k \in DOMAIN ob : /\ Lengths(ob)[k] = LengthOf(ob[k])
                           /\ Retained(ob)[k] = Cardinality(DOMAIN ob[k].symbols)
  BY DEF Lengths, Retained
<1>2. ASSUME NEW k \in DOMAIN ob
      PROVE  LengthOf(ob[k]) \in Nat /\ Cardinality(DOMAIN ob[k].symbols) \in Nat
  <2>1. ob[k] \in Object /\ IsFiniteSet(DOMAIN ob[k].symbols)
    BY DEF ObjectsOK, ObjectOK
  <2>2. ob[k].announcement \in Announcement
    BY <2>1 DEF Object
  <2>3. LengthOf(ob[k]) \in Nat
    BY <2>2, AnnouncementFacts DEF LengthOf
  <2>. QED
    BY <2>1, <2>3, FS_CardinalityType
<1>. QED
  BY <1>1, <1>2, Zenon DEF NatOn, ObjectsOK

\* Objects that go give back what they had reserved; no subtraction saturates.
LEMMA WithoutKeeps ==
    ASSUME NEW ob, ObjectsOK(ob), NEW bytes, NEW datagrams, CountsOK(ob, bytes, datagrams),
           NEW gone \in SUBSET DOMAIN ob, NEW rest, rest = Without(ob, gone),
           NEW b, b = SaturatingSub(bytes, SumFunctionOnSet(Lengths(ob), gone)),
           NEW d, d = SaturatingSub(datagrams, SumFunctionOnSet(Retained(ob), gone))
    PROVE  /\ ObjectsOK(rest) /\ CountsOK(rest, b, d)
           /\ DOMAIN rest = DOMAIN ob \ gone /\ \A k \in DOMAIN rest : rest[k] = ob[k]
<1>1. DOMAIN rest = DOMAIN ob \ gone /\ \A k \in DOMAIN rest : rest[k] = ob[k]
  BY DEF Without
<1>2. /\ IsFiniteSet(DOMAIN ob) /\ NatOn(Lengths(ob), DOMAIN ob) /\ NatOn(Retained(ob), DOMAIN ob)
  BY ReservedTypes
<1>3. ObjectsOK(rest)
  BY <1>1, <1>2, FS_Subset DEF ObjectsOK
<1>4. SameOn(Lengths(rest), Lengths(ob), DOMAIN ob \ gone)
  BY <1>1 DEF SameOn, Lengths
<1>5. SameOn(Retained(rest), Retained(ob), DOMAIN ob \ gone)
  BY <1>1 DEF SameOn, Retained
<1>6. PICK S, f, g, f1, g1 : /\ S = DOMAIN ob /\ f = Lengths(ob) /\ g = Retained(ob)
                             /\ f1 = Lengths(rest) /\ g1 = Retained(rest)
  OBVIOUS
<1>7. /\ SumFunctionOnSet(f1, S \ gone) = SumFunctionOnSet(f, S) - SumFunctionOnSet(f, gone)
      /\ SumFunctionOnSet(f1, S \ gone) \in Nat /\ SumFunctionOnSet(f, gone) \in Nat
      /\ SumFunctionOnSet(f, S) \in Nat
  BY <1>2, <1>4, <1>6, SumWithout
<1>8. /\ SumFunctionOnSet(g1, S \ gone) = SumFunctionOnSet(g, S) - SumFunctionOnSet(g, gone)
      /\ SumFunctionOnSet(g1, S \ gone) \in Nat /\ SumFunctionOnSet(g, gone) \in Nat
      /\ SumFunctionOnSet(g, S) \in Nat
  BY <1>2, <1>5, <1>6, SumWithout
<1>9. /\ bytes = SumFunctionOnSet(f, S) /\ datagrams = SumFunctionOnSet(g, S)
      /\ bytes <= MaxBytes /\ datagrams <= MaxBuffered /\ Cardinality(S) <= MaxActive
  BY <1>6 DEF CountsOK
<1>10. b = SumFunctionOnSet(f1, S \ gone) /\ b <= MaxBytes
  BY <1>6, <1>7, <1>9, Limits DEF SaturatingSub
<1>11. d = SumFunctionOnSet(g1, S \ gone) /\ d <= MaxBuffered
  BY <1>6, <1>8, <1>9, Limits DEF SaturatingSub
<1>12. Cardinality(DOMAIN rest) <= MaxActive
  <2>1. Cardinality(DOMAIN rest) <= Cardinality(S) /\ IsFiniteSet(DOMAIN rest) /\ IsFiniteSet(S)
    BY <1>1, <1>2, <1>6, FS_Subset
  <2>2. Cardinality(DOMAIN rest) \in Nat /\ Cardinality(S) \in Nat
    BY <2>1, FS_CardinalityType
  <2>. QED
    BY <1>9, <2>1, <2>2, Limits
<1>. QED
  BY <1>1, <1>3, <1>6, <1>10, <1>11, <1>12 DEF CountsOK

\* One more object.
LEMMA WithKeeps ==
    ASSUME NEW ob, ObjectsOK(ob), NEW bytes, NEW datagrams, CountsOK(ob, bytes, datagrams),
           NEW k \in Keys, k \notin DOMAIN ob, NEW o, ObjectOK(o, k),
           Cardinality(DOMAIN o.symbols) = 0, bytes + LengthOf(o) <= MaxBytes,
           Cardinality(DOMAIN ob) < MaxActive,
           NEW more, more = With(ob, k, o)
    PROVE  /\ ObjectsOK(more) /\ CountsOK(more, bytes + LengthOf(o), datagrams)
           /\ DOMAIN more = DOMAIN ob \cup {k} /\ more[k] = o
           /\ \A x \in DOMAIN ob : more[x] = ob[x]
<1>1. DOMAIN more = DOMAIN ob \cup {k} /\ more[k] = o /\ \A x \in DOMAIN ob : more[x] = ob[x]
  BY DEF With
<1>2. /\ IsFiniteSet(DOMAIN ob) /\ NatOn(Lengths(ob), DOMAIN ob) /\ NatOn(Retained(ob), DOMAIN ob)
  BY ReservedTypes
<1>3. IsFiniteSet(DOMAIN more)
  BY <1>1, <1>2, FS_AddElement
<1>4. ObjectsOK(more)
  BY <1>1, <1>3 DEF ObjectsOK
<1>5. /\ SameOn(Lengths(more), Lengths(ob), DOMAIN ob) /\ SameOn(Retained(more), Retained(ob), DOMAIN ob)
      /\ Lengths(more)[k] = LengthOf(o) /\ Retained(more)[k] = 0
  BY <1>1 DEF SameOn, Lengths, Retained
<1>6. LengthOf(o) \in Nat
  BY <1>1, <1>4, <1>5, ReservedTypes DEF NatOn
<1>7. PICK S, f, g, f1, g1, n : /\ S = DOMAIN ob /\ f = Lengths(ob) /\ g = Retained(ob)
                                /\ f1 = Lengths(more) /\ g1 = Retained(more) /\ n = LengthOf(o)
  OBVIOUS
<1>8. SumFunctionOnSet(f1, S \cup {k}) = SumFunctionOnSet(f, S) + n
  BY <1>2, <1>5, <1>6, <1>7, SumWith
<1>9. /\ SumFunctionOnSet(g1, S \cup {k}) = SumFunctionOnSet(g, S) + 0
      /\ SumFunctionOnSet(g, S) \in Nat
  <2>1. PICK z \in Nat : z = 0
    OBVIOUS
  <2>2. /\ z = g1[k] /\ IsFiniteSet(S) /\ NatOn(g, S) /\ k \notin S /\ SameOn(g1, g, S)
    BY <1>2, <1>5, <1>7, <2>1, Zenon
  <2>3. SumFunctionOnSet(g1, S \cup {k}) = SumFunctionOnSet(g, S) + z
    BY <2>2, SumWith
  <2>4. SumFunctionOnSet(g, S) \in Nat
    BY <2>2, SumRemove DEF NatOn
  <2>. QED
    BY <2>1, <2>3, <2>4
<1>10. Cardinality(DOMAIN more) <= MaxActive
  <2>1. Cardinality(DOMAIN more) = Cardinality(DOMAIN ob) + 1 /\ Cardinality(DOMAIN ob) \in Nat
    BY <1>1, <1>2, FS_AddElement, FS_CardinalityType
  <2>. QED
    BY <2>1, Limits
<1>11. /\ bytes = SumFunctionOnSet(f, S) /\ datagrams = SumFunctionOnSet(g, S)
       /\ datagrams <= MaxBuffered
  BY <1>7 DEF CountsOK
<1>. QED
  BY <1>1, <1>4, <1>7, <1>8, <1>9, <1>10, <1>11 DEF CountsOK

\* One object takes n more symbols, or only joins another parent.
LEMMA UpdateKeeps ==
    ASSUME NEW ob, ObjectsOK(ob), NEW bytes, NEW datagrams, CountsOK(ob, bytes, datagrams),
           NEW k \in DOMAIN ob, NEW o, ObjectOK(o, k), NEW n \in Nat,
           LengthOf(o) = LengthOf(ob[k]), datagrams + n <= MaxBuffered,
           Cardinality(DOMAIN o.symbols) = Cardinality(DOMAIN ob[k].symbols) + n,
           NEW new, new = [ob EXCEPT ![k] = o]
    PROVE  /\ ObjectsOK(new) /\ CountsOK(new, bytes, datagrams + n)
           /\ DOMAIN new = DOMAIN ob /\ new[k] = o
           /\ \A x \in DOMAIN ob : x # k => new[x] = ob[x]
<1>1. DOMAIN new = DOMAIN ob /\ new[k] = o /\ \A x \in DOMAIN ob : x # k => new[x] = ob[x]
  OBVIOUS
<1>2. /\ IsFiniteSet(DOMAIN ob) /\ NatOn(Lengths(ob), DOMAIN ob) /\ NatOn(Retained(ob), DOMAIN ob)
  BY ReservedTypes
<1>3. ObjectsOK(new)
  BY <1>1 DEF ObjectsOK
<1>4. /\ SameOn(Lengths(new), Lengths(ob), DOMAIN ob)
      /\ SameOn(Retained(new), Retained(ob), DOMAIN ob \ {k})
      /\ Retained(new)[k] = Retained(ob)[k] + n
  BY <1>1 DEF SameOn, Lengths, Retained
<1>5. PICK S, f, g, f1, g1 : /\ S = DOMAIN ob /\ f = Lengths(ob) /\ g = Retained(ob)
                             /\ f1 = Lengths(new) /\ g1 = Retained(new)
  OBVIOUS
<1>6. SumFunctionOnSet(f1, S) = SumFunctionOnSet(f, S)
  BY <1>2, <1>4, <1>5, SumSame DEF SameOn
<1>7. SumFunctionOnSet(g1, S) = SumFunctionOnSet(g, S) + n
  BY <1>2, <1>4, <1>5, SumUpdate
<1>. QED
  BY <1>1, <1>3, <1>5, <1>6, <1>7 DEF CountsOK

-----------------------------------------------------------------------------
(***************************************************************************)
(* The logical index and the order of the tombstones.                      *)
(***************************************************************************)
\* Keys that go take their identities along, and only theirs.
LEMMA IndexForgets ==
    ASSUME NEW O, NEW C, NEW l, IndexOK(O, C, l), NEW gone,
           NEW m, m = Without(l, {LogicalOf[k] : k \in gone})
    PROVE  gone \subseteq O \cup C => IndexOK(O \ gone, C \ gone, m)
<1>. SUFFICES ASSUME gone \subseteq O \cup C PROVE IndexOK(O \ gone, C \ gone, m)
  OBVIOUS
<1>1. PICK G : G = {LogicalOf[k] : k \in gone}
  OBVIOUS
<1>2. DOMAIN m = DOMAIN l \ G /\ \A x \in DOMAIN m : m[x] = l[x]
  BY <1>1 DEF Without
<1>3. ASSUME NEW k \in (O \ gone) \cup (C \ gone)
      PROVE  LogicalOf[k] \in DOMAIN m /\ m[LogicalOf[k]] = k
  <2>1. LogicalOf[k] \in DOMAIN l /\ l[LogicalOf[k]] = k
    BY DEF IndexOK
  <2>2. \A g \in gone : l[LogicalOf[g]] = g
    BY DEF IndexOK
  <2>3. LogicalOf[k] \notin G
    BY <1>1, <2>1, <2>2
  <2>. QED
    BY <1>2, <2>1, <2>3
<1>4. ASSUME NEW x \in DOMAIN m
      PROVE  m[x] \in (O \ gone) \cup (C \ gone) /\ LogicalOf[m[x]] = x
  <2>1. x \in DOMAIN l /\ x \notin G /\ m[x] = l[x]
    BY <1>2
  <2>2. l[x] \in O \cup C /\ LogicalOf[l[x]] = x
    BY <2>1 DEF IndexOK
  <2>3. l[x] \notin gone
    BY <1>1, <2>1, <2>2
  <2>. QED
    BY <2>1, <2>2, <2>3
<1>5. (O \ gone) \cap (C \ gone) = {}
  BY DEF IndexOK
<1>. QED
  BY <1>3, <1>4, <1>5, Zenon DEF IndexOK

\* A new key whose identity is not taken.
LEMMA IndexStarts ==
    ASSUME NEW O, NEW C, NEW l, IndexOK(O, C, l), NEW k, k \notin O \cup C,
           LogicalOf[k] \in DOMAIN l => l[LogicalOf[k]] = k,
           NEW m, m = With(l, LogicalOf[k], k)
    PROVE  IndexOK(O \cup {k}, C, m)
<1>1. PICK x0 : x0 = LogicalOf[k]
  OBVIOUS
<1>2. DOMAIN m = DOMAIN l \cup {x0} /\ m[x0] = k /\ \A x \in DOMAIN l : x # x0 => m[x] = l[x]
  BY <1>1 DEF With
<1>3. x0 \notin DOMAIN l
  BY <1>1 DEF IndexOK
<1>4. ASSUME NEW j \in (O \cup {k}) \cup C
      PROVE  LogicalOf[j] \in DOMAIN m /\ m[LogicalOf[j]] = j
  <2>1. CASE j = k
    BY <1>1, <1>2, <2>1
  <2>2. CASE j # k
    <3>1. LogicalOf[j] \in DOMAIN l /\ l[LogicalOf[j]] = j
      BY <2>2 DEF IndexOK
    <3>. QED
      BY <1>2, <1>3, <3>1
  <2>. QED
    BY <2>1, <2>2
<1>5. ASSUME NEW x \in DOMAIN m
      PROVE  m[x] \in (O \cup {k}) \cup C /\ LogicalOf[m[x]] = x
  <2>1. CASE x = x0
    BY <1>1, <1>2, <2>1
  <2>2. CASE x # x0
    <3>1. x \in DOMAIN l /\ m[x] = l[x]
      BY <1>2, <2>2
    <3>. QED
      BY <3>1 DEF IndexOK
  <2>. QED
    BY <2>1, <2>2
<1>6. (O \cup {k}) \cap C = {}
  BY DEF IndexOK
<1>. QED
  BY <1>4, <1>5, <1>6, Zenon DEF IndexOK

\* A key that is completed keeps its identity.
LEMMA IndexCompletes ==
    ASSUME NEW O, NEW C, NEW l, IndexOK(O, C, l), NEW k \in O
    PROVE  IndexOK(O \ {k}, C \cup {k}, l)
<1>1. (O \ {k}) \cap (C \cup {k}) = {} /\ (O \ {k}) \cup (C \cup {k}) = O \cup C
  BY DEF IndexOK
<1>. QED
  BY <1>1 DEF IndexOK

\* The queue o without its first n entries, and with k at its end.
Requeued(o, n, k) == Append(SubSeq(o, n + 1, Len(o)), k)

\* Its first n entries.
FirstOf(o, n) == {o[i] : i \in 1 .. n}

\* p is the queue o without its first n entries and with k at its end.
Follows(p, o, n, k) ==
    /\ Len(p) = Len(o) - n + 1 /\ p[Len(p)] = k
    /\ \A i \in 1 .. (Len(o) - n) : p[i] = o[n + i]

\* The first n tombstones make room for one that is new.
LEMMA OrderRequeued ==
    ASSUME NEW C, NEW o, OrderOK(C, o), NEW n \in 0 .. Len(o), NEW k \in Keys, k \notin C
    PROVE  /\ FirstOf(o, n) \subseteq C
           /\ OrderOK((C \ FirstOf(o, n)) \cup {k}, Requeued(o, n, k))
           /\ Follows(Requeued(o, n, k), o, n, k)
<1>0. PICK gone, p : gone = FirstOf(o, n) /\ p = Requeued(o, n, k)
  OBVIOUS
<1>1. o \in Seq(Keys) /\ Once(o) /\ C = {o[i] : i \in 1 .. Len(o)} /\ Len(o) \in Nat
  BY DEF OrderOK
<1>2. PICK q : q = SubSeq(o, n + 1, Len(o))
  OBVIOUS
<1>3. q \in Seq(Keys) /\ Len(q) = Len(o) - n /\ \A i \in 1 .. (Len(o) - n) : q[i] = o[n + i]
  BY <1>1, <1>2
<1>4. /\ p \in Seq(Keys) /\ Len(p) = Len(o) - n + 1 /\ p[Len(p)] = k
      /\ \A i \in 1 .. (Len(o) - n) : p[i] = o[n + i]
  <2>1. p = Append(q, k)
    BY <1>0, <1>2 DEF Requeued
  <2>2. p \in Seq(Keys) /\ Len(p) = Len(q) + 1 /\ p[Len(q) + 1] = k /\ \A i \in 1 .. Len(q) : p[i] = q[i]
    BY <1>3, <2>1
  <2>. QED
    BY <1>3, <2>2
<1>5. gone \subseteq C /\ gone = {o[i] : i \in 1 .. n}
  BY <1>0, <1>1 DEF FirstOf
<1>6. PICK h : h = Len(o) - n
  OBVIOUS
<1>7. h \in Nat /\ Len(p) = h + 1 /\ p[h + 1] = k /\ \A i \in 1 .. h : p[i] = o[n + i] /\ n + i \in 1 .. Len(o)
  BY <1>1, <1>4, <1>6
<1>8. \A i \in 1 .. h : p[i] \in C
  BY <1>1, <1>7
<1>9. ASSUME NEW i \in 1 .. (h + 1), NEW j \in 1 .. (h + 1), p[i] = p[j]
      PROVE  i = j
  <2>1. CASE i \in 1 .. h /\ j \in 1 .. h
    <3>1. o[n + i] = o[n + j] /\ n + i \in 1 .. Len(o) /\ n + j \in 1 .. Len(o)
      BY <1>7, <1>9, <2>1
    <3>2. n + i = n + j
      BY <1>1, <3>1 DEF Once
    <3>. QED
      BY <1>1, <3>2
  <2>2. CASE i = h + 1 \/ j = h + 1
    <3>1. i \notin 1 .. h /\ j \notin 1 .. h
      BY <1>7, <1>8, <1>9, <2>2
    <3>. QED
      BY <1>7, <3>1
  <2>. QED
    BY <1>7, <2>1, <2>2
<1>10. Once(p)
  BY <1>7, <1>9 DEF Once
<1>11. (C \ gone) \cup {k} = {p[i] : i \in 1 .. (h + 1)}
  <2>1. ASSUME NEW x \in C \ gone PROVE x \in {p[i] : i \in 1 .. (h + 1)}
    <3>1. PICK i \in 1 .. Len(o) : x = o[i]
      BY <1>1
    <3>2. i \notin 1 .. n
      BY <1>5, <2>1, <3>1
    <3>3. i - n \in 1 .. h /\ n + (i - n) = i
      BY <1>1, <1>6, <3>2
    <3>4. p[i - n] = x /\ i - n \in 1 .. (h + 1)
      BY <1>7, <3>1, <3>3
    <3>. QED
      BY <3>4
  <2>2. k \in {p[i] : i \in 1 .. (h + 1)}
    <3>1. h + 1 \in 1 .. (h + 1)
      BY <1>7
    <3>. QED
      BY <1>7, <3>1
  <2>3. ASSUME NEW i \in 1 .. (h + 1) PROVE p[i] \in (C \ gone) \cup {k}
    <3>1. CASE i = h + 1
      BY <1>7, <3>1
    <3>2. CASE i \in 1 .. h
      <4>1. p[i] = o[n + i] /\ n + i \in 1 .. Len(o)
        BY <1>7, <3>2
      <4>2. \A j \in 1 .. n : j # n + i /\ j \in 1 .. Len(o)
        BY <1>1, <3>2
      <4>3. o[n + i] \notin gone
        BY <1>1, <1>5, <4>1, <4>2 DEF Once
      <4>. QED
        BY <1>8, <3>2, <4>1, <4>3
    <3>. QED
      BY <1>7, <3>1, <3>2
  <2>. QED
    BY <2>1, <2>2, <2>3
<1>12. OrderOK((C \ gone) \cup {k}, p) /\ Follows(p, o, n, k)
  BY <1>4, <1>7, <1>10, <1>11 DEF OrderOK, Follows
<1>. QED
  BY <1>0, <1>5, <1>12

-----------------------------------------------------------------------------
(***************************************************************************)
(* The operators of the receiver.                                          *)
(***************************************************************************)
\* The parts of RxOK put together.
LEMMA RxOKFrom ==
    ASSUME NEW ses, NEW r, RxShape(r), ObjectsOK(r.objects), TombstonesOK(r.completed),
           IndexOK(DOMAIN r.objects, DOMAIN r.completed, r.logical_keys),
           OrderOK(DOMAIN r.completed, r.completed_order),
           CountsOK(r.objects, r.buffered_object_bytes, r.buffered_datagrams),
           ParentsOK(ses, r.objects), ParentsOK(ses, r.completed), ScanOK(r.next_expiry_scan)
    PROVE  RxOK(ses, r)
  BY Zenon DEF RxOK

\* The parts of RxOK one by one.
LEMMA RxOKParts ==
    ASSUME NEW ses, NEW r, RxOK(ses, r)
    PROVE  /\ RxShape(r) /\ ObjectsOK(r.objects) /\ TombstonesOK(r.completed)
           /\ IndexOK(DOMAIN r.objects, DOMAIN r.completed, r.logical_keys)
           /\ OrderOK(DOMAIN r.completed, r.completed_order)
           /\ CountsOK(r.objects, r.buffered_object_bytes, r.buffered_datagrams)
           /\ ParentsOK(ses, r.objects) /\ ParentsOK(ses, r.completed)
           /\ ScanOK(r.next_expiry_scan)
  BY Zenon DEF RxOK

\* The tombstones of two states are the same.
SameTombstones(s, r) ==
    s.completed = r.completed /\ s.completed_order = r.completed_order

\* The fields after objects were removed.
LEMMA RemoveFields ==
    ASSUME NEW r, RxShape(r), NEW gone, NEW s, s = RemoveActive(r, gone)
    PROVE  /\ RxShape(s) /\ s.objects = Without(r.objects, gone)
           /\ s.buffered_object_bytes =
                SaturatingSub(r.buffered_object_bytes, SumFunctionOnSet(Lengths(r.objects), gone))
           /\ s.buffered_datagrams =
                SaturatingSub(r.buffered_datagrams, SumFunctionOnSet(Retained(r.objects), gone))
           /\ s.logical_keys = r.logical_keys /\ SameTombstones(s, r)
           /\ s.next_expiry_scan = r.next_expiry_scan
<1>1. PICK b, d, w : /\ w = Without(r.objects, gone)
         /\ b = SaturatingSub(r.buffered_object_bytes, SumFunctionOnSet(Lengths(r.objects), gone))
         /\ d = SaturatingSub(r.buffered_datagrams, SumFunctionOnSet(Retained(r.objects), gone))
  OBVIOUS
<1>2. s = [r EXCEPT !.objects = w, !.buffered_object_bytes = b, !.buffered_datagrams = d]
  BY <1>1 DEF RemoveActive
<1>3. /\ RxShape(s) /\ s.objects = w /\ s.buffered_object_bytes = b /\ s.buffered_datagrams = d
      /\ s.logical_keys = r.logical_keys /\ SameTombstones(s, r)
      /\ s.next_expiry_scan = r.next_expiry_scan
  BY <1>2 DEF RxShape, SameTombstones
<1>. QED
  BY <1>1, <1>3

\* A part of the objects keeps its parents.
LEMMA ParentsOfPart ==
    ASSUME NEW ses, NEW t, ParentsOK(ses, t), NEW u, DOMAIN u \subseteq DOMAIN t,
           \A k \in DOMAIN u : u[k] = t[k]
    PROVE  ParentsOK(ses, u)
  BY DEF ParentsOK

\* expire: what lapsed goes, with its reservation and its identity.
LEMMA ExpireKeeps ==
    ASSUME NEW ses, NEW r, RxOK(ses, r), now \in 0 .. MaxTime, NEW s, s = Expire(r)
    PROVE  RxOK(ses, s) /\ SameTombstones(s, r)
<1>1. PICK gone : gone = LapsedKeys(r)
  OBVIOUS
<1>2. gone \in SUBSET DOMAIN r.objects
  BY <1>1 DEF LapsedKeys
<1>3. PICK t : t = RemoveActive(r, gone)
  OBVIOUS
<1>4. /\ RxShape(r) /\ ObjectsOK(r.objects) /\ TombstonesOK(r.completed)
      /\ IndexOK(DOMAIN r.objects, DOMAIN r.completed, r.logical_keys)
      /\ OrderOK(DOMAIN r.completed, r.completed_order)
      /\ CountsOK(r.objects, r.buffered_object_bytes, r.buffered_datagrams)
      /\ ParentsOK(ses, r.objects) /\ ParentsOK(ses, r.completed)
  BY RxOKParts
<1>5. /\ RxShape(t) /\ t.objects = Without(r.objects, gone)
      /\ t.buffered_object_bytes =
           SaturatingSub(r.buffered_object_bytes, SumFunctionOnSet(Lengths(r.objects), gone))
      /\ t.buffered_datagrams =
           SaturatingSub(r.buffered_datagrams, SumFunctionOnSet(Retained(r.objects), gone))
      /\ t.logical_keys = r.logical_keys /\ SameTombstones(t, r)
  BY <1>3, <1>4, RemoveFields
<1>6. PICK ob, b, d, l, n :
         /\ ob = t.objects /\ b = t.buffered_object_bytes /\ d = t.buffered_datagrams
         /\ l = Without(r.logical_keys, {LogicalOf[k] : k \in gone}) /\ n = now + ScanInterval
  OBVIOUS
<1>7. s = [t EXCEPT !.logical_keys = l, !.next_expiry_scan = n]
  <2>1. Forget(t, gone) = [t EXCEPT !.logical_keys = l]
    BY <1>5, <1>6 DEF Forget
  <2>2. s = [Forget(t, gone) EXCEPT !.next_expiry_scan = n]
    BY <1>1, <1>3, <1>6 DEF Expire
  <2>. QED
    BY <1>5, <2>1, <2>2 DEF RxShape
<1>8. /\ RxShape(s) /\ s.objects = ob /\ s.buffered_object_bytes = b /\ s.buffered_datagrams = d
      /\ s.logical_keys = l /\ s.next_expiry_scan = n /\ SameTombstones(s, t)
  BY <1>5, <1>6, <1>7 DEF RxShape, SameTombstones
<1>9. SameTombstones(s, r)
  BY <1>5, <1>8 DEF SameTombstones
<1>10. /\ ObjectsOK(ob) /\ CountsOK(ob, b, d)
       /\ DOMAIN ob = DOMAIN r.objects \ gone /\ \A k \in DOMAIN ob : ob[k] = r.objects[k]
  <2>1. PICK o2, b2, d2 : o2 = r.objects /\ b2 = r.buffered_object_bytes /\ d2 = r.buffered_datagrams
    OBVIOUS
  <2>2. /\ ObjectsOK(o2) /\ CountsOK(o2, b2, d2) /\ gone \in SUBSET DOMAIN o2
        /\ ob = Without(o2, gone)
        /\ b = SaturatingSub(b2, SumFunctionOnSet(Lengths(o2), gone))
        /\ d = SaturatingSub(d2, SumFunctionOnSet(Retained(o2), gone))
    BY <1>2, <1>4, <1>5, <1>6, <2>1
  <2>3. /\ ObjectsOK(ob) /\ CountsOK(ob, b, d)
        /\ DOMAIN ob = DOMAIN o2 \ gone /\ \A k \in DOMAIN ob : ob[k] = o2[k]
    BY <2>2, WithoutKeeps
  <2>. QED
    BY <2>1, <2>3
<1>11. IndexOK(DOMAIN ob, DOMAIN r.completed, l)
  <2>1. PICK O, C, m : O = DOMAIN r.objects /\ C = DOMAIN r.completed /\ m = r.logical_keys
    OBVIOUS
  <2>2. IndexOK(O, C, m) /\ l = Without(m, {LogicalOf[k] : k \in gone}) /\ gone \subseteq O \cup C
    BY <1>2, <1>4, <1>6, <2>1
  <2>3. IndexOK(O \ gone, C \ gone, l)
    BY <2>2, IndexForgets
  <2>4. C \ gone = C
    BY <1>2, <2>1, <2>2 DEF IndexOK
  <2>. QED
    BY <1>10, <2>1, <2>3, <2>4
<1>12. ParentsOK(ses, ob)
  BY <1>4, <1>10, ParentsOfPart
<1>13. ScanOK(n)
  BY <1>6, Limits DEF ScanOK
<1>. QED
  BY <1>4, <1>8, <1>9, <1>10, <1>11, <1>12, <1>13, RxOKFrom DEF SameTombstones

\* expire_if_due
LEMMA ExpireIfDueKeeps ==
    ASSUME NEW ses, NEW r, RxOK(ses, r), now \in 0 .. MaxTime, NEW s, s = ExpireIfDue(r)
    PROVE  RxOK(ses, s) /\ SameTombstones(s, r)
<1>1. s = r \/ s = Expire(r)
  BY DEF ExpireIfDue
<1>2. CASE s = r
  BY <1>2 DEF SameTombstones
<1>3. CASE s = Expire(r)
  BY <1>3, ExpireKeeps
<1>. QED
  BY <1>1, <1>2, <1>3

-----------------------------------------------------------------------------
(***************************************************************************)
(* Announcements.                                                          *)
(***************************************************************************)
\* s is registered in ses.
Known(ses, s) == s.id \in DOMAIN ses /\ ses[s.id] = s /\ s.id \in SessionIds

\* A session that may join makes the parents no less diverse.
LEMMA JoinDiverse ==
    ASSUME NEW s, Known(sessions, s), NEW P, NEW b, DiverseOK(sessions, P, b),
           s.binding = b, CanJoin(P, s)
    PROVE  DiverseOK(sessions, P \cup {s.id}, b)
<1>1. CASE s.id \in P
  <2>1. P \cup {s.id} = P
    BY <1>1
  <2>. QED
    BY <2>1
<1>2. CASE s.id \notin P
  <2>1. PICK i : i = s.id
    OBVIOUS
  <2>2. i \in DOMAIN sessions /\ sessions[i] = s
    BY <2>1 DEF Known
  <2>3. \A e \in P : /\ sessions[e].peer # s.peer \/ (sessions[e].controlled /\ s.controlled)
                     /\ sessions[e].path # s.path
    BY <1>2 DEF CanJoin
  <2>4. ASSUME NEW d \in P \cup {i}, NEW e \in P \cup {i}, d # e
        PROVE  /\ sessions[d].path # sessions[e].path
               /\ sessions[d].peer = sessions[e].peer
                    => sessions[d].controlled /\ sessions[e].controlled
    <3>1. CASE d \in P /\ e \in P
      BY <2>4, <3>1, Zenon DEF DiverseOK
    <3>2. CASE d = i /\ e \in P
      BY <2>2, <2>3, <3>2, Zenon
    <3>3. CASE d \in P /\ e = i
      BY <2>2, <2>3, <3>3, Zenon
    <3>. QED
      BY <2>4, <3>1, <3>2, <3>3
  <2>5. \A e \in P \cup {i} : e \in DOMAIN sessions /\ sessions[e].binding = b
    BY <2>2 DEF DiverseOK
  <2>. QED
    BY <2>1, <2>4, <2>5 DEF DiverseOK
<1>. QED
  BY <1>1, <1>2

\* A parent is added to a tombstone or an object, and an object is touched.
LEMMA AddParentTombstone ==
    ASSUME NEW s, s.id \in SessionIds, NEW c \in Tombstone
    PROVE  /\ AddParent(c, s) \in Tombstone
           /\ AddParent(c, s).parents = c.parents \cup {s.id}
           /\ AddParent(c, s).announcement = c.announcement
<1>1. PICK i \in SessionIds : i = s.id
  OBVIOUS
<1>2. AddParent(c, s) = [c EXCEPT !.parents = c.parents \cup {i}]
  BY <1>1 DEF AddParent, Tombstone
<1>. QED
  BY <1>1, <1>2 DEF Tombstone

\* The same of an active object.
LEMMA AddParentObject ==
    ASSUME NEW s, s.id \in SessionIds, NEW o \in Object, now \in 0 .. MaxTime,
           NEW v, v = Touched(AddParent(o, s))
    PROVE  /\ v \in Object /\ v.parents = o.parents \cup {s.id}
           /\ v.announcement = o.announcement /\ v.symbols = o.symbols
<1>1. PICK i \in SessionIds : i = s.id
  OBVIOUS
<1>2. AddParent(o, s) = [o EXCEPT !.parents = o.parents \cup {i}]
  BY <1>1 DEF AddParent, Object
<1>3. v = [o EXCEPT !.parents = o.parents \cup {i}, !.last_activity = now]
  BY <1>2 DEF Touched, Object
<1>4. o.parents \cup {i} \in SUBSET SessionIds
  BY DEF Object
<1>. QED
  BY <1>1, <1>3, <1>4 DEF Object

\* An announcement of a completed object adds a parent to its tombstone.
LEMMA RejoinKeeps ==
    ASSUME NEW r, RxOK(sessions, r), NEW s, Known(sessions, s), NEW a \in Announcement,
           a.profile.binding = s.binding, MayRejoin(r, s, a), NEW t, t = Rejoin(r, s, a)
    PROVE  RxOK(sessions, t) /\ t.completed_order = r.completed_order
<1>1. /\ RxShape(r) /\ ObjectsOK(r.objects) /\ TombstonesOK(r.completed)
      /\ IndexOK(DOMAIN r.objects, DOMAIN r.completed, r.logical_keys)
      /\ OrderOK(DOMAIN r.completed, r.completed_order)
      /\ CountsOK(r.objects, r.buffered_object_bytes, r.buffered_datagrams)
      /\ ParentsOK(sessions, r.objects) /\ ParentsOK(sessions, r.completed)
      /\ ScanOK(r.next_expiry_scan)
  BY RxOKParts
<1>2. PICK k, c : k = KeyOf(a) /\ c = r.completed
  OBVIOUS
<1>3. /\ k \in DOMAIN c /\ c[k].announcement = a /\ CanJoin(c[k].parents, s)
  BY <1>2 DEF MayRejoin
<1>4. PICK v : v = AddParent(c[k], s)
  OBVIOUS
<1>5. PICK c2 : c2 = [c EXCEPT ![k] = v]
  OBVIOUS
<1>6. t = [r EXCEPT !.completed = c2]
  BY <1>1, <1>2, <1>4, <1>5 DEF Rejoin, RxShape
<1>7. /\ RxShape(t) /\ t.completed = c2 /\ t.objects = r.objects /\ t.logical_keys = r.logical_keys
      /\ t.completed_order = r.completed_order
      /\ t.buffered_object_bytes = r.buffered_object_bytes
      /\ t.buffered_datagrams = r.buffered_datagrams /\ t.next_expiry_scan = r.next_expiry_scan
  BY <1>1, <1>6 DEF RxShape
<1>8. DOMAIN c2 = DOMAIN c /\ c2[k] = v /\ \A x \in DOMAIN c : x # k => c2[x] = c[x]
  BY <1>3, <1>5
<1>9. c[k] \in Tombstone /\ s.id \in SessionIds
  BY <1>1, <1>2, <1>3 DEF TombstonesOK, Known
<1>10. v \in Tombstone /\ v.parents = c[k].parents \cup {s.id} /\ v.announcement = a
  BY <1>3, <1>4, <1>9, AddParentTombstone
<1>11. TombstonesOK(c2)
  BY <1>1, <1>2, <1>8, <1>10 DEF TombstonesOK
<1>12. DiverseOK(sessions, v.parents, v.announcement.profile.binding)
  <2>1. PICK P, b : P = c[k].parents /\ b = a.profile.binding
    OBVIOUS
  <2>2. DiverseOK(sessions, P, b)
    BY <1>1, <1>2, <1>3, <2>1 DEF ParentsOK
  <2>3. DiverseOK(sessions, P \cup {s.id}, b)
    BY <1>3, <2>1, <2>2, JoinDiverse
  <2>. QED
    BY <1>10, <2>1, <2>3
<1>13. ParentsOK(sessions, c2)
  BY <1>1, <1>2, <1>8, <1>12 DEF ParentsOK
<1>. QED
  BY <1>1, <1>2, <1>7, <1>8, <1>11, <1>13, RxOKFrom

\* An announcement of an active object adds a parent to it.
LEMMA JoinKeeps ==
    ASSUME NEW r, RxOK(sessions, r), NEW s, Known(sessions, s), NEW a \in Announcement,
           now \in 0 .. MaxTime,
           a.profile.binding = s.binding, MayJoin(r, s, a), NEW t, t = Join(r, s, a)
    PROVE  RxOK(sessions, t) /\ t.completed_order = r.completed_order
<1>1. /\ RxShape(r) /\ ObjectsOK(r.objects) /\ TombstonesOK(r.completed)
      /\ IndexOK(DOMAIN r.objects, DOMAIN r.completed, r.logical_keys)
      /\ OrderOK(DOMAIN r.completed, r.completed_order)
      /\ CountsOK(r.objects, r.buffered_object_bytes, r.buffered_datagrams)
      /\ ParentsOK(sessions, r.objects) /\ ParentsOK(sessions, r.completed)
      /\ ScanOK(r.next_expiry_scan)
  BY RxOKParts
<1>2. PICK k, ob, by, dg : /\ k = KeyOf(a) /\ ob = r.objects
                           /\ by = r.buffered_object_bytes /\ dg = r.buffered_datagrams
  OBVIOUS
<1>3. /\ k \in DOMAIN ob /\ ob[k].announcement = a /\ CanJoin(ob[k].parents, s)
  BY <1>2 DEF MayJoin
<1>4. PICK v : v = Touched(AddParent(ob[k], s))
  OBVIOUS
<1>5. PICK o2 : o2 = [ob EXCEPT ![k] = v]
  OBVIOUS
<1>6. t = [r EXCEPT !.objects = o2]
  BY <1>1, <1>2, <1>4, <1>5 DEF Join, RxShape
<1>7. /\ RxShape(t) /\ t.objects = o2 /\ t.completed = r.completed /\ t.logical_keys = r.logical_keys
      /\ t.completed_order = r.completed_order
      /\ t.buffered_object_bytes = by /\ t.buffered_datagrams = dg
      /\ t.next_expiry_scan = r.next_expiry_scan
  BY <1>1, <1>2, <1>6 DEF RxShape
<1>8. /\ ob[k] \in Object /\ s.id \in SessionIds /\ KeyOf(ob[k].announcement) = k
      /\ IsFiniteSet(DOMAIN ob[k].symbols)
  BY <1>1, <1>2, <1>3 DEF ObjectsOK, ObjectOK, Known
<1>9. /\ v \in Object /\ v.parents = ob[k].parents \cup {s.id}
      /\ v.announcement = ob[k].announcement /\ v.symbols = ob[k].symbols
  <2>1. PICK o : o = ob[k]
    OBVIOUS
  <2>2. o \in Object /\ v = Touched(AddParent(o, s))
    BY <1>4, <1>8, <2>1
  <2>3. /\ v \in Object /\ v.parents = o.parents \cup {s.id}
        /\ v.announcement = o.announcement /\ v.symbols = o.symbols
    BY <1>8, <2>2, AddParentObject
  <2>. QED
    BY <2>1, <2>3
<1>10. ObjectOK(v, k) /\ LengthOf(v) = LengthOf(ob[k])
  BY <1>8, <1>9 DEF ObjectOK, LengthOf
<1>11. /\ ObjectsOK(o2) /\ CountsOK(o2, by, dg)
       /\ DOMAIN o2 = DOMAIN ob /\ o2[k] = v /\ \A x \in DOMAIN ob : x # k => o2[x] = ob[x]
  <2>0. ObjectsOK(ob) /\ CountsOK(ob, by, dg)
    BY <1>1, <1>2
  <2>1. PICK n \in Nat : n = 0
    OBVIOUS
  <2>2. /\ SumFunctionOnSet(Retained(ob), DOMAIN ob) \in Nat /\ Cardinality(DOMAIN ob[k].symbols) \in Nat
    BY <1>8, <2>0, ReservedTypes, SumRemove, FS_CardinalityType DEF NatOn
  <2>3. /\ dg + n = dg /\ dg + n <= MaxBuffered
        /\ Cardinality(DOMAIN v.symbols) = Cardinality(DOMAIN ob[k].symbols) + n
    BY <1>9, <2>0, <2>1, <2>2 DEF CountsOK
  <2>4. /\ ObjectsOK(o2) /\ CountsOK(o2, by, dg + n)
        /\ DOMAIN o2 = DOMAIN ob /\ o2[k] = v /\ \A x \in DOMAIN ob : x # k => o2[x] = ob[x]
    BY <1>3, <1>5, <1>10, <2>0, <2>3, UpdateKeeps
  <2>. QED
    BY <2>3, <2>4
<1>12. DiverseOK(sessions, v.parents, v.announcement.profile.binding)
  <2>1. PICK P, b : P = ob[k].parents /\ b = a.profile.binding
    OBVIOUS
  <2>2. DiverseOK(sessions, P, b)
    BY <1>1, <1>2, <1>3, <2>1 DEF ParentsOK
  <2>3. DiverseOK(sessions, P \cup {s.id}, b)
    BY <1>3, <2>1, <2>2, JoinDiverse
  <2>. QED
    BY <1>3, <1>9, <2>1, <2>3
<1>13. ParentsOK(sessions, o2)
  BY <1>1, <1>2, <1>11, <1>12 DEF ParentsOK
<1>. QED
  BY <1>1, <1>2, <1>7, <1>11, <1>13, RxOKFrom

\* The entry of an object that is announced for the first time.
LEMMA NewAssemblyFacts ==
    ASSUME NEW s, s.id \in SessionIds, NEW a \in Announcement, now \in 0 .. MaxTime,
           NEW v, v = NewAssembly(s, a)
    PROVE  /\ ObjectOK(v, KeyOf(a)) /\ v.parents = {s.id} /\ v.announcement = a
           /\ Cardinality(DOMAIN v.symbols) = 0 /\ LengthOf(v) = a.profile.length
<1>1. PICK e, i : e = EmptyMap /\ i = s.id
  OBVIOUS
<1>2. e \in [{} -> Contents] /\ DOMAIN e = {}
  BY <1>1 DEF EmptyMap
<1>3. e \in UNION {[S -> Contents] : S \in SUBSET Seqs}
  <2>1. {} \in SUBSET Seqs
    OBVIOUS
  <2>. QED
    BY <1>2, <2>1
<1>4. v = [announcement |-> a, parents |-> {i}, symbols |-> e, assembled |-> FALSE,
           last_activity |-> now]
  BY <1>1 DEF NewAssembly
<1>5. v \in Object
  BY <1>1, <1>3, <1>4 DEF Object
<1>6. IsFiniteSet({}) /\ Cardinality({}) = 0
  BY FS_EmptySet
<1>. QED
  BY <1>1, <1>2, <1>4, <1>5, <1>6 DEF ObjectOK, LengthOf

\* A new object is announced.
LEMMA StartKeeps ==
    ASSUME NEW r, RxOK(sessions, r), NEW s, Known(sessions, s), NEW a \in Announcement,
           now \in 0 .. MaxTime, AnnounceAdmissible(r, s, a), MayStart(r, s, a),
           NEW t, t = Start(r, s, a)
    PROVE  RxOK(sessions, t) /\ t.completed_order = r.completed_order
<1>1. /\ RxShape(r) /\ ObjectsOK(r.objects) /\ TombstonesOK(r.completed)
      /\ IndexOK(DOMAIN r.objects, DOMAIN r.completed, r.logical_keys)
      /\ OrderOK(DOMAIN r.completed, r.completed_order)
      /\ CountsOK(r.objects, r.buffered_object_bytes, r.buffered_datagrams)
      /\ ParentsOK(sessions, r.objects) /\ ParentsOK(sessions, r.completed)
      /\ ScanOK(r.next_expiry_scan)
  BY RxOKParts
<1>2. PICK k, ob, by, dg, l, v :
         /\ k = KeyOf(a) /\ ob = r.objects /\ v = NewAssembly(s, a)
         /\ by = r.buffered_object_bytes /\ dg = r.buffered_datagrams /\ l = r.logical_keys
  OBVIOUS
<1>3. /\ k \notin DOMAIN ob \cup DOMAIN r.completed /\ Cardinality(DOMAIN ob) < MaxActive
      /\ by + a.profile.length <= MaxBytes
  BY <1>2 DEF MayStart
<1>4. PICK o2, b2, l2 :
         o2 = With(ob, k, v) /\ b2 = by + a.profile.length /\ l2 = With(l, LogicalOf[k], k)
  OBVIOUS
<1>5. t = [r EXCEPT !.objects = o2, !.logical_keys = l2, !.buffered_object_bytes = b2]
  BY <1>1, <1>2, <1>4 DEF Start, RxShape
<1>6. /\ RxShape(t) /\ t.objects = o2 /\ t.completed = r.completed /\ t.logical_keys = l2
      /\ t.completed_order = r.completed_order
      /\ t.buffered_object_bytes = b2 /\ t.buffered_datagrams = dg
      /\ t.next_expiry_scan = r.next_expiry_scan
  BY <1>1, <1>2, <1>5 DEF RxShape
<1>7. k \in Keys
  BY <1>2, AnnouncementFacts
<1>8. /\ ObjectOK(v, k) /\ v.parents = {s.id} /\ v.announcement = a
      /\ Cardinality(DOMAIN v.symbols) = 0 /\ LengthOf(v) = a.profile.length
  <2>1. s.id \in SessionIds
    BY DEF Known
  <2>2. ObjectOK(v, KeyOf(a)) /\ v.parents = {s.id} /\ v.announcement = a
        /\ Cardinality(DOMAIN v.symbols) = 0 /\ LengthOf(v) = a.profile.length
    BY <1>2, <2>1, NewAssemblyFacts
  <2>. QED
    BY <1>2, <2>2
<1>9. /\ ObjectsOK(o2) /\ CountsOK(o2, by + LengthOf(v), dg)
      /\ DOMAIN o2 = DOMAIN ob \cup {k} /\ o2[k] = v /\ \A x \in DOMAIN ob : o2[x] = ob[x]
  <2>1. ObjectsOK(ob) /\ CountsOK(ob, by, dg) /\ k \notin DOMAIN ob /\ by + LengthOf(v) <= MaxBytes
    BY <1>1, <1>2, <1>3, <1>8
  <2>. QED
    BY <1>3, <1>4, <1>7, <1>8, <2>1, WithKeeps
<1>10. CountsOK(o2, b2, dg)
  BY <1>4, <1>8, <1>9
<1>11. IndexOK(DOMAIN o2, DOMAIN r.completed, l2)
  <2>1. PICK O, C : O = DOMAIN ob /\ C = DOMAIN r.completed
    OBVIOUS
  <2>2. IndexOK(O, C, l) /\ k \notin O \cup C
    BY <1>1, <1>2, <1>3, <2>1
  <2>3. LogicalOf[k] \in DOMAIN l => l[LogicalOf[k]] = k
    BY <1>2 DEF AnnounceAdmissible, Conflicting
  <2>4. IndexOK(O \cup {k}, C, l2)
    BY <1>4, <2>2, <2>3, IndexStarts
  <2>. QED
    BY <1>9, <2>1, <2>4
<1>12. DiverseOK(sessions, v.parents, v.announcement.profile.binding)
  <2>1. PICK i, b : i = s.id /\ b = a.profile.binding
    OBVIOUS
  <2>2. i \in DOMAIN sessions /\ sessions[i].binding = b
    BY <2>1 DEF Known, AnnounceAdmissible
  <2>3. DiverseOK(sessions, {i}, b)
    BY <2>2 DEF DiverseOK
  <2>. QED
    BY <1>8, <2>1, <2>3
<1>13. ParentsOK(sessions, o2)
  BY <1>1, <1>2, <1>9, <1>12 DEF ParentsOK
<1>. QED
  BY <1>1, <1>6, <1>9, <1>10, <1>11, <1>13, RxOKFrom

\* try_announce_object
LEMMA AnnouncedKeeps ==
    ASSUME NEW r, RxOK(sessions, r), NEW s, Known(sessions, s), NEW a \in Announcement,
           now \in 0 .. MaxTime, NEW t, t = Announced(r, s, a)
    PROVE  RxOK(sessions, t) /\ t.completed_order = r.completed_order
<1>1. CASE ~AnnounceOk(r, s, a)
  <2>1. t = r
    BY <1>1 DEF Announced
  <2>. QED
    BY <2>1
<1>2. CASE AnnounceOk(r, s, a)
  <2>1. AnnounceAdmissible(r, s, a) /\ a.profile.binding = s.binding
    BY <1>2 DEF AnnounceOk, AnnounceAdmissible
  <2>2. CASE MayRejoin(r, s, a)
    <3>1. t = Rejoin(r, s, a)
      BY <1>2, <2>2 DEF Announced
    <3>. QED
      BY <2>1, <2>2, <3>1, RejoinKeeps
  <2>3. CASE ~MayRejoin(r, s, a) /\ MayJoin(r, s, a)
    <3>1. t = Join(r, s, a)
      BY <1>2, <2>3 DEF Announced
    <3>. QED
      BY <2>1, <2>3, <3>1, JoinKeeps
  <2>4. CASE ~MayRejoin(r, s, a) /\ ~MayJoin(r, s, a)
    <3>1. t = Start(r, s, a) /\ MayStart(r, s, a)
      BY <1>2, <2>4 DEF Announced, AnnounceOk
    <3>. QED
      BY <2>1, <3>1, StartKeeps
  <2>. QED
    BY <2>2, <2>3, <2>4
<1>. QED
  BY <1>1, <1>2

-----------------------------------------------------------------------------
(***************************************************************************)
(* Symbols.                                                                *)
(***************************************************************************)
\* An object that retains one more symbol.
LEMMA AddSymbolFacts ==
    ASSUME NEW k, NEW o, ObjectOK(o, k), NEW y \in Symbol, y.seq \notin DOMAIN o.symbols,
           NEW assembled \in BOOLEAN, now \in 0 .. MaxTime,
           NEW v, v = Touched(AddSymbol(o, y, assembled))
    PROVE  /\ ObjectOK(v, k) /\ v.parents = o.parents /\ v.announcement = o.announcement
           /\ Cardinality(DOMAIN v.symbols) = Cardinality(DOMAIN o.symbols) + 1
<1>1. /\ o \in Object /\ KeyOf(o.announcement) = k /\ IsFiniteSet(DOMAIN o.symbols)
  BY DEF ObjectOK
<1>2. PICK f, q, c : f = o.symbols /\ q = y.seq /\ c = y.content
  OBVIOUS
<1>3. q \in Seqs /\ c \in Contents /\ q \notin DOMAIN f /\ IsFiniteSet(DOMAIN f)
  BY <1>1, <1>2 DEF Symbol
<1>4. PICK S \in SUBSET Seqs : f \in [S -> Contents]
  BY <1>1, <1>2 DEF Object
<1>5. PICK g : g = With(f, q, c)
  OBVIOUS
<1>6. g \in [S \cup {q} -> Contents] /\ DOMAIN g = DOMAIN f \cup {q}
  BY <1>3, <1>4, <1>5 DEF With
<1>7. g \in UNION {[U -> Contents] : U \in SUBSET Seqs}
  <2>1. S \cup {q} \in SUBSET Seqs
    BY <1>3
  <2>. QED
    BY <1>6, <2>1
<1>8. IsFiniteSet(DOMAIN g) /\ Cardinality(DOMAIN g) = Cardinality(DOMAIN f) + 1
  BY <1>3, <1>6, FS_AddElement
<1>9. AddSymbol(o, y, assembled) = [o EXCEPT !.symbols = g, !.assembled = assembled]
  BY <1>1, <1>2, <1>5 DEF AddSymbol, Object
<1>10. v = [o EXCEPT !.symbols = g, !.assembled = assembled, !.last_activity = now]
  BY <1>1, <1>9 DEF Touched, Object
<1>11. /\ v \in Object /\ v.symbols = g /\ v.parents = o.parents /\ v.announcement = o.announcement
  BY <1>1, <1>7, <1>10 DEF Object
<1>. QED
  BY <1>1, <1>2, <1>8, <1>11 DEF ObjectOK

\* A fresh symbol is retained and counted.
LEMMA AdmitKeeps ==
    ASSUME NEW ses, NEW r, RxOK(ses, r), NEW s, NEW y \in Symbol, Fresh(r, s, y),
           now \in 0 .. MaxTime, NEW assembled \in BOOLEAN, NEW t, t = Admit(r, y, assembled)
    PROVE  /\ RxOK(ses, t) /\ SameTombstones(t, r) /\ DOMAIN t.objects = DOMAIN r.objects
<1>1. /\ RxShape(r) /\ ObjectsOK(r.objects) /\ TombstonesOK(r.completed)
      /\ IndexOK(DOMAIN r.objects, DOMAIN r.completed, r.logical_keys)
      /\ OrderOK(DOMAIN r.completed, r.completed_order)
      /\ CountsOK(r.objects, r.buffered_object_bytes, r.buffered_datagrams)
      /\ ParentsOK(ses, r.objects) /\ ParentsOK(ses, r.completed)
      /\ ScanOK(r.next_expiry_scan)
  BY RxOKParts
<1>2. PICK k, ob, by, dg : /\ k = y.profile.key /\ ob = r.objects
                           /\ by = r.buffered_object_bytes /\ dg = r.buffered_datagrams
  OBVIOUS
<1>3. k \in DOMAIN ob /\ y.seq \notin DOMAIN ob[k].symbols /\ dg < MaxBuffered
  BY <1>2 DEF Fresh
<1>4. PICK v : v = Touched(AddSymbol(ob[k], y, assembled))
  OBVIOUS
<1>5. PICK o2, d2 : o2 = [ob EXCEPT ![k] = v] /\ d2 = dg + 1
  OBVIOUS
<1>6. t = [r EXCEPT !.objects = o2, !.buffered_datagrams = d2]
  BY <1>1, <1>2, <1>4, <1>5 DEF Admit, RxShape
<1>7. /\ RxShape(t) /\ t.objects = o2 /\ t.completed = r.completed /\ t.logical_keys = r.logical_keys
      /\ t.completed_order = r.completed_order
      /\ t.buffered_object_bytes = by /\ t.buffered_datagrams = d2
      /\ t.next_expiry_scan = r.next_expiry_scan
  BY <1>1, <1>2, <1>6 DEF RxShape
<1>8. ObjectOK(ob[k], k)
  BY <1>1, <1>2, <1>3 DEF ObjectsOK
<1>9. /\ ObjectOK(v, k) /\ v.parents = ob[k].parents /\ v.announcement = ob[k].announcement
      /\ Cardinality(DOMAIN v.symbols) = Cardinality(DOMAIN ob[k].symbols) + 1
  <2>1. PICK o : o = ob[k]
    OBVIOUS
  <2>2. ObjectOK(o, k) /\ y.seq \notin DOMAIN o.symbols /\ v = Touched(AddSymbol(o, y, assembled))
    BY <1>3, <1>4, <1>8, <2>1
  <2>3. /\ ObjectOK(v, k) /\ v.parents = o.parents /\ v.announcement = o.announcement
        /\ Cardinality(DOMAIN v.symbols) = Cardinality(DOMAIN o.symbols) + 1
    BY <2>2, AddSymbolFacts
  <2>. QED
    BY <2>1, <2>3
<1>10. /\ ObjectsOK(o2) /\ CountsOK(o2, by, d2)
       /\ DOMAIN o2 = DOMAIN ob /\ o2[k] = v /\ \A x \in DOMAIN ob : x # k => o2[x] = ob[x]
  <2>1. ObjectsOK(ob) /\ CountsOK(ob, by, dg)
    BY <1>1, <1>2
  <2>2. dg \in Nat
    <3>1. SumFunctionOnSet(Retained(ob), DOMAIN ob) \in Nat
      BY <2>1, ReservedTypes, SumRemove DEF NatOn
    <3>. QED
      BY <2>1, <3>1 DEF CountsOK
  <2>3. PICK n \in Nat : n = 1
    OBVIOUS
  <2>4. /\ dg + n = d2 /\ dg + n <= MaxBuffered /\ LengthOf(v) = LengthOf(ob[k])
        /\ Cardinality(DOMAIN v.symbols) = Cardinality(DOMAIN ob[k].symbols) + n
    BY <1>3, <1>5, <1>9, <2>2, <2>3, Limits DEF LengthOf
  <2>5. /\ ObjectsOK(o2) /\ CountsOK(o2, by, dg + n)
        /\ DOMAIN o2 = DOMAIN ob /\ o2[k] = v /\ \A x \in DOMAIN ob : x # k => o2[x] = ob[x]
    BY <1>3, <1>5, <1>9, <2>1, <2>4, UpdateKeeps
  <2>. QED
    BY <2>4, <2>5
<1>11. ParentsOK(ses, o2)
  BY <1>1, <1>2, <1>3, <1>9, <1>10 DEF ParentsOK
<1>. QED
  BY <1>1, <1>2, <1>7, <1>10, <1>11, RxOKFrom DEF SameTombstones

\* How many tombstones make room for a new one.
Room(o) == IF Len(o) >= MaxCompleted THEN Len(o) - MaxCompleted + 1 ELSE 0

\* A decoded object becomes a tombstone: its reservation goes, its identity stays.
LEMMA CompleteKeeps ==
    ASSUME NEW ses, NEW r, RxOK(ses, r), NEW k \in DOMAIN r.objects,
           NEW t, t = Complete(r, k)
    PROVE  /\ RxOK(ses, t)
           /\ t.completed_order = Requeued(r.completed_order, Room(r.completed_order), k)
<1>1. /\ RxShape(r) /\ ObjectsOK(r.objects) /\ TombstonesOK(r.completed)
      /\ IndexOK(DOMAIN r.objects, DOMAIN r.completed, r.logical_keys)
      /\ OrderOK(DOMAIN r.completed, r.completed_order)
      /\ CountsOK(r.objects, r.buffered_object_bytes, r.buffered_datagrams)
      /\ ParentsOK(ses, r.objects) /\ ParentsOK(ses, r.completed)
      /\ ScanOK(r.next_expiry_scan)
  BY RxOKParts
<1>2. PICK a : a = RemoveActive(r, {k})
  OBVIOUS
<1>3. /\ RxShape(a) /\ a.objects = Without(r.objects, {k})
      /\ a.buffered_object_bytes =
           SaturatingSub(r.buffered_object_bytes, SumFunctionOnSet(Lengths(r.objects), {k}))
      /\ a.buffered_datagrams =
           SaturatingSub(r.buffered_datagrams, SumFunctionOnSet(Retained(r.objects), {k}))
      /\ a.logical_keys = r.logical_keys /\ a.completed = r.completed
      /\ a.completed_order = r.completed_order /\ a.next_expiry_scan = r.next_expiry_scan
  BY <1>1, <1>2, RemoveFields DEF SameTombstones
<1>4. PICK ob, c, o, l, v, n :
         /\ ob = r.objects /\ c = r.completed /\ o = r.completed_order /\ l = r.logical_keys
         /\ v = [announcement |-> r.objects[k].announcement, parents |-> r.objects[k].parents]
         /\ n = Room(r.completed_order)
  OBVIOUS
<1>5. /\ OrderOK(DOMAIN c, o) /\ IndexOK(DOMAIN ob, DOMAIN c, l) /\ k \in DOMAIN ob
      /\ ObjectsOK(ob) /\ TombstonesOK(c)
  BY <1>1, <1>4
<1>6. Cardinality(DOMAIN c) = Len(o) /\ Len(o) \in Nat
  <2>1. o \in Seq(Keys) /\ Once(o) /\ DOMAIN c = {o[i] : i \in 1 .. Len(o)}
    BY <1>5 DEF OrderOK
  <2>2. Cardinality({o[i] : i \in 1 .. Len(o)}) = Len(o)
    BY <2>1, CountOnce
  <2>3. Len(o) \in Nat
    BY <2>1
  <2>. QED
    BY <2>1, <2>2, <2>3, Zenon
<1>7. n \in 0 .. Len(o)
  BY <1>4, <1>6, Limits DEF Room
<1>8. PICK gone, c2, o2, l2 :
         /\ gone = FirstOf(o, n) /\ l2 = Without(l, {LogicalOf[x] : x \in gone})
         /\ c2 = With(Without(c, gone), k, v) /\ o2 = Requeued(o, n, k)
  OBVIOUS
<1>9. t = [a EXCEPT !.logical_keys = l2, !.completed = c2, !.completed_order = o2]
  <2>1. t = InsertCompleted(a, k, v)
    BY <1>2, <1>4 DEF Complete
  <2>2. n = IF Cardinality(DOMAIN a.completed) >= MaxCompleted
            THEN Cardinality(DOMAIN a.completed) - MaxCompleted + 1 ELSE 0
    BY <1>3, <1>4, <1>6 DEF Room
  <2>3. gone = {a.completed_order[i] : i \in 1 .. n}
    BY <1>3, <1>4, <1>8 DEF FirstOf
  <2>4. Forget(a, gone) = [a EXCEPT !.logical_keys = l2]
    BY <1>3, <1>4, <1>8 DEF Forget
  <2>5. t = [Forget(a, gone) EXCEPT !.completed = With(Without(@, gone), k, v),
                                    !.completed_order = Append(SubSeq(@, n + 1, Len(@)), k)]
    BY <2>1, <2>2, <2>3 DEF InsertCompleted
  <2>6. PICK q : q = Forget(a, gone)
    OBVIOUS
  <2>7. q = [a EXCEPT !.logical_keys = l2]
    BY <2>4, <2>6, Zenon
  <2>8. q.completed = c /\ q.completed_order = o
    BY <1>3, <1>4, <2>7 DEF RxShape
  <2>9. t = [q EXCEPT !.completed = c2, !.completed_order = o2]
    BY <1>8, <2>5, <2>6, <2>8 DEF Requeued
  <2>. QED
    BY <1>3, <2>7, <2>9 DEF RxShape
<1>10. /\ RxShape(t) /\ t.objects = a.objects /\ t.logical_keys = l2 /\ t.completed = c2
       /\ t.completed_order = o2 /\ t.buffered_object_bytes = a.buffered_object_bytes
       /\ t.buffered_datagrams = a.buffered_datagrams /\ t.next_expiry_scan = r.next_expiry_scan
  BY <1>3, <1>9 DEF RxShape
<1>11. /\ ObjectsOK(t.objects) /\ CountsOK(t.objects, t.buffered_object_bytes, t.buffered_datagrams)
       /\ DOMAIN t.objects = DOMAIN ob \ {k} /\ \A x \in DOMAIN t.objects : t.objects[x] = ob[x]
  <2>1. PICK by, dg, rest, b, d, one :
           /\ by = r.buffered_object_bytes /\ dg = r.buffered_datagrams /\ rest = t.objects
           /\ b = t.buffered_object_bytes /\ d = t.buffered_datagrams /\ one = {k}
    OBVIOUS
  <2>2. /\ CountsOK(ob, by, dg) /\ one \in SUBSET DOMAIN ob /\ rest = Without(ob, one)
        /\ b = SaturatingSub(by, SumFunctionOnSet(Lengths(ob), one))
        /\ d = SaturatingSub(dg, SumFunctionOnSet(Retained(ob), one))
    BY <1>1, <1>3, <1>4, <1>5, <1>10, <2>1
  <2>3. /\ ObjectsOK(rest) /\ CountsOK(rest, b, d)
        /\ DOMAIN rest = DOMAIN ob \ one /\ \A x \in DOMAIN rest : rest[x] = ob[x]
    BY <1>5, <2>2, WithoutKeeps
  <2>. QED
    BY <2>1, <2>3
<1>12. k \in Keys /\ k \notin DOMAIN c
  BY <1>5 DEF ObjectsOK, IndexOK
<1>13. gone \subseteq DOMAIN c /\ OrderOK((DOMAIN c \ gone) \cup {k}, o2)
  <2>1. PICK C : C = DOMAIN c
    OBVIOUS
  <2>2. OrderOK(C, o) /\ k \notin C
    BY <1>5, <1>12, <2>1
  <2>3. gone \subseteq C /\ OrderOK((C \ gone) \cup {k}, o2)
    BY <1>7, <1>8, <1>12, <2>2, OrderRequeued
  <2>. QED
    BY <2>1, <2>3
<1>14. /\ DOMAIN c2 = (DOMAIN c \ gone) \cup {k} /\ c2[k] = v
       /\ \A x \in DOMAIN c \ gone : c2[x] = c[x]
  BY <1>8, <1>12 DEF With, Without
<1>15. IndexOK(DOMAIN t.objects, DOMAIN c2, l2)
  <2>1. PICK O, C : O = DOMAIN ob /\ C = DOMAIN c
    OBVIOUS
  <2>2. IndexOK(O, C, l) /\ k \in O /\ gone \subseteq C
    BY <1>5, <1>13, <2>1
  <2>3. IndexOK(O \ gone, C \ gone, l2)
    <3>1. gone \subseteq O \cup C
      BY <2>2
    <3>. QED
      BY <1>8, <2>2, <3>1, IndexForgets
  <2>4. O \ gone = O
    BY <2>2 DEF IndexOK
  <2>5. IndexOK(O \ {k}, (C \ gone) \cup {k}, l2)
    <3>1. PICK D : D = C \ gone
      OBVIOUS
    <3>2. IndexOK(O, D, l2)
      BY <2>3, <2>4, <3>1
    <3>3. IndexOK(O \ {k}, D \cup {k}, l2)
      BY <2>2, <3>2, IndexCompletes
    <3>. QED
      BY <3>1, <3>3
  <2>. QED
    BY <1>11, <1>14, <2>1, <2>5
<1>16. v \in Tombstone /\ v.parents = ob[k].parents /\ v.announcement = ob[k].announcement
  <2>1. ob[k] \in Object
    BY <1>5 DEF ObjectsOK, ObjectOK
  <2>2. ob[k].announcement \in Announcement /\ ob[k].parents \in SUBSET SessionIds
    BY <2>1 DEF Object
  <2>. QED
    BY <1>4, <2>2 DEF Tombstone
<1>17. TombstonesOK(c2)
  BY <1>5, <1>12, <1>14, <1>16 DEF TombstonesOK
<1>18. ParentsOK(ses, t.objects)
  <2>1. ParentsOK(ses, ob) /\ DOMAIN t.objects \subseteq DOMAIN ob
    BY <1>1, <1>4, <1>11
  <2>. QED
    BY <1>11, <2>1, ParentsOfPart
<1>19. ParentsOK(ses, c2)
  BY <1>1, <1>4, <1>14, <1>16 DEF ParentsOK
<1>20. t.completed_order = Requeued(r.completed_order, Room(r.completed_order), k)
  BY <1>4, <1>8, <1>10
<1>21. OrderOK(DOMAIN c2, o2)
  BY <1>13, <1>14
<1>. QED
  BY <1>1, <1>10, <1>11, <1>15, <1>17, <1>18, <1>19, <1>20, <1>21, RxOKFrom

\* The order of the tombstones stays the end of the history of deliveries.
LEMMA RecentRequeued ==
    ASSUME NEW C, NEW o, OrderOK(C, o), NEW d, Recent(o, d), NEW k \in Keys, k \notin C
    PROVE  Recent(Requeued(o, Room(o), k), Append(d, k))
<1>1. PICK n, p, e : n = Room(o) /\ p = Requeued(o, n, k) /\ e = Append(d, k)
  OBVIOUS
<1>2. /\ o \in Seq(Keys) /\ Len(o) \in Nat /\ d \in Seq(Keys) /\ Len(d) \in Nat
      /\ Len(o) = IF Len(d) < MaxCompleted THEN Len(d) ELSE MaxCompleted
      /\ \A i \in 1 .. Len(o) : o[i] = d[Len(d) - Len(o) + i]
  BY DEF OrderOK, Recent
<1>3. n \in 0 .. Len(o) /\ n = (IF Len(d) < MaxCompleted THEN 0 ELSE 1)
  BY <1>1, <1>2, Limits DEF Room
<1>4. /\ Len(p) = Len(o) - n + 1 /\ p[Len(p)] = k
      /\ \A i \in 1 .. (Len(o) - n) : p[i] = o[n + i]
  <2>1. Follows(Requeued(o, n, k), o, n, k)
    BY <1>3, OrderRequeued
  <2>. QED
    BY <1>1, <2>1 DEF Follows
<1>5. /\ e \in Seq(Keys) /\ Len(e) = Len(d) + 1 /\ e[Len(d) + 1] = k
      /\ \A i \in 1 .. Len(d) : e[i] = d[i]
  BY <1>1, <1>2
<1>0. PICK lo, ld, lp, le, max : /\ lo = Len(o) /\ ld = Len(d) /\ lp = Len(p) /\ le = Len(e)
                                 /\ max = MaxCompleted
  OBVIOUS
<1>10. /\ lo \in Nat /\ ld \in Nat /\ max \in Nat /\ max >= 1 /\ n \in Int
      /\ lo = (IF ld < max THEN ld ELSE max) /\ n = (IF ld < max THEN 0 ELSE 1)
      /\ lp = lo - n + 1 /\ le = ld + 1
  BY <1>0, <1>2, <1>3, <1>4, <1>5, Limits
<1>6. Len(p) = IF Len(e) < MaxCompleted THEN Len(e) ELSE MaxCompleted
  <2>1. lp = IF le < max THEN le ELSE max
    BY <1>10
  <2>. QED
    BY <1>0, <2>1
<1>7. ASSUME NEW i \in 1 .. Len(p)
      PROVE  p[i] = e[Len(e) - Len(p) + i]
  <2>1. CASE i = Len(p)
    <3>1. Len(e) - Len(p) + i = Len(d) + 1
      BY <1>2, <1>3, <1>4, <1>5, <2>1
    <3>. QED
      BY <1>4, <1>5, <2>1, <3>1
  <2>2. CASE i # Len(p)
    <3>1. i \in 1 .. (Len(o) - n) /\ n + i \in 1 .. Len(o)
      BY <1>2, <1>3, <1>4, <2>2
    <3>2. p[i] = d[Len(d) - Len(o) + (n + i)]
      BY <1>2, <1>4, <3>1
    <3>3. /\ Len(e) - Len(p) + i = Len(d) - Len(o) + (n + i)
          /\ Len(d) - Len(o) + (n + i) \in 1 .. Len(d)
      <4>1. i \in Int /\ 1 <= i /\ i <= lo - n
        BY <1>0, <1>10, <3>1
      <4>2. le - lp + i = ld - lo + (n + i) /\ ld - lo + (n + i) \in 1 .. ld
        BY <1>10, <4>1
      <4>. QED
        BY <1>0, <4>2
    <3>. QED
      BY <1>5, <3>2, <3>3
  <2>. QED
    BY <2>1, <2>2
<1>. QED
  BY <1>1, <1>5, <1>6, <1>7 DEF Recent

\* An active object was not delivered, under any key of its identity, among the
\* last MaxCompleted.
LEMMA OnceDelivered ==
    ASSUME NEW O, NEW C, NEW l, IndexOK(O, C, l), NEW o, OrderOK(C, o),
           NEW d, Recent(o, d), OnceOK(d), NEW k \in O, k \in Keys
    PROVE  OnceOK(Append(d, k))
<1>1. PICK e : e = Append(d, k)
  OBVIOUS
<1>2. /\ o \in Seq(Keys) /\ Len(o) \in Nat /\ d \in Seq(Keys) /\ Len(d) \in Nat
      /\ Len(o) = IF Len(d) < MaxCompleted THEN Len(d) ELSE MaxCompleted
      /\ \A i \in 1 .. Len(o) : o[i] = d[Len(d) - Len(o) + i] /\ o[i] \in C
  BY DEF OrderOK, Recent
<1>3. /\ Len(e) = Len(d) + 1 /\ e[Len(d) + 1] = k /\ \A i \in 1 .. Len(d) : e[i] = d[i]
  BY <1>1, <1>2
<1>. SUFFICES ASSUME NEW i \in 1 .. (Len(d) + 1), NEW j \in 1 .. (Len(d) + 1), i < j,
                     LogicalOf[e[i]] = LogicalOf[e[j]]
              PROVE  j - i > MaxCompleted
  BY <1>1, <1>3 DEF OnceOK
<1>4. i \in 1 .. Len(d) /\ e[i] = d[i]
  BY <1>2, <1>3
<1>5. CASE j \in 1 .. Len(d)
  BY <1>3, <1>4, <1>5 DEF OnceOK
<1>6. CASE j = Len(d) + 1
  <2>1. LogicalOf[d[i]] = LogicalOf[k]
    BY <1>3, <1>4, <1>6
  <2>2. SUFFICES ASSUME ~(j - i > MaxCompleted) PROVE FALSE
    OBVIOUS
  <2>3. PICK m : m = i - (Len(d) - Len(o))
    OBVIOUS
  <2>4. m \in 1 .. Len(o) /\ Len(d) - Len(o) + m = i
    <3>1. PICK lo, ld, max : lo = Len(o) /\ ld = Len(d) /\ max = MaxCompleted
      OBVIOUS
    <3>2. /\ lo \in Nat /\ ld \in Nat /\ max \in Nat /\ i \in 1 .. ld /\ j = ld + 1 /\ ~(j - i > max)
          /\ lo = (IF ld < max THEN ld ELSE max) /\ m = i - (ld - lo)
      BY <1>2, <1>4, <1>6, <2>2, <2>3, <3>1, Limits
    <3>3. m \in 1 .. lo /\ ld - lo + m = i
      BY <3>2
    <3>. QED
      BY <3>1, <3>3
  <2>5. d[i] \in C
    BY <1>2, <2>4
  <2>6. d[i] = k
    BY <2>1, <2>5 DEF IndexOK
  <2>. QED
    BY <2>5, <2>6 DEF IndexOK
<1>7. j \in 1 .. Len(d) \/ j = Len(d) + 1
  <2>1. PICK ld \in Nat : ld = Len(d)
    BY <1>2
  <2>2. j \in 1 .. (ld + 1)
    BY <2>1
  <2>3. j \in 1 .. ld \/ j = ld + 1
    BY <2>2
  <2>. QED
    BY <2>1, <2>3
<1>. QED
  BY <1>5, <1>6, <1>7

\* The history after a step: unchanged with the order of the tombstones, or one
\* more key whose object was active.
DeliveredStep(t, r, d, e) ==
    \/ t.completed_order = r.completed_order /\ e = d
    \/ \E k \in DOMAIN r.objects :
          /\ e = Append(d, k)
          /\ t.completed_order = Requeued(r.completed_order, Room(r.completed_order), k)

\* try_push_wire_datagram, and what it delivers.
LEMMA PushedKeeps ==
    ASSUME NEW ses, NEW r, RxOK(ses, r), now \in 0 .. MaxTime, NEW s, NEW y \in Symbol,
           NEW result, NEW t, t = Pushed(r, s, y, result),
           NEW d, NEW e, e = IF Decodes(r, s, y, result) THEN Append(d, y.profile.key) ELSE d
    PROVE  RxOK(ses, t) /\ DeliveredStep(t, r, d, e)
<1>1. CASE PastTombstones(r, s, y) /\ Late(y.profile)
  <2>1. t = Expire(r)
    BY <1>1 DEF Pushed
  <2>2. ~Decodes(r, s, y, result)
    BY <1>1 DEF Decodes, Fresh
  <2>3. RxOK(ses, t) /\ SameTombstones(t, r)
    BY <2>1, ExpireKeeps
  <2>. QED
    BY <2>2, <2>3 DEF DeliveredStep, SameTombstones
<1>2. CASE ~(PastTombstones(r, s, y) /\ Late(y.profile)) /\ (~Fresh(r, s, y) \/ result = "error")
  <2>1. t = r
    BY <1>2 DEF Pushed
  <2>2. ~Decodes(r, s, y, result)
    BY <1>2 DEF Decodes
  <2>. QED
    BY <2>1, <2>2 DEF DeliveredStep
<1>3. CASE ~(PastTombstones(r, s, y) /\ Late(y.profile)) /\ Fresh(r, s, y) /\ result # "error"
  <2>1. CASE Decodes(r, s, y, result)
    <3>1. PICK m, k : m = Admit(r, y, TRUE) /\ k = y.profile.key
      OBVIOUS
    <3>2. t = Complete(m, k)
      BY <1>3, <2>1, <3>1 DEF Pushed
    <3>3. RxOK(ses, m) /\ SameTombstones(m, r) /\ DOMAIN m.objects = DOMAIN r.objects
      BY <1>3, <3>1, AdmitKeeps
    <3>4. k \in DOMAIN r.objects
      BY <1>3, <3>1 DEF Fresh
    <3>5. /\ RxOK(ses, t)
          /\ t.completed_order = Requeued(m.completed_order, Room(m.completed_order), k)
      BY <3>2, <3>3, <3>4, CompleteKeeps
    <3>. QED
      BY <2>1, <3>1, <3>3, <3>4, <3>5 DEF DeliveredStep, SameTombstones
  <2>2. CASE ~Decodes(r, s, y, result)
    <3>1. PICK a \in BOOLEAN : a = (r.objects[y.profile.key].assembled \/ result = "object")
      BY Zenon
    <3>2. t = Admit(r, y, a)
      BY <1>3, <2>2, <3>1, Zenon DEF Pushed
    <3>3. RxOK(ses, t) /\ SameTombstones(t, r)
      BY <1>3, <3>2, AdmitKeeps
    <3>. QED
      BY <2>2, <3>3 DEF DeliveredStep, SameTombstones
  <2>. QED
    BY <2>1, <2>2
<1>. QED
  BY <1>1, <1>2, <1>3

\* What was delivered stays within the promise.
LEMMA DeliveredKeeps ==
    ASSUME NEW ses, NEW r, RxOK(ses, r), NEW t, NEW d, NEW e, DeliveredStep(t, r, d, e),
           Recent(r.completed_order, d), OnceOK(d)
    PROVE  Recent(t.completed_order, e) /\ OnceOK(e)
<1>1. CASE t.completed_order = r.completed_order /\ e = d
  BY <1>1
<1>2. ASSUME NEW k \in DOMAIN r.objects, e = Append(d, k),
             t.completed_order = Requeued(r.completed_order, Room(r.completed_order), k)
      PROVE  Recent(t.completed_order, e) /\ OnceOK(e)
  <2>1. PICK O, C, l, o : /\ O = DOMAIN r.objects /\ C = DOMAIN r.completed
                          /\ l = r.logical_keys /\ o = r.completed_order
    OBVIOUS
  <2>2. IndexOK(O, C, l) /\ OrderOK(C, o) /\ ObjectsOK(r.objects)
    BY <2>1, RxOKParts
  <2>3. k \in O /\ k \in Keys /\ k \notin C
    BY <2>1, <2>2 DEF ObjectsOK, IndexOK
  <2>4. Recent(Requeued(o, Room(o), k), Append(d, k))
    BY <2>1, <2>2, <2>3, RecentRequeued
  <2>5. OnceOK(Append(d, k))
    BY <2>1, <2>2, <2>3, OnceDelivered
  <2>. QED
    BY <1>2, <2>1, <2>4, <2>5
<1>. QED
  BY <1>1, <1>2 DEF DeliveredStep

-----------------------------------------------------------------------------
(***************************************************************************)
(* The calls.                                                              *)
(***************************************************************************)
\* The invariant after a call of the receiver, from its parts.
LEMMA IngressInvAfter ==
    ASSUME IngressInv, RxOK(sessions, rx'), UNCHANGED <<sessions, now>>,
           Recent(rx'.completed_order, delivered'), OnceOK(delivered')
    PROVE  IngressInv'
<1>1. SessionsOK(sessions) /\ now \in 0 .. MaxTime
  BY DEF IngressInv
<1>2. SessionsOK(sessions') /\ RxOK(sessions', rx') /\ now' \in 0 .. MaxTime
  BY <1>1
<1>3. /\ SessionsOK(sessions)' /\ RxOK(sessions, rx)'
      /\ Recent(rx.completed_order, delivered)' /\ OnceOK(delivered)'
  BY <1>2 DEF SessionsOK, RxOK, Recent, OnceOK, RxShape, ObjectsOK, ObjectOK, TombstonesOK, IndexOK,
              OrderOK, CountsOK, ParentsOK, DiverseOK, ScanOK
<1>. QED
  BY <1>2, <1>3 DEF IngressInv

\* A session that has an id in the table is known.
LEMMA SessionKnown ==
    ASSUME SessionsOK(sessions), NEW id \in DOMAIN sessions, NEW s, s = sessions[id]
    PROVE  Known(sessions, s)
  BY DEF SessionsOK, Known

\* register_parent_session keeps what is known.
LEMMA RegisterKeeps ==
    ASSUME IngressInv, NEW s \in SessionRecords, RegisterSession(s)
    PROVE  IngressInv'
<1>1. CASE sessions' = sessions
  <2>1. RxOK(sessions, rx') /\ Recent(rx'.completed_order, delivered') /\ OnceOK(delivered')
    BY DEF IngressInv, RegisterSession
  <2>. QED
    BY <1>1, <2>1, IngressInvAfter DEF RegisterSession
<1>2. CASE s.id \notin DOMAIN sessions /\ sessions' = With(sessions, s.id, s)
  <2>1. PICK ses, i : ses = sessions' /\ i = s.id
    OBVIOUS
  <2>2. /\ DOMAIN ses = DOMAIN sessions \cup {i} /\ ses[i] = s
        /\ \A e \in DOMAIN sessions : ses[e] = sessions[e]
    BY <1>2, <2>1 DEF With
  <2>3. SessionsOK(ses)
    <3>1. i \in SessionIds
      BY <2>1 DEF SessionIds
    <3>. QED
      BY <2>1, <2>2, <3>1 DEF SessionsOK, IngressInv
  <2>4. ASSUME NEW P, NEW b, DiverseOK(sessions, P, b)
        PROVE  DiverseOK(ses, P, b)
    <3>1. P \subseteq DOMAIN sessions /\ P # {}
      BY <2>4 DEF DiverseOK
    <3>2. P \subseteq DOMAIN ses /\ \A e \in P : ses[e] = sessions[e]
      BY <2>2, <3>1
    <3>. QED
      BY <2>4, <3>1, <3>2 DEF DiverseOK
  <2>5. RxOK(sessions, rx)
    BY DEF IngressInv
  <2>6. ParentsOK(ses, rx.objects) /\ ParentsOK(ses, rx.completed)
    BY <2>4, <2>5 DEF RxOK, ParentsOK
  <2>7. RxOK(ses, rx)
    BY <2>5, <2>6, Zenon DEF RxOK
  <2>8. rx' = rx /\ now' = now /\ delivered' = delivered /\ now \in 0 .. MaxTime
        /\ Recent(rx.completed_order, delivered) /\ OnceOK(delivered)
    BY DEF RegisterSession, IngressInv
  <2>9. SessionsOK(sessions') /\ RxOK(sessions', rx')
    BY <2>1, <2>3, <2>7, <2>8
  <2>10. /\ SessionsOK(sessions)' /\ RxOK(sessions, rx)'
         /\ Recent(rx.completed_order, delivered)' /\ OnceOK(delivered)'
    BY <2>8, <2>9 DEF SessionsOK, RxOK, Recent, OnceOK, RxShape, ObjectsOK, ObjectOK, TombstonesOK,
                      IndexOK, OrderOK, CountsOK, ParentsOK, DiverseOK, ScanOK
  <2>. QED
    BY <2>8, <2>10 DEF IngressInv
<1>. QED
  BY <1>1, <1>2 DEF RegisterSession

\* announce_object
LEMMA AnnounceKeeps ==
    ASSUME IngressInv, NEW id, NEW a \in Announcement, AnnounceObject(id, a)
    PROVE  IngressInv'
<1>1. /\ SessionsOK(sessions) /\ RxOK(sessions, rx) /\ now \in 0 .. MaxTime
      /\ Recent(rx.completed_order, delivered) /\ OnceOK(delivered)
  BY DEF IngressInv
<1>2. PICK s, r : s = sessions[id] /\ r = ExpireIfDue(rx)
  OBVIOUS
<1>3. Known(sessions, s)
  BY <1>1, <1>2, SessionKnown DEF AnnounceObject
<1>4. RxOK(sessions, r) /\ r.completed_order = rx.completed_order
  BY <1>1, <1>2, ExpireIfDueKeeps DEF SameTombstones
<1>5. rx' = Announced(r, s, a) /\ UNCHANGED <<sessions, now, delivered>>
  BY <1>2 DEF AnnounceObject
<1>6. RxOK(sessions, rx') /\ rx'.completed_order = r.completed_order
  BY <1>1, <1>3, <1>4, <1>5, AnnouncedKeeps
<1>. QED
  BY <1>1, <1>4, <1>5, <1>6, IngressInvAfter

\* A symbol is pushed into a state r that has the tombstones of rx.
LEMMA PushKeeps ==
    ASSUME IngressInv, NEW r, RxOK(sessions, r), r.completed_order = rx.completed_order,
           NEW s, NEW y \in Symbol, NEW result,
           rx' = Pushed(r, s, y, result), Deliver(r, s, y, result), UNCHANGED <<sessions, now>>
    PROVE  IngressInv'
<1>1. /\ now \in 0 .. MaxTime /\ Recent(r.completed_order, delivered) /\ OnceOK(delivered)
  BY DEF IngressInv
<1>2. PICK t, e : t = rx' /\ e = delivered'
  OBVIOUS
<1>3. /\ t = Pushed(r, s, y, result)
      /\ e = IF Decodes(r, s, y, result) THEN Append(delivered, y.profile.key) ELSE delivered
  BY <1>2 DEF Deliver
<1>4. RxOK(sessions, t) /\ DeliveredStep(t, r, delivered, e)
  BY <1>1, <1>3, PushedKeeps
<1>5. Recent(t.completed_order, e) /\ OnceOK(e)
  BY <1>1, <1>4, DeliveredKeeps
<1>. QED
  BY <1>2, <1>4, <1>5, IngressInvAfter

\* push_wire_datagram
LEMMA PushWireKeeps ==
    ASSUME IngressInv, NEW id, NEW y \in Symbol, NEW result, PushWireDatagram(id, y, result)
    PROVE  IngressInv'
<1>1. RxOK(sessions, rx) /\ now \in 0 .. MaxTime
  BY DEF IngressInv
<1>2. PICK s, r : s = sessions[id] /\ r = ExpireIfDue(rx)
  OBVIOUS
<1>3. RxOK(sessions, r) /\ r.completed_order = rx.completed_order
  BY <1>1, <1>2, ExpireIfDueKeeps DEF SameTombstones
<1>4. rx' = Pushed(r, s, y, result) /\ Deliver(r, s, y, result) /\ UNCHANGED <<sessions, now>>
  BY <1>2 DEF PushWireDatagram
<1>. QED
  BY <1>3, <1>4, PushKeeps

\* RelayUdpDispatch::push for a controlled peer
LEMMA PushControlledKeeps ==
    ASSUME IngressInv, NEW id, NEW y \in Symbol, NEW result, PushControlled(id, y, result)
    PROVE  IngressInv'
<1>1. /\ SessionsOK(sessions) /\ RxOK(sessions, rx) /\ now \in 0 .. MaxTime
      /\ Recent(rx.completed_order, delivered) /\ OnceOK(delivered)
  BY DEF IngressInv
<1>2. PICK s, a, r0 : /\ s = sessions[id] /\ a = [profile |-> y.profile, cursor |-> 0]
                      /\ r0 = IF SymbolPermitted(s, y) THEN ExpireIfDue(rx) ELSE rx
  OBVIOUS
<1>3. PICK r : r = Announced(r0, s, a)
  OBVIOUS
<1>4. Known(sessions, s)
  BY <1>1, <1>2, SessionKnown DEF PushControlled
<1>5. a \in Announcement
  <2>1. y.profile \in Profiles /\ 0 \in Cursors
    BY InputAssumption DEF Symbol
  <2>. QED
    BY <1>2, <2>1 DEF Announcement
<1>6. RxOK(sessions, r0) /\ r0.completed_order = rx.completed_order
  <2>1. r0 = rx \/ r0 = ExpireIfDue(rx)
    BY <1>2
  <2>. QED
    BY <1>1, <2>1, ExpireIfDueKeeps DEF SameTombstones
<1>7. RxOK(sessions, r) /\ r.completed_order = rx.completed_order
  BY <1>1, <1>3, <1>4, <1>5, <1>6, AnnouncedKeeps
<1>8. /\ UNCHANGED <<sessions, now>>
      /\ \/ rx' = Pushed(r, s, y, result) /\ Deliver(r, s, y, result)
         \/ rx' = r0 /\ UNCHANGED delivered
  BY <1>2, <1>3 DEF PushControlled
<1>9. CASE rx' = Pushed(r, s, y, result) /\ Deliver(r, s, y, result)
  BY <1>7, <1>8, <1>9, PushKeeps
<1>10. CASE rx' = r0 /\ UNCHANGED delivered
  BY <1>1, <1>6, <1>8, <1>10, IngressInvAfter
<1>. QED
  BY <1>8, <1>9, <1>10

\* The expiry timer and the clock.
LEMMA TimeKeeps ==
    ASSUME IngressInv, ExpireTick \/ (\E t \in 0 .. MaxTime : Clock(t)) \/ UNCHANGED vars
    PROVE  IngressInv'
<1>1. /\ SessionsOK(sessions) /\ RxOK(sessions, rx) /\ now \in 0 .. MaxTime
      /\ Recent(rx.completed_order, delivered) /\ OnceOK(delivered)
  BY DEF IngressInv
<1>2. CASE ExpireTick
  <2>1. PICK t : t = rx'
    OBVIOUS
  <2>2. t = Expire(rx) /\ UNCHANGED <<sessions, now, delivered>>
    BY <1>2, <2>1 DEF ExpireTick
  <2>3. RxOK(sessions, t) /\ t.completed_order = rx.completed_order
    BY <1>1, <2>2, ExpireKeeps DEF SameTombstones
  <2>. QED
    BY <1>1, <2>1, <2>2, <2>3, IngressInvAfter
<1>3. CASE (\E t \in 0 .. MaxTime : Clock(t)) \/ UNCHANGED vars
  <2>1. UNCHANGED <<sessions, rx, delivered>> /\ now' \in 0 .. MaxTime
    BY <1>1, <1>3 DEF Clock, vars
  <2>2. SessionsOK(sessions') /\ RxOK(sessions', rx')
        /\ Recent(rx'.completed_order, delivered') /\ OnceOK(delivered')
    BY <1>1, <2>1
  <2>3. /\ SessionsOK(sessions)' /\ RxOK(sessions, rx)'
        /\ Recent(rx.completed_order, delivered)' /\ OnceOK(delivered)'
    BY <2>2 DEF SessionsOK, RxOK, Recent, OnceOK, RxShape, ObjectsOK, ObjectOK, TombstonesOK, IndexOK,
                OrderOK, CountsOK, ParentsOK, DiverseOK, ScanOK
  <2>. QED
    BY <2>1, <2>3 DEF IngressInv
<1>. QED
  BY <1>2, <1>3

\* A receiver that has received nothing.
LEMMA EmptyOK == RxOK(EmptyMap, EmptyRx) /\ SessionsOK(EmptyMap)
<1>1. PICK e, q : e = EmptyMap /\ q = EmptyRx
  OBVIOUS
<1>2. DOMAIN e = {}
  BY <1>1 DEF EmptyMap
<1>3. /\ RxShape(q) /\ q.objects = e /\ q.logical_keys = e /\ q.completed = e
      /\ q.completed_order = <<>> /\ q.buffered_object_bytes = 0 /\ q.buffered_datagrams = 0
      /\ q.next_expiry_scan = Never
  BY <1>1 DEF EmptyRx, RxShape
<1>4. IsFiniteSet({}) /\ Cardinality({}) = 0
  BY FS_EmptySet
<1>5. ObjectsOK(e) /\ TombstonesOK(e) /\ IndexOK(DOMAIN e, DOMAIN e, e) /\ ParentsOK(e, e) /\ SessionsOK(e)
  BY <1>2, <1>4 DEF ObjectsOK, TombstonesOK, IndexOK, ParentsOK, SessionsOK
<1>6. OrderOK(DOMAIN e, <<>>)
  BY <1>2 DEF OrderOK, Once
<1>7. CountsOK(e, 0, 0)
  <2>1. SumFunctionOnSet(Lengths(e), {}) = 0 /\ SumFunctionOnSet(Retained(e), {}) = 0
    BY <1>4, SumUnfolds
  <2>. QED
    BY <1>2, <1>4, <2>1, Limits DEF CountsOK
<1>8. ScanOK(Never)
  BY DEF ScanOK
<1>9. RxOK(e, q)
  BY <1>3, <1>5, <1>6, <1>7, <1>8, RxOKFrom
<1>. QED
  BY <1>1, <1>5, <1>9

\* IngressInv holds in every state: the index, the tombstones and the accounting
\* agree with the objects, and the tombstones are the last deliveries.
THEOREM IngressInvariant == Spec => []IngressInv
<1>1. Init => IngressInv
  <2>. SUFFICES ASSUME Init PROVE IngressInv
    OBVIOUS
  <2>1. SessionsOK(sessions) /\ RxOK(sessions, rx)
    BY EmptyOK DEF Init
  <2>2. Recent(<<>>, <<>>) /\ OnceOK(<<>>)
    BY Limits DEF Recent, OnceOK
  <2>3. rx.completed_order = <<>>
    BY DEF Init, EmptyRx
  <2>4. now \in 0 .. MaxTime
    BY Limits DEF Init
  <2>. QED
    BY <2>1, <2>2, <2>3, <2>4 DEF IngressInv, Init
<1>2. IngressInv /\ [Next]_vars => IngressInv'
  <2>. SUFFICES ASSUME IngressInv, [Next]_vars PROVE IngressInv'
    OBVIOUS
  <2>1. CASE \E s \in SessionRecords : RegisterSession(s)
    BY <2>1, RegisterKeeps
  <2>2. CASE \E id \in SessionIds, a \in Announcement : AnnounceObject(id, a)
    BY <2>2, AnnounceKeeps
  <2>3. CASE \E id \in SessionIds, y \in Symbol, result \in Results : PushWireDatagram(id, y, result)
    BY <2>3, PushWireKeeps
  <2>4. CASE \E id \in SessionIds, y \in Symbol, result \in Results : PushControlled(id, y, result)
    BY <2>4, PushControlledKeeps
  <2>5. CASE ExpireTick \/ (\E t \in 0 .. MaxTime : Clock(t)) \/ UNCHANGED vars
    BY <2>5, TimeKeeps
  <2>. QED
    BY <2>1, <2>2, <2>3, <2>4, <2>5 DEF Next
<1>. QED
  BY <1>1, <1>2, PTL DEF Spec

\* The receiver of two parents' symbols: every object is delivered once while its
\* tombstone lives, index, tombstones and reservations are exact and within their
\* limits, and an object's parents are on different paths (relay_ingress.rs:640-1110).
THEOREM IngressCorrect == Spec => []IngressSound
<1>1. IngressInv => IngressSound
  <2>. SUFFICES ASSUME IngressInv PROVE IngressSound
    OBVIOUS
  <2>1. /\ SessionsOK(sessions) /\ RxOK(sessions, rx) /\ now \in 0 .. MaxTime
        /\ Recent(rx.completed_order, delivered) /\ OnceOK(delivered)
    BY DEF IngressInv
  <2>2. PICK ob, c, l, o, by, dg :
           /\ ob = rx.objects /\ c = rx.completed /\ l = rx.logical_keys
           /\ o = rx.completed_order /\ by = rx.buffered_object_bytes /\ dg = rx.buffered_datagrams
    OBVIOUS
  <2>3. /\ ObjectsOK(ob) /\ TombstonesOK(c) /\ IndexOK(DOMAIN ob, DOMAIN c, l)
        /\ OrderOK(DOMAIN c, o) /\ CountsOK(ob, by, dg) /\ ParentsOK(sessions, ob)
        /\ ParentsOK(sessions, c) /\ ScanOK(rx.next_expiry_scan)
    BY <2>1, <2>2, RxOKParts
  <2>4. delivered \in Seq(Keys) /\ o \in Seq(Keys)
    BY <2>1, <2>3 DEF Recent, OrderOK
  <2>5. by \in Nat /\ dg \in Nat
    <3>1. SumFunctionOnSet(Lengths(ob), DOMAIN ob) \in Nat /\ SumFunctionOnSet(Retained(ob), DOMAIN ob) \in Nat
      BY <2>3, ReservedTypes, SumRemove DEF NatOn
    <3>. QED
      BY <2>3, <3>1 DEF CountsOK
  <2>6. TypeOK
    <3>1. DOMAIN ob \subseteq Keys /\ DOMAIN c \subseteq Keys
      BY <2>3 DEF ObjectsOK, TombstonesOK
    <3>2. \A k \in DOMAIN ob : ob[k] \in Object /\ KeyOf(ob[k].announcement) = k
      BY <2>3 DEF ObjectsOK, ObjectOK
    <3>3. \A k \in DOMAIN c : c[k] \in Tombstone
      BY <2>3 DEF TombstonesOK
    <3>4. \A x \in DOMAIN l : l[x] \in Keys /\ x \in {LogicalOf[k] : k \in Keys}
      BY <2>3, <3>1 DEF IndexOK
    <3>5. /\ DOMAIN sessions \subseteq SessionIds
          /\ \A id \in DOMAIN sessions : sessions[id] \in SessionRecords /\ sessions[id].id = id
      BY <2>1 DEF SessionsOK
    <3>6. rx.next_expiry_scan \in {Never} \cup (0 .. (MaxTime + ScanInterval))
      BY <2>3 DEF ScanOK
    <3>7. DOMAIN l \subseteq {LogicalOf[k] : k \in Keys}
      BY <3>4
    <3>. QED
      BY <2>1, <2>2, <2>4, <2>5, <3>1, <3>2, <3>3, <3>4, <3>5, <3>6, <3>7, Zenon DEF TypeOK
  <2>7. LogicalIndexExact
    BY <2>2, <2>3, Zenon DEF LogicalIndexExact, IndexOK
  <2>8. TombstonesBounded
    <3>1. Once(o) /\ DOMAIN c = {o[i] : i \in 1 .. Len(o)} /\ DOMAIN o = 1 .. Len(o) /\ Len(o) \in Nat
      BY <2>3, <2>4 DEF OrderOK
    <3>2. Cardinality({o[i] : i \in 1 .. Len(o)}) = Len(o)
      BY <2>4, <3>1, CountOnce
    <3>3. Len(o) <= MaxCompleted
      BY <2>1, <2>2, <2>4, <3>1, Limits DEF Recent
    <3>. QED
      BY <2>2, <3>1, <3>2, <3>3 DEF TombstonesBounded
  <2>9. AccountingExact
    BY <2>2, <2>3, Zenon DEF AccountingExact, CountsOK
  <2>10. ParentsDiverse
    <3>. SUFFICES ASSUME NEW k \in DOMAIN ob \cup DOMAIN c
                  PROVE  /\ ParentsOf(k) \subseteq DOMAIN sessions
                         /\ ParentsOf(k) # {}
                         /\ \A d, e \in ParentsOf(k) : d # e =>
                              /\ sessions[d].path # sessions[e].path
                              /\ sessions[d].binding = sessions[e].binding
                              /\ sessions[d].peer = sessions[e].peer
                                   => sessions[d].controlled /\ sessions[e].controlled
      BY <2>2 DEF ParentsDiverse
    <3>1. PICK P : P = ParentsOf(k)
      OBVIOUS
    <3>2. \E b : DiverseOK(sessions, P, b)
      <4>1. CASE k \in DOMAIN ob
        BY <2>2, <2>3, <3>1, <4>1 DEF ParentsOf, ParentsOK
      <4>2. CASE k \notin DOMAIN ob
        BY <2>2, <2>3, <3>1, <4>2 DEF ParentsOf, ParentsOK
      <4>. QED
        BY <4>1, <4>2
    <3>3. PICK b : DiverseOK(sessions, P, b)
      BY <3>2
    <3>. QED
      BY <3>1, <3>3 DEF DiverseOK
  <2>11. DeliveredOnce
    <3>1. DOMAIN delivered = 1 .. Len(delivered)
      BY <2>4
    <3>. QED
      BY <2>1, <3>1, Zenon DEF DeliveredOnce, OnceOK
  <2>. QED
    BY <2>6, <2>7, <2>8, <2>9, <2>10, <2>11 DEF IngressSound
<1>. QED
  BY <1>1, IngressInvariant, PTL
=============================================================================
