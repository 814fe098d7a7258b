--------------------------- MODULE DispatcherProofs ---------------------------
(* The account of the Dispatcher for any set of events and times and any       *)
(* MAX_SEND_EVENTS: its list of events, the count of what was sent, and the    *)
(* agreement of list, calendar and clock.                                      *)
EXTENDS AlarmService, SequenceTheorems, FiniteSetTheorems, TLAPS

-----------------------------------------------------------------------------
(* Sequences an element is taken out of, or put into, and their counts         *)

\* A sequence without its i-th element, as erase leaves it.
LEMMA RemoveAtShifts ==
  ASSUME NEW S, NEW s \in Seq(S), NEW i \in 1 .. Len(s)
  PROVE  /\ RemoveAt(s, i) \in Seq(S)
         /\ Len(RemoveAt(s, i)) = Len(s) - 1
         /\ \A j \in 1 .. Len(s) - 1 : RemoveAt(s, i)[j] = s[IF j < i THEN j ELSE j + 1]
<1> DEFINE a == SubSeq(s, 1, i - 1)
           b == SubSeq(s, i + 1, Len(s))
<1>1. /\ a \in Seq(S) /\ Len(a) = i - 1
      /\ \A j \in 1 .. i - 1 : a[j] = s[j]
  <2>1. \A j \in 1 .. i - 1 : s[j] \in S
    OBVIOUS
  <2>2. /\ a \in Seq(S) /\ Len(a) = IF 1 <= i - 1 THEN (i - 1) - 1 + 1 ELSE 0
        /\ \A j \in 1 .. (i - 1) - 1 + 1 : a[j] = s[1 + j - 1]
    BY <2>1, SubSeqProperties
  <2> QED BY <2>2
<1>2. /\ b \in Seq(S) /\ Len(b) = Len(s) - i
      /\ \A j \in 1 .. Len(s) - i : b[j] = s[j + i]
  <2>1. \A j \in i + 1 .. Len(s) : s[j] \in S
    OBVIOUS
  <2>2. /\ b \in Seq(S) /\ Len(b) = IF i + 1 <= Len(s) THEN Len(s) - (i + 1) + 1 ELSE 0
        /\ \A j \in 1 .. Len(s) - (i + 1) + 1 : b[j] = s[(i + 1) + j - 1]
    BY <2>1, SubSeqProperties
  <2> QED BY <2>2
<1>3. RemoveAt(s, i) = a \o b
  BY DEF RemoveAt
<1> HIDE DEF a, b
<1>4. /\ a \o b \in Seq(S)
      /\ Len(a \o b) = Len(a) + Len(b)
      /\ \A j \in 1 .. Len(a) + Len(b) : (a \o b)[j] = IF j <= Len(a) THEN a[j] ELSE b[j - Len(a)]
  BY <1>1, <1>2, ConcatProperties
<1>5. ASSUME NEW j \in 1 .. Len(s) - 1
      PROVE  (a \o b)[j] = s[IF j < i THEN j ELSE j + 1]
  <2>1. CASE j < i
    BY <1>1, <1>2, <1>4, <2>1
  <2>2. CASE ~(j < i)
    <3>1. (a \o b)[j] = b[j - i + 1]
      BY <1>1, <1>2, <1>4, <2>2
    <3>2. b[j - i + 1] = s[j + 1]
      BY <1>2, <2>2
    <3> QED BY <2>2, <3>1, <3>2
  <2> QED BY <2>1, <2>2
<1> QED BY <1>1, <1>2, <1>3, <1>4, <1>5

\* new is the sequence s with the element e put in before the i-th.
Inserted(s, i, e, new) ==
  /\ Len(new) = Len(s) + 1
  /\ new[i] = e
  /\ \A j \in 1 .. Len(s) : new[IF j < i THEN j ELSE j + 1] = s[j]

LEMMA InsertAtShifts ==
  ASSUME NEW S, NEW s \in Seq(S), NEW i \in 1 .. Len(s), NEW e \in S
  PROVE  InsertAt(s, i, e) \in Seq(S) /\ Inserted(s, i, e, InsertAt(s, i, e))
<1> DEFINE a == SubSeq(s, 1, i - 1)
           b == SubSeq(s, i, Len(s))
           ae == a \o <<e>>
<1>1. /\ a \in Seq(S) /\ Len(a) = i - 1
      /\ \A j \in 1 .. i - 1 : a[j] = s[j]
  <2>1. \A j \in 1 .. i - 1 : s[j] \in S
    OBVIOUS
  <2>2. /\ a \in Seq(S) /\ Len(a) = IF 1 <= i - 1 THEN (i - 1) - 1 + 1 ELSE 0
        /\ \A j \in 1 .. (i - 1) - 1 + 1 : a[j] = s[1 + j - 1]
    BY <2>1, SubSeqProperties
  <2> QED BY <2>2
<1>2. /\ b \in Seq(S) /\ Len(b) = Len(s) - i + 1
      /\ \A j \in 1 .. Len(s) - i + 1 : b[j] = s[j + i - 1]
  <2>1. \A j \in i .. Len(s) : s[j] \in S
    OBVIOUS
  <2>2. /\ b \in Seq(S) /\ Len(b) = IF i <= Len(s) THEN Len(s) - i + 1 ELSE 0
        /\ \A j \in 1 .. Len(s) - i + 1 : b[j] = s[i + j - 1]
    BY <2>1, SubSeqProperties
  <2> QED BY <2>2
<1>3. <<e>> \in Seq(S) /\ Len(<<e>>) = 1 /\ <<e>>[1] = e
  OBVIOUS
<1>4. InsertAt(s, i, e) = ae \o b
  BY DEF InsertAt
<1> HIDE DEF a, b
<1>5. /\ ae \in Seq(S) /\ Len(ae) = i
      /\ ae[i] = e
      /\ \A j \in 1 .. i - 1 : ae[j] = s[j]
  <2>1. /\ ae \in Seq(S) /\ Len(ae) = Len(a) + 1
        /\ \A j \in 1 .. Len(a) + 1 : ae[j] = IF j <= Len(a) THEN a[j] ELSE <<e>>[j - Len(a)]
    BY <1>1, <1>3, ConcatProperties
  <2> QED BY <1>1, <1>3, <2>1
<1> HIDE DEF ae
<1>6. /\ ae \o b \in Seq(S)
      /\ Len(ae \o b) = Len(ae) + Len(b)
      /\ \A j \in 1 .. Len(ae) + Len(b) : (ae \o b)[j] = IF j <= Len(ae) THEN ae[j] ELSE b[j - Len(ae)]
  BY <1>2, <1>5, ConcatProperties
<1>7. ASSUME NEW j \in 1 .. Len(s)
      PROVE  (ae \o b)[IF j < i THEN j ELSE j + 1] = s[j]
  <2>1. CASE j < i
    BY <1>2, <1>5, <1>6, <2>1
  <2>2. CASE ~(j < i)
    <3>1. (ae \o b)[j + 1] = b[j + 1 - i]
      BY <1>2, <1>5, <1>6, <2>2
    <3>2. b[j + 1 - i] = s[j]
      BY <1>2, <2>2
    <3> QED BY <2>2, <3>1, <3>2
  <2> QED BY <2>1, <2>2
<1>8. (ae \o b)[i] = e
  BY <1>2, <1>5, <1>6
<1> QED BY <1>2, <1>4, <1>5, <1>6, <1>7, <1>8 DEF Inserted

\* B is the set of indices A without i, which the indices above i move up to.
Shifted(n, i, A, B) == \A j \in 1 .. n : j \in B <=> (IF j < i THEN j ELSE j + 1) \in A

\* Of a set of indices the one taken out counts once, and the others move up.
LEMMA ShiftedIndices ==
  ASSUME NEW n \in Nat, NEW i \in 1 .. n + 1, NEW A \in SUBSET (1 .. n + 1), NEW B \in SUBSET (1 .. n),
         Shifted(n, i, A, B)
  PROVE  /\ IsFiniteSet(A) /\ IsFiniteSet(B)
         /\ Cardinality(A) \in Nat /\ Cardinality(B) \in Nat
         /\ i \in A => Cardinality(A) = Cardinality(B) + 1
         /\ i \notin A => Cardinality(A) = Cardinality(B)
<1>1. IsFiniteSet(A) /\ IsFiniteSet(B)
  <2>1. IsFiniteSet(1 .. n + 1) /\ IsFiniteSet(1 .. n)
    BY FS_Interval
  <2> QED BY <2>1, FS_Subset
<1>2. Cardinality(A) \in Nat /\ Cardinality(B) \in Nat
  BY <1>1, FS_CardinalityType
<1>0. \A j \in 1 .. n : j \in B <=> (IF j < i THEN j ELSE j + 1) \in A
  BY DEF Shifted
<1> DEFINE f == [j \in B |-> IF j < i THEN j ELSE j + 1]
<1>3. f \in [B -> A \ {i}]
  BY <1>0
<1>4. \A j, k \in B : f[j] = f[k] => j = k
  OBVIOUS
<1>5. ASSUME NEW a \in A \ {i} PROVE \E j \in B : f[j] = a
  <2>1. CASE a < i
    <3>1. a \in B
      BY <1>0, <2>1
    <3> QED BY <2>1, <3>1
  <2>2. CASE a > i
    <3>1. a - 1 \in B
      BY <1>0, <2>2
    <3> QED BY <2>2, <3>1
  <2> QED BY <2>1, <2>2
<1> HIDE DEF f
<1>6. f \in Bijection(B, A \ {i})
  BY <1>3, <1>4, <1>5 DEF Bijection, Injection, Surjection, IsInjective
<1>7. Cardinality(A \ {i}) = Cardinality(B)
  BY <1>1, <1>6, FS_Bijection DEF ExistsBijection
<1>8. Cardinality(A \ {i}) = IF i \in A THEN Cardinality(A) - 1 ELSE Cardinality(A)
  BY <1>1, FS_RemoveElement
<1> QED BY <1>1, <1>2, <1>7, <1>8

\* A set of indices has a smallest one.
LEMMA FirstIndex ==
  ASSUME NEW I \in SUBSET Nat, I # {}
  PROVE  Min(I) \in I /\ \A i \in I : Min(I) <= i
<1>1. IsWellFoundedOn(OpToRel(<, Nat), Nat)
  BY NatLessThanWellFounded
<1>2. PICK m \in I : \A i \in I : <<i, m>> \notin OpToRel(<, Nat)
  BY <1>1, WFMin
<1>3. \A i \in I : ~(i < m)
  BY <1>2 DEF OpToRel
<1>4. \A i \in I : m <= i
  BY <1>3
<1> QED BY <1>4 DEF Min

LEMMA StartIsNat ==
  /\ Start \subseteq Nat
  /\ \A list \in Seq(Entry) : \A j \in 1 .. Len(list) : list[j] \in Entry /\ list[j].start \in Nat
  /\ \A x \in Item : x.start \in Nat
<1>1. Start \subseteq Nat
  BY DispatcherAssumption
<1>2. \A list \in Seq(Entry) : \A j \in 1 .. Len(list) : list[j] \in Entry
  BY ElementOfSeq
<1> QED BY <1>1, <1>2 DEF Entry, Item

\* What SelectInSeq finds in a list of entries: the first event that starts later, ...
LEMMA FirstLater ==
  ASSUME NEW list \in Seq(Entry), NEW t \in Nat,
         NEW k, k = SelectInSeq(list, LAMBDA e : t < e.start)
  PROVE  \/ k = 0 /\ \A j \in 1 .. Len(list) : ~(t < list[j].start)
         \/ k \in 1 .. Len(list) /\ t < list[k].start /\ \A j \in 1 .. k - 1 : ~(t < list[j].start)
<1> DEFINE I == {i \in 1 .. Len(list) : t < list[i].start}
<1>1. k = IF I # {} THEN Min(I) ELSE 0
  BY DEF SelectInSeq
<1>2. CASE I = {}
  BY <1>1, <1>2
<1>3. CASE I # {}
  <2>1. I \in SUBSET Nat
    OBVIOUS
  <2> HIDE DEF I
  <2>2. Min(I) \in I /\ \A i \in I : Min(I) <= i
    BY <1>3, <2>1, FirstIndex
  <2>3. k = Min(I)
    BY <1>1, <1>3
  <2>4. k \in 1 .. Len(list) /\ t < list[k].start
    BY <2>2, <2>3 DEF I
  <2>5. \A j \in I : k <= j
    BY <2>2, <2>3
  <2>6. ASSUME NEW j \in 1 .. k - 1 PROVE ~(t < list[j].start)
    <3>1. j \in 1 .. Len(list) /\ ~(k <= j)
      BY <2>4
    <3>2. j \notin I
      BY <2>5, <3>1
    <3> QED BY <3>1, <3>2 DEF I
  <2> QED BY <2>4, <2>6
<1> QED BY <1>2, <1>3

\* ... the first entry of an event, ...
LEMMA FirstOfEvent ==
  ASSUME NEW list \in Seq(Entry), NEW id,
         NEW k, k = SelectInSeq(list, LAMBDA e : e.id = id)
  PROVE  \/ k = 0 /\ \A j \in 1 .. Len(list) : list[j].id # id
         \/ k \in 1 .. Len(list) /\ list[k].id = id
<1> DEFINE I == {i \in 1 .. Len(list) : list[i].id = id}
<1>1. k = IF I # {} THEN Min(I) ELSE 0
  BY DEF SelectInSeq
<1>2. CASE I = {}
  BY <1>1, <1>2
<1>3. CASE I # {}
  <2>1. I \in SUBSET Nat
    OBVIOUS
  <2> HIDE DEF I
  <2>2. Min(I) \in I
    BY <1>3, <2>1, FirstIndex
  <2> QED BY <1>1, <1>3, <2>2 DEF I
<1> QED BY <1>2, <1>3

\* ... and the first entry that was not sent.
LEMMA FirstUnsent ==
  ASSUME NEW list \in Seq(Entry),
         NEW k, k = SelectInSeq(list, LAMBDA e : ~e.sent)
  PROVE  \/ k = 0
         \/ k \in 1 .. Len(list) /\ k \notin SentIn(list)
<1> DEFINE I == {i \in 1 .. Len(list) : ~list[i].sent}
<1>1. k = IF I # {} THEN Min(I) ELSE 0
  BY DEF SelectInSeq
<1>4. I \subseteq 1 .. Len(list) /\ I \cap SentIn(list) = {}
  BY Zenon DEF SentIn
<1>2. CASE I = {}
  BY <1>1, <1>2
<1>3. CASE I # {}
  <2>1. I \in SUBSET Nat
    OBVIOUS
  <2> HIDE DEF I
  <2>2. Min(I) \in I
    BY <1>3, <2>1, FirstIndex
  <2>3. k = Min(I)
    BY <1>1, <1>3
  <2> QED BY <1>4, <2>2, <2>3
<1> QED BY <1>2, <1>3

-----------------------------------------------------------------------------
(* What addEvent and an erased element do to a list of entries                 *)

Sorted(list) ==
  \A i, j \in 1 .. Len(list) : i < j => list[i].start <= list[j].start

OneEach(list) ==
  \A i, j \in 1 .. Len(list) : list[i].id = list[j].id => i = j

Listed(list, e, s) == \E i \in 1 .. Len(list) : list[i].id = e /\ list[i].start = s

Fresh(x) == [id |-> x.id, start |-> x.start, sent |-> FALSE]

\* addEvent puts its event before the first one that starts later.
LEMMA AddEventPlace ==
  ASSUME NEW list \in Seq(Entry), NEW x \in Item
  PROVE  /\ addEvent(list, x) \in Seq(Entry)
         /\ Len(addEvent(list, x)) = Len(list) + 1
         /\ \E k \in 1 .. Len(list) + 1 :
              /\ addEvent(list, x)[k] = Fresh(x)
              /\ \A j \in 1 .. Len(list) : addEvent(list, x)[IF j < k THEN j ELSE j + 1] = list[j]
              /\ \A j \in 1 .. k - 1 : list[j].start <= x.start
              /\ k <= Len(list) => x.start < list[k].start
<1> DEFINE later == SelectInSeq(list, LAMBDA e : x.start < e.start)
<1>1. x.start \in Nat /\ \A j \in 1 .. Len(list) : list[j].start \in Nat
  BY StartIsNat
<1>2. Fresh(x) \in Entry
  BY DEF Fresh, Item, Entry
<1>3. \/ later = 0 /\ \A j \in 1 .. Len(list) : ~(x.start < list[j].start)
      \/ /\ later \in 1 .. Len(list) /\ x.start < list[later].start
         /\ \A j \in 1 .. later - 1 : ~(x.start < list[j].start)
  BY <1>1, FirstLater
<1>4. addEvent(list, x) = IF later = 0 THEN Append(list, Fresh(x)) ELSE InsertAt(list, later, Fresh(x))
  BY DEF addEvent, Fresh
<1> HIDE DEF later
<1>5. CASE later = 0
  <2>1. addEvent(list, x) = Append(list, Fresh(x))
    BY <1>4, <1>5
  <2>2. /\ Append(list, Fresh(x)) \in Seq(Entry)
        /\ Len(Append(list, Fresh(x))) = Len(list) + 1
        /\ \A j \in 1 .. Len(list) : Append(list, Fresh(x))[j] = list[j]
        /\ Append(list, Fresh(x))[Len(list) + 1] = Fresh(x)
    BY <1>2, AppendProperties
  <2>3. \A j \in 1 .. Len(list) : list[j].start <= x.start
    BY <1>1, <1>3, <1>5
  <2> DEFINE k == Len(list) + 1
  <2>4. /\ k \in 1 .. Len(list) + 1
        /\ addEvent(list, x)[k] = Fresh(x)
        /\ \A j \in 1 .. Len(list) : addEvent(list, x)[IF j < k THEN j ELSE j + 1] = list[j]
        /\ \A j \in 1 .. k - 1 : list[j].start <= x.start
        /\ k <= Len(list) => x.start < list[k].start
    BY <2>1, <2>2, <2>3
  <2> QED BY <2>1, <2>2, <2>4
<1>6. CASE later # 0
  <2>1. addEvent(list, x) = InsertAt(list, later, Fresh(x))
    BY <1>4, <1>6
  <2>2. later \in 1 .. Len(list)
    BY <1>3, <1>6
  <2>3. /\ InsertAt(list, later, Fresh(x)) \in Seq(Entry)
        /\ Inserted(list, later, Fresh(x), InsertAt(list, later, Fresh(x)))
    BY <1>2, <2>2, InsertAtShifts
  <2>4. \A j \in 1 .. later - 1 : list[j].start <= x.start
    BY <1>1, <1>3, <2>2
  <2>5. x.start < list[later].start
    BY <1>3, <1>6
  <2> QED BY <2>1, <2>2, <2>3, <2>4, <2>5 DEF Inserted
<1> QED BY <1>5, <1>6

\* It keeps the order, the one entry of each event and the count of what was sent,
\* and lists its event and nothing else that was not listed.
LEMMA AddEventKeeps ==
  ASSUME NEW list \in Seq(Entry), NEW x \in Item, NEW new, new = addEvent(list, x)
  PROVE  /\ new \in Seq(Entry)
         /\ Sorted(list) => Sorted(new)
         /\ OneEach(list) /\ (\A j \in 1 .. Len(list) : list[j].id # x.id) => OneEach(new)
         /\ Cardinality(SentIn(new)) = Cardinality(SentIn(list))
         /\ \A e, s : Listed(new, e, s) <=> Listed(list, e, s) \/ (e = x.id /\ s = x.start)
<1>1. new \in Seq(Entry) /\ Len(new) = Len(list) + 1
  BY AddEventPlace
<1>2. PICK k \in 1 .. Len(list) + 1 :
        /\ new[k] = Fresh(x)
        /\ \A j \in 1 .. Len(list) : new[IF j < k THEN j ELSE j + 1] = list[j]
        /\ \A j \in 1 .. k - 1 : list[j].start <= x.start
        /\ k <= Len(list) => x.start < list[k].start
  BY AddEventPlace
<1>3. new[k].id = x.id /\ new[k].start = x.start
  BY <1>2 DEF Fresh
<1>4. \A j \in 1 .. Len(list) : list[j].start \in Nat
  BY StartIsNat
<1>5. x.start \in Nat
  BY StartIsNat
<1>6. ASSUME NEW i \in 1 .. Len(new)
      PROVE  \/ i = k
             \/ i < k /\ i \in 1 .. Len(list) /\ new[i] = list[i]
             \/ i > k /\ i - 1 \in 1 .. Len(list) /\ new[i] = list[i - 1]
  <2>1. CASE i < k
    BY <1>1, <1>2, <2>1
  <2>2. CASE i > k
    <3>1. i - 1 \in 1 .. Len(list) /\ ~(i - 1 < k) /\ (i - 1) + 1 = i
      BY <1>1, <2>2
    <3>2. new[(i - 1) + 1] = list[i - 1]
      BY <1>2, <3>1
    <3> QED BY <2>2, <3>1, <3>2
  <2> QED BY <2>1, <2>2
<1> DEFINE old(i) == IF i < k THEN i ELSE i - 1
<1>11. ASSUME NEW i \in 1 .. Len(new), i # k
       PROVE  old(i) \in 1 .. Len(list) /\ new[i] = list[old(i)]
  <2>1. CASE i < k
    BY <1>6, <1>11, <2>1
  <2>2. CASE i > k
    BY <1>6, <1>11, <2>2
  <2> QED BY <1>11, <2>1, <2>2
<1>12. \A i, j \in 1 .. Len(new) : i # k /\ j # k /\ i < j => old(i) < old(j)
  BY <1>1
<1>7. ASSUME Sorted(list) PROVE Sorted(new)
  <2>1. \A i, j \in 1 .. Len(list) : i < j => list[i].start <= list[j].start
    BY <1>7 DEF Sorted
  <2>2. \A j \in 1 .. Len(list) : j >= k => x.start <= list[j].start
    BY <1>2, <1>4, <1>5, <2>1
  <2>3. \A j \in 1 .. Len(list) : j < k => list[j].start <= x.start
    BY <1>2
  <2>4. ASSUME NEW i \in 1 .. Len(new), NEW j \in 1 .. Len(new), i < j
        PROVE  new[i].start <= new[j].start
    <3>1. CASE i = k
      <4>1. j > k
        BY <2>4, <3>1
      <4>2. j - 1 \in 1 .. Len(list) /\ new[j] = list[j - 1] /\ j - 1 >= k
        BY <1>6, <4>1
      <4>3. x.start <= list[j - 1].start
        BY <2>2, <4>2
      <4> QED BY <1>3, <3>1, <4>2, <4>3
    <3>2. CASE j = k
      <4>1. i < k
        BY <2>4, <3>2
      <4>2. i \in 1 .. Len(list) /\ new[i] = list[i]
        BY <1>6, <4>1
      <4>3. list[i].start <= x.start
        BY <2>3, <4>1, <4>2
      <4> QED BY <1>3, <3>2, <4>2, <4>3
    <3>3. CASE i # k /\ j # k
      <4>1. old(i) < old(j) /\ old(i) \in 1 .. Len(list) /\ old(j) \in 1 .. Len(list)
        BY <1>11, <1>12, <2>4, <3>3
      <4>2. new[i] = list[old(i)] /\ new[j] = list[old(j)]
        BY <1>11, <3>3
      <4> HIDE DEF old
      <4> QED BY <2>1, <4>1, <4>2
    <3> QED BY <3>1, <3>2, <3>3
  <2> QED BY <2>4 DEF Sorted
<1>8. ASSUME OneEach(list), \A j \in 1 .. Len(list) : list[j].id # x.id PROVE OneEach(new)
  <2>1. \A i, j \in 1 .. Len(list) : list[i].id = list[j].id => i = j
    BY <1>8 DEF OneEach
  <2>2. ASSUME NEW i \in 1 .. Len(new), NEW j \in 1 .. Len(new), new[i].id = new[j].id
        PROVE  i = j
    <3>1. CASE i = k \/ j = k
      BY <1>3, <1>6, <1>8, <2>2, <3>1
    <3>2. CASE i # k /\ j # k
      <4>1. old(i) \in 1 .. Len(list) /\ old(j) \in 1 .. Len(list)
        BY <1>11, <3>2
      <4>2. new[i] = list[old(i)] /\ new[j] = list[old(j)]
        BY <1>11, <3>2
      <4>3. old(i) = old(j)
        <5> HIDE DEF old
        <5> QED BY <2>1, <2>2, <4>1, <4>2
      <4> QED BY <1>1, <1>2, <3>2, <4>3
    <3> QED BY <3>1, <3>2
  <2> QED BY <2>2 DEF OneEach
<1>9. Cardinality(SentIn(new)) = Cardinality(SentIn(list))
  <2> DEFINE A == SentIn(new)
             B == SentIn(list)
  <2>1. A \in SUBSET (1 .. Len(list) + 1) /\ B \in SUBSET (1 .. Len(list))
    BY <1>1 DEF SentIn
  <2>2. k \notin A
    BY <1>2 DEF SentIn, Fresh
  <2>3. Shifted(Len(list), k, A, B)
    BY <1>1, <1>2 DEF SentIn, Shifted
  <2> HIDE DEF A, B
  <2>4. Cardinality(A) = Cardinality(B)
    BY <2>1, <2>2, <2>3, ShiftedIndices
  <2> QED BY <2>4 DEF A, B
<1>10. ASSUME NEW e, NEW s
       PROVE  Listed(new, e, s) <=> Listed(list, e, s) \/ (e = x.id /\ s = x.start)
  <2>1. ASSUME Listed(new, e, s) PROVE Listed(list, e, s) \/ (e = x.id /\ s = x.start)
    BY <1>3, <1>6, <2>1 DEF Listed
  <2>2. ASSUME Listed(list, e, s) PROVE Listed(new, e, s)
    <3>1. PICK j \in 1 .. Len(list) : list[j].id = e /\ list[j].start = s
      BY <2>2 DEF Listed
    <3>2. (IF j < k THEN j ELSE j + 1) \in 1 .. Len(new)
      BY <1>1
    <3> QED BY <1>2, <3>1, <3>2 DEF Listed
  <2>3. ASSUME e = x.id, s = x.start PROVE Listed(new, e, s)
    BY <1>1, <1>3, <2>3 DEF Listed
  <2> QED BY <2>1, <2>2, <2>3
<1> QED BY <1>1, <1>7, <1>8, <1>9, <1>10

\* An erased element takes its count along, and leaves the rest as it was.
LEMMA RemoveAtKeeps ==
  ASSUME NEW list \in Seq(Entry), NEW i \in 1 .. Len(list), NEW rest, rest = RemoveAt(list, i)
  PROVE  /\ rest \in Seq(Entry)
         /\ Sorted(list) => Sorted(rest)
         /\ OneEach(list) => OneEach(rest) /\ \A j \in 1 .. Len(rest) : rest[j].id # list[i].id
         /\ i \in SentIn(list) => Cardinality(SentIn(list)) = Cardinality(SentIn(rest)) + 1
         /\ i \notin SentIn(list) => Cardinality(SentIn(list)) = Cardinality(SentIn(rest))
         /\ Cardinality(SentIn(rest)) \in Nat
         /\ \A e, s : Listed(rest, e, s) => Listed(list, e, s)
         /\ \A e, s : Listed(list, e, s)
                        => Listed(rest, e, s) \/ (e = list[i].id /\ s = list[i].start)
<1>1. /\ rest \in Seq(Entry) /\ Len(rest) = Len(list) - 1
      /\ \A j \in 1 .. Len(list) - 1 : rest[j] = list[IF j < i THEN j ELSE j + 1]
  BY RemoveAtShifts
<1>2. \A j \in 1 .. Len(rest) : (IF j < i THEN j ELSE j + 1) \in 1 .. Len(list)
  BY <1>1
<1> DEFINE old(j) == IF j < i THEN j ELSE j + 1
<1>8. \A j \in 1 .. Len(rest) : old(j) \in 1 .. Len(list) /\ old(j) # i /\ rest[j] = list[old(j)]
  BY <1>1
<1>9. \A j, k \in 1 .. Len(rest) : (j < k => old(j) < old(k)) /\ (old(j) = old(k) => j = k)
  BY <1>1
<1>3. ASSUME Sorted(list) PROVE Sorted(rest)
  <2> HIDE DEF old
  <2> QED BY <1>3, <1>8, <1>9 DEF Sorted
<1>4. ASSUME OneEach(list) PROVE OneEach(rest) /\ \A j \in 1 .. Len(rest) : rest[j].id # list[i].id
  <2> HIDE DEF old
  <2> QED BY <1>4, <1>8, <1>9 DEF OneEach
<1>5. /\ i \in SentIn(list) => Cardinality(SentIn(list)) = Cardinality(SentIn(rest)) + 1
      /\ i \notin SentIn(list) => Cardinality(SentIn(list)) = Cardinality(SentIn(rest))
      /\ Cardinality(SentIn(rest)) \in Nat
  <2> DEFINE A == SentIn(list)
             B == SentIn(rest)
  <2>1. Len(rest) \in Nat /\ i \in 1 .. Len(rest) + 1
    BY <1>1
  <2>2. A \in SUBSET (1 .. Len(rest) + 1) /\ B \in SUBSET (1 .. Len(rest))
    BY <1>1 DEF SentIn
  <2>3. Shifted(Len(rest), i, A, B)
    BY <1>1, <1>2 DEF SentIn, Shifted
  <2> HIDE DEF A, B
  <2>4. /\ Cardinality(B) \in Nat
        /\ i \in A => Cardinality(A) = Cardinality(B) + 1
        /\ i \notin A => Cardinality(A) = Cardinality(B)
    BY <2>1, <2>2, <2>3, ShiftedIndices
  <2> QED BY <2>4 DEF A, B
<1>6. ASSUME NEW e, NEW s, Listed(rest, e, s) PROVE Listed(list, e, s)
  BY <1>1, <1>2, <1>6 DEF Listed
<1>7. ASSUME NEW e, NEW s, Listed(list, e, s)
      PROVE  Listed(rest, e, s) \/ (e = list[i].id /\ s = list[i].start)
  <2>1. PICK j \in 1 .. Len(list) : list[j].id = e /\ list[j].start = s
    BY <1>7 DEF Listed
  <2>2. CASE j = i
    BY <2>1, <2>2
  <2>3. CASE j < i
    <3>1. j \in 1 .. Len(rest) /\ rest[j] = list[j]
      BY <1>1, <2>3
    <3> QED BY <2>1, <3>1 DEF Listed
  <2>4. CASE j > i
    <3>1. j - 1 \in 1 .. Len(rest) /\ ~(j - 1 < i) /\ (j - 1) + 1 = j
      BY <1>1, <2>4
    <3>2. rest[j - 1] = list[(j - 1) + 1]
      BY <1>1, <3>1
    <3> QED BY <2>1, <3>1, <3>2 DEF Listed
  <2> QED BY <2>2, <2>3, <2>4
<1> QED BY <1>1, <1>3, <1>4, <1>5, <1>6, <1>7

-----------------------------------------------------------------------------
(* The inductive invariant                                                     *)

\* The item of an event in a snapshot of the calendar as it is now.
ItemOf(e) == [id |-> e, start |-> calendar[e].start, live |-> calendar[e].live]

\* The list has an event only as the calendar has it, and has it if it starts from t on.
AgreesFrom(e, t) ==
  \A s \in Start :
    /\ Listed(events, e, s) => calendar[e].live /\ calendar[e].start = s
    /\ calendar[e].live /\ calendar[e].start = s /\ s >= t => Listed(events, e, s)

\* The time of the round is known, and is the one the events are compared with.
TimeIsKnown ==
  /\ pc # "start" => tmit # -1
  /\ pc \notin {"start", "time"} => local = tmit

\* Until a round fetches, the list agrees with what did not change since the last update;
\* when the update is made, that is the time it was made.
AgreesSince ==
  /\ pc \in {"send", "sleep"} => timestamp = local
  /\ pc \in {"start", "time"} => ~ready
  /\ pc \in {"send", "sleep", "clean"} \/ (pc = "fetch" /\ ready) =>
       \A e \in Event : calendar[e].changed < timestamp => AgreesFrom(e, local)

\* While a snapshot is merged: what did not change since the time was taken is either in
\* what is left of the snapshot, as it is in the calendar, or merged already.
Merging ==
  pc = "merge" =>
    /\ \A x, y \in fetched : x.id = y.id => x = y
    /\ \A e \in Event : calendar[e].changed < local =>
         ItemOf(e) \in fetched \/ ((\A x \in fetched : x.id # e) /\ AgreesFrom(e, local))

SyncInv == Reliable => TimeIsKnown /\ AgreesSince /\ Merging

-----------------------------------------------------------------------------
(* What the steps do to the list                                               *)

LEMMA ActionsDefined ==
  ASSUME [Next]_vars
  PROVE  \/ ReadTime \/ send_time \/ getAllEvents
         \/ action \/ deleteOldEvents \/ OldEventsDeleted \/ getNewEvents
         \/ (\E x \in fetched : Merge(x))
         \/ Merged \/ sendEvent \/ sendEventsReturns
         \/ (\E e \in Event, start \in Start, live \in BOOLEAN : Change(e, start, live))
         \/ Tick
         \/ UNCHANGED vars
BY DEF Next, Account, Outside, TimeStops

\* The i-th element is erased, and the count corrected if it was sent.
Erase(i) ==
  /\ events' = RemoveAt(events, i)
  /\ i \in SentIn(events) => num_send' = num_send - 1
  /\ i \notin SentIn(events) => num_send' = num_send

\* remove_event_id finds no entry, erases one and tells the clock if it was sent, or fails to.
LEMMA RemoveEffect ==
  ASSUME events \in Seq(Entry), NEW id, NEW rest, remove_event_id(id, rest)
  PROVE  /\ \/ /\ rest = events /\ num_send' = num_send /\ out' = Silence
               /\ \A j \in 1 .. Len(events) : events[j].id # id
            \/ rest = events /\ num_send' = num_send - 1 /\ env.network
            \/ \E i \in 1 .. Len(events) :
                 /\ events[i].id = id
                 /\ rest = RemoveAt(events, i)
                 /\ i \in SentIn(events) =>
                      num_send' = num_send - 1 /\ out' = [cmd |-> "D", at |-> events[i].start]
                 /\ i \notin SentIn(events) => num_send' = num_send /\ out' = Silence
         /\ out' = Silence \/ \E i \in 1 .. Len(events) : out' = [cmd |-> "D", at |-> events[i].start]
<1> DEFINE i == SelectInSeq(events, LAMBDA e : e.id = id)
<1>1. \/ i = 0 /\ \A j \in 1 .. Len(events) : events[j].id # id
      \/ i \in 1 .. Len(events) /\ events[i].id = id
  BY FirstOfEvent
<1>2. \/ i = 0 /\ rest = events /\ out' = Silence /\ UNCHANGED num_send
      \/ i # 0 /\ ~events[i].sent /\ rest = RemoveAt(events, i) /\ out' = Silence /\ UNCHANGED num_send
      \/ /\ i # 0 /\ events[i].sent
         /\ num_send' = num_send - 1
         /\ \/ out' = [cmd |-> "D", at |-> events[i].start] /\ rest = RemoveAt(events, i)
            \/ env.network /\ out' = Silence /\ rest = events
  BY DEF remove_event_id, send_delete_event, Send, SendFails
<1> HIDE DEF i
<1>3. CASE i = 0
  BY <1>1, <1>2, <1>3
<1>4. CASE i # 0
  <2>1. i \in 1 .. Len(events) /\ events[i].id = id /\ i \in DOMAIN events
    BY <1>1, <1>4
  <2>2. CASE i \notin SentIn(events)
    <3>1. ~events[i].sent
      BY <2>1, <2>2, Zenon DEF SentIn
    <3> QED BY <1>2, <1>4, <2>1, <2>2, <3>1
  <2>3. CASE i \in SentIn(events)
    <3>1. events[i].sent
      BY <2>3, Zenon DEF SentIn
    <3> QED BY <1>2, <1>4, <2>1, <2>3, <3>1
  <2> QED BY <2>2, <2>3
<1> QED BY <1>3, <1>4

\* Merging an item keeps the list in order; if every deletion gets through it also keeps
\* one entry for each event and the count, and the event is listed as the item has it, if
\* it is wanted.
LEMMA MergeEffect ==
  ASSUME events \in Seq(Entry), num_send \in Int, NEW x \in Item, Merge(x)
  PROVE  /\ events' \in Seq(Entry) /\ num_send' \in Int
         /\ Sorted(events) => Sorted(events')
         /\ ~env.network /\ OneEach(events) =>
              /\ OneEach(events')
              /\ num_send' - Cardinality(SentIn(events')) = num_send - Cardinality(SentIn(events))
              /\ num_send' <= num_send
              /\ \A e, s : Listed(events', e, s) <=>
                   IF e = x.id THEN s = x.start /\ Wanted(x) ELSE Listed(events, e, s)
         /\ out' = Silence \/ \E i \in 1 .. Len(events) : out' = [cmd |-> "D", at |-> events[i].start]
<1>1. PICK rest :
        /\ remove_event_id(x.id, rest)
        /\ events' = IF Wanted(x) THEN addEvent(rest, x) ELSE rest
  BY DEF Merge
<1>2. \/ /\ rest = events /\ num_send' = num_send
         /\ \A j \in 1 .. Len(events) : events[j].id # x.id
      \/ rest = events /\ num_send' = num_send - 1 /\ env.network
      \/ \E i \in 1 .. Len(events) :
           /\ events[i].id = x.id
           /\ rest = RemoveAt(events, i)
           /\ i \in SentIn(events) => num_send' = num_send - 1
           /\ i \notin SentIn(events) => num_send' = num_send
  BY <1>1, RemoveEffect
<1>3. out' = Silence \/ \E i \in 1 .. Len(events) : out' = [cmd |-> "D", at |-> events[i].start]
  BY <1>1, RemoveEffect
<1>4. num_send' \in Int
  BY <1>2
<1>5. rest \in Seq(Entry) /\ (Sorted(events) => Sorted(rest))
  BY <1>2, RemoveAtKeeps
<1>6. ASSUME ~env.network, OneEach(events)
      PROVE  /\ OneEach(rest) /\ \A j \in 1 .. Len(rest) : rest[j].id # x.id
             /\ num_send' - Cardinality(SentIn(rest)) = num_send - Cardinality(SentIn(events))
             /\ num_send' <= num_send
             /\ \A e, s : Listed(rest, e, s) <=> e # x.id /\ Listed(events, e, s)
  <2>1. CASE rest = events /\ num_send' = num_send /\ \A j \in 1 .. Len(events) : events[j].id # x.id
    BY <1>6, <2>1 DEF Listed
  <2>2. ASSUME NEW i \in 1 .. Len(events), events[i].id = x.id, rest = RemoveAt(events, i),
               i \in SentIn(events) => num_send' = num_send - 1,
               i \notin SentIn(events) => num_send' = num_send
        PROVE  /\ OneEach(rest) /\ \A j \in 1 .. Len(rest) : rest[j].id # x.id
               /\ num_send' - Cardinality(SentIn(rest)) = num_send - Cardinality(SentIn(events))
               /\ num_send' <= num_send
               /\ \A e, s : Listed(rest, e, s) <=> e # x.id /\ Listed(events, e, s)
    <3>1. /\ OneEach(rest) /\ \A j \in 1 .. Len(rest) : rest[j].id # x.id
          /\ i \in SentIn(events) => Cardinality(SentIn(events)) = Cardinality(SentIn(rest)) + 1
          /\ i \notin SentIn(events) => Cardinality(SentIn(events)) = Cardinality(SentIn(rest))
          /\ Cardinality(SentIn(rest)) \in Nat
      BY <1>6, <2>2, RemoveAtKeeps
    <3>2. ASSUME NEW e, NEW s PROVE Listed(rest, e, s) <=> e # x.id /\ Listed(events, e, s)
      <4>1. Listed(rest, e, s) => Listed(events, e, s)
        BY <2>2, RemoveAtKeeps
      <4>2. Listed(events, e, s) => Listed(rest, e, s) \/ e = x.id
        BY <2>2, RemoveAtKeeps
      <4>3. Listed(rest, e, s) => e # x.id
        BY <3>1 DEF Listed
      <4> QED BY <4>1, <4>2, <4>3
    <3> QED BY <2>2, <3>1, <3>2
  <2> QED BY <1>2, <1>6, <2>1, <2>2
<1>7. CASE ~Wanted(x)
  <2>1. events' = rest
    BY <1>1, <1>7
  <2> QED BY <1>3, <1>4, <1>5, <1>6, <1>7, <2>1
<1>8. CASE Wanted(x)
  <2>1. events' = addEvent(rest, x)
    BY <1>1, <1>8
  <2>2. /\ events' \in Seq(Entry)
        /\ Sorted(rest) => Sorted(events')
        /\ OneEach(rest) /\ (\A j \in 1 .. Len(rest) : rest[j].id # x.id) => OneEach(events')
        /\ Cardinality(SentIn(events')) = Cardinality(SentIn(rest))
        /\ \A e, s : Listed(events', e, s) <=> Listed(rest, e, s) \/ (e = x.id /\ s = x.start)
    BY <1>5, <2>1, AddEventKeeps
  <2> QED BY <1>3, <1>4, <1>5, <1>6, <1>8, <2>2
<1> QED BY <1>7, <1>8

\* The i-th entry, which was not sent, is marked as sent.
Mark(list, i, new) == i \notin SentIn(list) /\ new = [list EXCEPT ![i].sent = TRUE]

\* An entry marked as sent counts as one more, and stays what it was.
LEMMA MarkedSent ==
  ASSUME NEW list \in Seq(Entry), NEW i \in 1 .. Len(list), NEW new, Mark(list, i, new)
  PROVE  /\ new \in Seq(Entry)
         /\ Sorted(list) => Sorted(new)
         /\ OneEach(list) => OneEach(new)
         /\ Cardinality(SentIn(new)) = Cardinality(SentIn(list)) + 1
         /\ Cardinality(SentIn(list)) \in Nat
         /\ \A e, s : Listed(new, e, s) <=> Listed(list, e, s)
<1>1. list[i] \in Entry
  BY StartIsNat
<1> DEFINE mark == [list[i] EXCEPT !.sent = TRUE]
<1>2. mark \in Entry /\ mark.id = list[i].id /\ mark.start = list[i].start /\ mark.sent
  BY <1>1 DEF Entry
<1>3. new = [list EXCEPT ![i] = mark] /\ i \notin SentIn(list)
  BY DEF Mark
<1> HIDE DEF mark
<1>4. /\ new \in Seq(Entry) /\ Len(new) = Len(list)
      /\ \A j \in 1 .. Len(list) : new[j] = IF j = i THEN mark ELSE list[j]
  <2>1. mark \in Entry
    BY <1>2
  <2>2. /\ [list EXCEPT ![i] = mark] \in Seq(Entry)
        /\ Len([list EXCEPT ![i] = mark]) = Len(list)
        /\ \A j \in 1 .. Len(list) : [list EXCEPT ![i] = mark][j] = IF j = i THEN mark ELSE list[j]
    BY <2>1, ExceptSeq
  <2> QED BY <1>3, <2>2
<1>5. \A j \in 1 .. Len(list) : new[j].id = list[j].id /\ new[j].start = list[j].start
  BY <1>2, <1>4
<1>6. SentIn(new) = SentIn(list) \cup {i}
  <2>1. SentIn(new) \subseteq 1 .. Len(list) /\ SentIn(list) \subseteq 1 .. Len(list)
    BY <1>4 DEF SentIn
  <2>2. i \in SentIn(new)
    BY <1>2, <1>4 DEF SentIn
  <2>3. ASSUME NEW j \in 1 .. Len(list), j # i PROVE j \in SentIn(new) <=> j \in SentIn(list)
    BY <1>4, <2>3 DEF SentIn
  <2> QED BY <2>1, <2>2, <2>3
<1>7. IsFiniteSet(SentIn(list))
  <2>1. Len(list) \in Nat /\ IsFiniteSet(1 .. Len(list))
    <3>1. Len(list) \in Int /\ Len(list) \in Nat
      OBVIOUS
    <3> QED BY <3>1, FS_Interval
  <2>2. SentIn(list) \subseteq 1 .. Len(list)
    BY DEF SentIn
  <2> QED BY <2>1, <2>2, FS_Subset
<1>8. /\ Cardinality(SentIn(new)) = Cardinality(SentIn(list)) + 1
      /\ Cardinality(SentIn(list)) \in Nat
  BY <1>3, <1>6, <1>7, FS_AddElement, FS_CardinalityType
<1>9. Sorted(list) => Sorted(new)
  BY <1>4, <1>5 DEF Sorted
<1>10. OneEach(list) => OneEach(new)
  BY <1>4, <1>5 DEF OneEach
<1>11. \A e, s : Listed(new, e, s) <=> Listed(list, e, s)
  BY <1>4, <1>5 DEF Listed
<1> QED BY <1>4, <1>8, <1>9, <1>10, <1>11

\* Every step leaves the list alone, erases an entry that is over, merges an item, or marks
\* an entry as sent while there is room.
LEMMA ListSteps ==
  ASSUME events \in Seq(Entry), num_send \in Int, fetched \in SUBSET Item, [Next]_vars
  PROVE  /\ env' = env
         /\ \/ events' = events /\ num_send' = num_send
            \/ /\ pc = "clean" /\ pc' = "clean"
               /\ UNCHANGED <<calendar, ready, timestamp, tmit, local>>
               /\ \E i \in 1 .. Len(events) : Erase(i) /\ events[i].start < local
            \/ \E x \in fetched : Merge(x)
            \/ /\ pc = "send" /\ pc' = "send"
               /\ UNCHANGED <<calendar, ready, timestamp, tmit, local>>
               /\ num_send # MaxSend /\ num_send' = num_send + 1
               /\ \E i \in 1 .. Len(events) : Mark(events, i, events')
<1>1. env' = env
  BY ActionsDefined DEF ReadTime, send_time, getAllEvents, action, deleteOldEvents, OldEventsDeleted,
     getNewEvents, Merge, Merged, sendEvent, sendEventsReturns, Change, Tick, vars, outside
<1>2. CASE deleteOldEvents
  <2>1. CASE events[next].start < local
    <3>1. /\ next \in 1 .. Len(events) /\ events' = RemoveAt(events, next)
          /\ num_send' = IF events[next].sent THEN num_send - 1 ELSE num_send
          /\ pc = "clean" /\ pc' = "clean" /\ UNCHANGED <<calendar, ready, timestamp, tmit, local>>
      BY <1>2, <2>1 DEF deleteOldEvents, outside
    <3>2. Erase(next)
      <4>1. CASE next \in SentIn(events)
        <5>1. events[next].sent
          BY <4>1, Zenon DEF SentIn
        <5> QED BY <3>1, <4>1, <5>1 DEF Erase
      <4>2. CASE next \notin SentIn(events)
        <5>1. ~events[next].sent
          BY <3>1, <4>2 DEF SentIn
        <5> QED BY <3>1, <4>2, <5>1 DEF Erase
      <4> QED BY <4>1, <4>2
    <3> QED BY <1>1, <2>1, <3>1, <3>2
  <2>2. CASE ~(events[next].start < local)
    BY <1>1, <1>2, <2>2 DEF deleteOldEvents
  <2> QED BY <2>1, <2>2
<1>3. CASE sendEvent
  <2>1. Unsent = 0 \/ (Unsent \in 1 .. Len(events) /\ Unsent \notin SentIn(events))
    BY FirstUnsent DEF Unsent
  <2>2. \/ events' = events /\ num_send' = num_send
        \/ /\ events' = [events EXCEPT ![Unsent].sent = TRUE]
           /\ num_send # MaxSend /\ num_send' = num_send + 1 /\ Unsent # 0
           /\ pc = "send" /\ pc' = "send" /\ UNCHANGED <<calendar, ready, timestamp, tmit, local>>
    BY <1>3 DEF sendEvent, outside
  <2> QED BY <1>1, <2>1, <2>2 DEF Mark
<1>4. CASE \E x \in fetched : Merge(x)
  BY <1>1, <1>4
<1>5. CASE \/ ReadTime \/ send_time \/ getAllEvents \/ action \/ OldEventsDeleted \/ getNewEvents
           \/ Merged \/ sendEventsReturns \/ Tick \/ UNCHANGED vars
           \/ \E e \in Event, start \in Start, live \in BOOLEAN : Change(e, start, live)
  <2>1. events' = events /\ num_send' = num_send
    BY <1>5 DEF ReadTime, send_time, getAllEvents, action, OldEventsDeleted, getNewEvents, Merged,
       sendEventsReturns, Change, Tick, vars, account
  <2> QED BY <1>1, <2>1
<1> QED BY <1>2, <1>3, <1>4, <1>5, ActionsDefined

-----------------------------------------------------------------------------
(* The types                                                                   *)

LEMMA EnvType ==
  /\ env \in Environment => env.changes \in Nat /\ env.count \in Int
  /\ LastTime \in Nat
<1>1. Environment \subseteq [calendar : BOOLEAN, network : BOOLEAN, ntp : BOOLEAN,
                             count : Int, distinct : BOOLEAN, changes : Nat]
  BY DispatcherAssumption
<1>2. LastTime \in Nat
  BY DispatcherAssumption
<1> QED BY <1>1, <1>2

LEMMA InitType == Init => TypeOK
<1> SUFFICES ASSUME Init PROVE TypeOK
  OBVIOUS
<1>1. env.changes \in Nat /\ env.count \in Int /\ LastTime \in Nat
  BY EnvType DEF Init
<1>2. calendar \in [Event -> [start : Start, live : BOOLEAN, changed : 0 .. now]]
  BY DEF Init
<1>3. events \in Seq(Entry)
  BY DEF Init
<1>4. /\ env \in Environment /\ now \in 0 .. LastTime /\ changes \in 0 .. env.changes
      /\ num_send \in Int
  BY <1>1 DEF Init
<1>5. ready \in BOOLEAN /\ fetched \in SUBSET Item /\ out \in Command \cup {Silence}
  BY DEF Init
<1> QED BY <1>2, <1>3, <1>4, <1>5 DEF Init, TypeOK

\* What a command carries: a start, or the time that is sent to the clock.
LEMMA CommandType ==
  /\ \A t \in 0 .. LastTime : [cmd |-> "S", at |-> t] \in Command
  /\ \A t \in Start : [cmd |-> "M", at |-> t] \in Command /\ [cmd |-> "D", at |-> t] \in Command
BY DEF Command

\* The time of a round is not ahead of the clock.
LEMMA TimeType ==
  ASSUME now \in Nat, NEW t \in -1 .. now
  PROVE  Time(t) \in 0 .. now
BY DEF Time

LEMMA SnapshotType ==
  ASSUME calendar \in [Event -> [start : Start, live : BOOLEAN, changed : 0 .. now]], NEW since
  PROVE  Snapshot(since) \in SUBSET Item
<1>1. \A e \in Event : calendar[e] \in [start : Start, live : BOOLEAN, changed : 0 .. now]
  OBVIOUS
<1>2. \A e \in Event : [id |-> e, start |-> calendar[e].start, live |-> calendar[e].live] \in Item
  BY <1>1 DEF Item
<1> QED BY <1>2 DEF Snapshot

\* Every step keeps the types.
LEMMA NextType == TypeOK /\ [Next]_vars => TypeOK'
<1> SUFFICES ASSUME TypeOK, [Next]_vars PROVE TypeOK'
  OBVIOUS
<1>0. /\ env.changes \in Nat /\ LastTime \in Nat /\ now \in Nat
      /\ env \in Environment /\ now \in 0 .. LastTime /\ changes \in 0 .. env.changes
      /\ calendar \in [Event -> [start : Start, live : BOOLEAN, changed : 0 .. now]]
      /\ pc \in {"start", "time", "clean", "fetch", "merge", "send", "sleep", "stopped"}
      /\ ready \in BOOLEAN /\ events \in Seq(Entry) /\ num_send \in Int
      /\ timestamp \in 0 .. now /\ tmit \in -1 .. now /\ local \in 0 .. now /\ next \in Nat
      /\ fetched \in SUBSET Item
      /\ out \in Command \cup {Silence}
  BY EnvType DEF TypeOK
<1>1. env' \in Environment /\ events' \in Seq(Entry) /\ num_send' \in Int
  <2>1. env' = env
    BY <1>0, ListSteps
  <2>2. ASSUME NEW i \in 1 .. Len(events), Erase(i) PROVE events' \in Seq(Entry) /\ num_send' \in Int
    BY <1>0, <2>2, RemoveAtKeeps DEF Erase
  <2>3. ASSUME NEW x \in fetched, Merge(x) PROVE events' \in Seq(Entry) /\ num_send' \in Int
    BY <1>0, <2>3, MergeEffect
  <2>4. ASSUME NEW i \in 1 .. Len(events), Mark(events, i, events')
        PROVE  events' \in Seq(Entry)
    BY <1>0, <2>4, MarkedSent
  <2>5. /\ env' = env
        /\ \/ events' = events /\ num_send' = num_send
           \/ \E i \in 1 .. Len(events) : Erase(i)
           \/ \E x \in fetched : Merge(x)
           \/ num_send' = num_send + 1 /\ \E i \in 1 .. Len(events) : Mark(events, i, events')
    BY <1>0, ListSteps
  <2> QED BY <1>0, <2>2, <2>3, <2>4, <2>5
<1>2. /\ now' \in 0 .. LastTime /\ changes' \in 0 .. env'.changes /\ now' >= now
      /\ calendar' \in [Event -> [start : Start, live : BOOLEAN, changed : 0 .. now']]
  <2>1. CASE UNCHANGED outside
    BY <1>0, <2>1 DEF outside
  <2>2. ASSUME NEW e \in Event, NEW start \in Start, NEW live \in BOOLEAN, Change(e, start, live)
        PROVE  /\ now' \in 0 .. LastTime /\ changes' \in 0 .. env'.changes /\ now' >= now
               /\ calendar' \in [Event -> [start : Start, live : BOOLEAN, changed : 0 .. now']]
    <3>1. /\ now' = now /\ env' = env /\ changes < env.changes /\ changes' = changes + 1
          /\ calendar' = [calendar EXCEPT ![e] = [start |-> start, live |-> live, changed |-> now]]
      BY <2>2 DEF Change
    <3>2. [start |-> start, live |-> live, changed |-> now] \in [start : Start, live : BOOLEAN, changed : 0 .. now]
      BY <1>0
    <3>3. calendar' \in [Event -> [start : Start, live : BOOLEAN, changed : 0 .. now]]
      BY <1>0, <3>1, <3>2
    <3> QED BY <1>0, <3>1, <3>3
  <2>3. CASE Tick
    <3>1. now' = now + 1 /\ now < LastTime /\ env' = env /\ changes' = changes /\ calendar' = calendar
      BY <2>3 DEF Tick
    <3>2. 0 .. now \subseteq 0 .. now'
      BY <1>0, <3>1
    <3>3. [start : Start, live : BOOLEAN, changed : 0 .. now] \subseteq [start : Start, live : BOOLEAN, changed : 0 .. now']
      BY <3>2
    <3> QED BY <1>0, <3>1, <3>3
  <2> QED BY <2>1, <2>2, <2>3, ActionsDefined DEF ReadTime, send_time, getAllEvents, action,
     deleteOldEvents, OldEventsDeleted, getNewEvents, Merge, Merged, sendEvent, sendEventsReturns, vars
<1>3. /\ ready' \in BOOLEAN /\ next' \in Nat
      /\ pc' \in {"start", "time", "clean", "fetch", "merge", "send", "sleep", "stopped"}
  <2>1. ready' \in BOOLEAN
    <3>1. ready' = ready \/ ready' = TRUE
      BY ActionsDefined DEF ReadTime, send_time, getAllEvents, Fetch, action, deleteOldEvents,
         OldEventsDeleted, getNewEvents, Merge, Merged, sendEvent, sendEventsReturns, Change, Tick, vars, account
    <3> QED BY <1>0, <3>1
  <2>2. next' \in Nat
    <3>1. CASE action \/ deleteOldEvents \/ OldEventsDeleted
      BY <1>0, <3>1 DEF action, deleteOldEvents, OldEventsDeleted
    <3>2. CASE UNCHANGED next
      BY <1>0, <3>2
    <3> QED BY <3>1, <3>2, ActionsDefined DEF ReadTime, send_time, getAllEvents, getNewEvents, Merge, Merged,
         sendEvent, sendEventsReturns, Change, Tick, vars, account
  <2>3. pc' \in {"start", "time", "clean", "fetch", "merge", "send", "sleep", "stopped"}
    <3>1. CASE ReadTime \/ send_time \/ getAllEvents \/ action \/ deleteOldEvents \/ OldEventsDeleted
      BY <1>0, <3>1 DEF ReadTime, send_time, getAllEvents, Fetch, action, deleteOldEvents, OldEventsDeleted
    <3>2. CASE getNewEvents \/ Merged \/ sendEvent \/ sendEventsReturns
      BY <1>0, <3>2 DEF getNewEvents, Fetch, Merged, sendEvent, sendEventsReturns
    <3>3. CASE UNCHANGED pc
      BY <1>0, <3>3
    <3> QED BY <3>1, <3>2, <3>3, ActionsDefined DEF Merge, Change, Tick, vars, account
  <2> QED BY <2>1, <2>2, <2>3
<1>4. timestamp' \in 0 .. now' /\ tmit' \in -1 .. now' /\ local' \in 0 .. now'
  <2>1. now' \in Nat /\ 0 .. now \subseteq 0 .. now' /\ -1 .. now \subseteq -1 .. now'
    BY <1>0, <1>2
  <2>2. timestamp' \in 0 .. now /\ tmit' \in -1 .. now /\ local' \in 0 .. now
    <3>1. \A t \in ntpdate : t \in -1 .. now /\ Time(t) \in 0 .. now
      BY <1>0, TimeType DEF ntpdate
    <3>2. Time(tmit) \in 0 .. now
      BY <1>0, TimeType
    <3>3. CASE ReadTime \/ action
      BY <1>0, <3>1, <3>3 DEF ReadTime, action
    <3>4. CASE send_time \/ OldEventsDeleted \/ Merged
      BY <1>0, <3>2, <3>4 DEF send_time, OldEventsDeleted, Merged
    <3>5. CASE UNCHANGED <<timestamp, tmit, local>>
      BY <1>0, <3>5
    <3> QED BY <3>3, <3>4, <3>5, ActionsDefined DEF getAllEvents, deleteOldEvents, getNewEvents, Merge,
         sendEvent, sendEventsReturns, Change, Tick, vars, account
  <2> QED BY <2>1, <2>2
<1>5. fetched' \in SUBSET Item
  BY <1>0, SnapshotType, ActionsDefined DEF ReadTime, send_time, getAllEvents, Fetch, action, deleteOldEvents,
     OldEventsDeleted, getNewEvents, Merge, Merged, sendEvent, sendEventsReturns, Change, Tick, vars, account
<1>6. out' \in Command \cup {Silence}
  <2>1. CASE send_time
    <3>1. Time(tmit) \in 0 .. LastTime
      BY <1>0, TimeType
    <3> QED BY <2>1, <3>1, CommandType DEF send_time, Send, SendFails
  <2>2. ASSUME NEW x \in fetched, Merge(x) PROVE out' \in Command \cup {Silence}
    <3>1. out' = Silence \/ \E i \in 1 .. Len(events) : out' = [cmd |-> "D", at |-> events[i].start]
      BY <1>0, <2>2, MergeEffect
    <3>2. \A i \in 1 .. Len(events) : events[i].start \in Start
      BY <1>0, StartIsNat DEF Entry
    <3> QED BY <3>1, <3>2, CommandType
  <2>3. CASE sendEvent
    <3>1. Unsent = 0 \/ Unsent \in 1 .. Len(events)
      BY <1>0, FirstUnsent DEF Unsent
    <3>2. \A i \in 1 .. Len(events) : events[i].start \in Start
      BY <1>0, StartIsNat DEF Entry
    <3> QED BY <2>3, <3>1, <3>2, CommandType DEF sendEvent, send_new_event, Send, SendFails
  <2>4. CASE out' = Silence \/ out' = out
    BY <1>0, <2>4
  <2> QED BY <2>1, <2>2, <2>3, <2>4, ActionsDefined DEF ReadTime, getAllEvents, action, deleteOldEvents,
       OldEventsDeleted, getNewEvents, Merged, sendEventsReturns, Change, Tick, vars
<1> QED BY <1>1, <1>2, <1>3, <1>4, <1>5, <1>6 DEF TypeOK

-----------------------------------------------------------------------------
(* The list and its count                                                      *)

LEMMA ListWords ==
  ASSUME events \in Seq(Entry)
  PROVE  /\ ListSorted <=> Sorted(events)
         /\ OnePerEvent <=> (~env.network => OneEach(events))
<1>1. DOMAIN events = 1 .. Len(events)
  OBVIOUS
<1> QED BY <1>1 DEF ListSorted, OnePerEvent, Sorted, OneEach

LEMMA InitList == Init => ListSorted /\ OnePerEvent /\ CountsSent
<1> SUFFICES ASSUME Init PROVE ListSorted /\ OnePerEvent /\ CountsSent
  OBVIOUS
<1>1. events = <<>> /\ num_send = env.count
  BY DEF Init
<1>2. SentIn(events) = {}
  BY <1>1 DEF SentIn
<1>3. Cardinality(SentIn(events)) = 0
  BY <1>2, FS_EmptySet
<1>4. MaxSend \in Nat \ {0}
  BY DispatcherAssumption
<1> QED BY <1>1, <1>3, <1>4 DEF ListSorted, OnePerEvent, CountsSent

\* Every step keeps the order, the one entry of each event, and the count.
LEMMA NextList ==
  TypeOK /\ ListSorted /\ OnePerEvent /\ CountsSent /\ [Next]_vars
    => ListSorted' /\ OnePerEvent' /\ CountsSent'
<1> SUFFICES ASSUME TypeOK, ListSorted, OnePerEvent, CountsSent, [Next]_vars
             PROVE  ListSorted' /\ OnePerEvent' /\ CountsSent'
  OBVIOUS
<1>0. events \in Seq(Entry) /\ num_send \in Int /\ fetched \in SUBSET Item /\ MaxSend \in Nat
  BY DispatcherAssumption DEF TypeOK
<1>1. Sorted(events) /\ (~env.network => OneEach(events))
  BY <1>0, ListWords
<1>2. ~env.network /\ env.count = 0 =>
        num_send = Cardinality(SentIn(events)) /\ num_send <= MaxSend
  BY DEF CountsSent
<1> DEFINE Kept == /\ Sorted(events')
                   /\ ~env.network => OneEach(events')
                   /\ ~env.network /\ env.count = 0 =>
                        num_send' = Cardinality(SentIn(events')) /\ num_send' <= MaxSend
<1>3. ASSUME NEW i \in 1 .. Len(events), Erase(i) PROVE Kept
  <2>1. events' = RemoveAt(events, i)
    BY <1>3 DEF Erase
  <2>2. /\ Sorted(events') /\ (OneEach(events) => OneEach(events'))
        /\ i \in SentIn(events) => Cardinality(SentIn(events)) = Cardinality(SentIn(events')) + 1
        /\ i \notin SentIn(events) => Cardinality(SentIn(events)) = Cardinality(SentIn(events'))
        /\ Cardinality(SentIn(events')) \in Nat
    BY <1>0, <1>1, <2>1, RemoveAtKeeps
  <2> QED BY <1>0, <1>1, <1>2, <1>3, <2>2 DEF Erase
<1>4. ASSUME NEW x \in fetched, Merge(x) PROVE Kept
  <2>1. /\ Sorted(events') /\ num_send' \in Int
        /\ ~env.network /\ OneEach(events) =>
             /\ OneEach(events')
             /\ num_send' - Cardinality(SentIn(events')) = num_send - Cardinality(SentIn(events))
             /\ num_send' <= num_send
    BY <1>0, <1>1, <1>4, MergeEffect
  <2>2. Cardinality(SentIn(events')) \in Int
    <3>1. events' \in Seq(Entry)
      BY <1>0, <1>4, MergeEffect
    <3>2. SentIn(events') \subseteq 1 .. Len(events') /\ Len(events') \in Int
      BY <3>1 DEF SentIn
    <3>3. IsFiniteSet(1 .. Len(events'))
      BY <3>2, FS_Interval
    <3>4. IsFiniteSet(SentIn(events'))
      BY <3>2, <3>3, FS_Subset
    <3> QED BY <3>4, FS_CardinalityType
  <2> QED BY <1>0, <1>1, <1>2, <2>1, <2>2
<1>5. ASSUME NEW i \in 1 .. Len(events), Mark(events, i, events'),
             num_send # MaxSend, num_send' = num_send + 1
      PROVE  Kept
  <2>1. /\ Sorted(events) => Sorted(events')
        /\ OneEach(events) => OneEach(events')
        /\ Cardinality(SentIn(events')) = Cardinality(SentIn(events)) + 1
    BY <1>0, <1>5, MarkedSent
  <2> QED BY <1>0, <1>1, <1>2, <1>5, <2>1
<1>6. Kept
  <2>1. CASE events' = events /\ num_send' = num_send
    BY <1>1, <1>2, <2>1
  <2> HIDE DEF Kept
  <2> QED BY <1>0, <1>3, <1>4, <1>5, <2>1, ListSteps
<1>7. env' = env /\ events' \in Seq(Entry)
  BY <1>0, ListSteps, NextType DEF TypeOK
<1>8. DOMAIN events' = 1 .. Len(events')
  BY <1>7
<1> QED BY <1>6, <1>7, <1>8 DEF ListSorted, OnePerEvent, CountsSent, Sorted, OneEach

-----------------------------------------------------------------------------
(* List and calendar                                                           *)

LEMMA InitSync == Init => SyncInv
BY DEF Init, SyncInv, TimeIsKnown, AgreesSince, Merging

LEMMA ReliableWords ==
  Reliable => ~env.calendar /\ ~env.network /\ ~env.ntp
BY DEF Reliable

\* A snapshot has one item of an event, as the calendar has it.
LEMMA SnapshotItems ==
  ASSUME NEW since
  PROVE  /\ \A e \in Event : calendar[e].changed >= since => ItemOf(e) \in Snapshot(since)
         /\ \A x \in Snapshot(since) : \E e \in Event : x.id = e /\ x = ItemOf(e) /\ calendar[e].changed >= since
         /\ \A x, y \in Snapshot(since) : x.id = y.id => x = y
<1>1. Snapshot(since) = {ItemOf(e) : e \in {f \in Event : calendar[f].changed >= since}}
  BY DEF Snapshot, ItemOf
<1>2. \A e \in Event : ItemOf(e).id = e
  BY DEF ItemOf
<1> QED BY <1>1, <1>2

\* Every step keeps list and calendar in agreement, if nothing fails.
LEMMA NextSync == TypeOK /\ OnePerEvent /\ SyncInv /\ [Next]_vars => SyncInv'
<1> SUFFICES ASSUME TypeOK, OnePerEvent, SyncInv, [Next]_vars, Reliable'
             PROVE  TimeIsKnown' /\ AgreesSince' /\ Merging'
  BY DEF SyncInv
<1>0. /\ now \in Nat /\ timestamp \in 0 .. now /\ tmit \in -1 .. now /\ local \in 0 .. now
      /\ calendar \in [Event -> [start : Start, live : BOOLEAN, changed : 0 .. now]]
      /\ events \in Seq(Entry) /\ num_send \in Int /\ fetched \in SUBSET Item
  BY EnvType DEF TypeOK
<1>1. env' = env
  BY <1>0, ListSteps
<1>2. Reliable /\ ~env.calendar /\ ~env.network /\ ~env.ntp
  BY <1>1, ReliableWords DEF Reliable
<1>3. TimeIsKnown /\ AgreesSince /\ Merging
  BY <1>2 DEF SyncInv
<1>4. OneEach(events)
  BY <1>0, <1>2, ListWords
<1>5. CASE ReadTime
  <2>1. pc = "start" /\ pc' = "time" /\ tmit' = now /\ UNCHANGED ready
    BY <1>2, <1>5 DEF ReadTime, ntpdate
  <2> QED BY <1>0, <1>3, <2>1 DEF TimeIsKnown, AgreesSince, Merging
<1>6. CASE send_time
  <2>1. pc = "time" /\ pc' \in {"fetch", "stopped"} /\ UNCHANGED <<ready, tmit>> /\ local' = Time(tmit)
    BY <1>6 DEF send_time
  <2>2. local' = tmit' /\ tmit' # -1
    BY <1>3, <2>1 DEF TimeIsKnown, Time
  <2> QED BY <1>3, <2>1, <2>2 DEF TimeIsKnown, AgreesSince, Merging
<1>7. CASE getAllEvents \/ getNewEvents
  <2>1. /\ pc = "fetch" /\ pc' = "merge"
        /\ UNCHANGED <<calendar, events, ready, tmit, local, timestamp>>
        /\ fetched' = Snapshot(IF ready THEN timestamp ELSE 0)
    BY <1>2, <1>7 DEF getAllEvents, getNewEvents, Fetch, outside
  <2>2. TimeIsKnown' /\ AgreesSince'
    BY <1>3, <2>1 DEF TimeIsKnown, AgreesSince
  <2> DEFINE since == IF ready THEN timestamp ELSE 0
  <2>3. \A x, y \in fetched' : x.id = y.id => x = y
    BY <2>1, SnapshotItems
  <2>4. ASSUME NEW e \in Event, calendar[e].changed < local
        PROVE  ItemOf(e) \in fetched' \/ ((\A x \in fetched' : x.id # e) /\ AgreesFrom(e, local))
    <3>1. calendar[e].changed \in Nat /\ since \in Nat
      BY <1>0
    <3>2. CASE calendar[e].changed >= since
      BY <2>1, <3>2, SnapshotItems
    <3>3. CASE calendar[e].changed < since
      <4>1. ready /\ calendar[e].changed < timestamp
        BY <3>1, <3>3
      <4>2. AgreesFrom(e, local)
        BY <1>3, <2>1, <4>1 DEF AgreesSince
      <4>3. \A x \in fetched' : x.id # e
        BY <2>1, <3>1, <3>3, SnapshotItems
      <4> QED BY <4>2, <4>3
    <3> QED BY <3>1, <3>2, <3>3
  <2>5. \A e \in Event : (ItemOf(e))' = ItemOf(e) /\ (AgreesFrom(e, local))' = AgreesFrom(e, local)
    BY <2>1 DEF ItemOf, AgreesFrom
  <2>6. Merging'
    BY <2>1, <2>3, <2>4, <2>5 DEF Merging
  <2> QED BY <2>2, <2>6
<1>8. CASE action
  <2>1. /\ pc = "sleep" /\ pc' = "clean" /\ now > local
        /\ tmit' = now /\ local' = Time(tmit')
        /\ UNCHANGED <<calendar, events, ready, timestamp>>
    BY <1>2, <1>8 DEF action, ntpdate, outside
  <2>2. local' = now /\ tmit' # -1
    BY <1>0, <2>1 DEF Time
  <2>3. ASSUME NEW e \in Event, calendar[e].changed < timestamp PROVE AgreesFrom(e, local)'
    <3>1. AgreesFrom(e, local)
      BY <1>3, <2>1, <2>3 DEF AgreesSince
    <3>2. \A s \in Start : s \in Nat
      BY StartIsNat
    <3> QED BY <1>0, <2>1, <2>2, <3>1, <3>2 DEF AgreesFrom
  <2> QED BY <1>3, <2>1, <2>2, <2>3 DEF TimeIsKnown, AgreesSince, Merging
<1>9. CASE pc = "clean" /\ pc' = "clean" /\ UNCHANGED <<calendar, ready, timestamp, tmit, local>>
           /\ \E i \in 1 .. Len(events) : Erase(i) /\ events[i].start < local
  <2>1. PICK i \in 1 .. Len(events) : Erase(i) /\ events[i].start < local
    BY <1>9
  <2>2. ASSUME NEW e, NEW s
        PROVE  /\ Listed(events', e, s) => Listed(events, e, s)
               /\ Listed(events, e, s) => Listed(events', e, s) \/ s = events[i].start
    <3>1. events' = RemoveAt(events, i)
      BY <2>1 DEF Erase
    <3> QED BY <1>0, <3>1, RemoveAtKeeps
  <2>3. ASSUME NEW e \in Event, AgreesFrom(e, local) PROVE AgreesFrom(e, local)'
    <3>1. \A s \in Start : s \in Nat
      BY StartIsNat
    <3> QED BY <1>0, <1>9, <2>1, <2>2, <2>3, <3>1 DEF AgreesFrom
  <2> QED BY <1>3, <1>9, <2>3 DEF TimeIsKnown, AgreesSince, Merging
<1>10. CASE OldEventsDeleted
  <2>1. pc = "clean" /\ pc' = "fetch" /\ UNCHANGED <<calendar, events, ready, timestamp, tmit>> /\ local' = Time(tmit)
    BY <1>10 DEF OldEventsDeleted, outside
  <2>2. local' = local /\ tmit' # -1 /\ local = tmit
    BY <1>3, <2>1 DEF TimeIsKnown, Time
  <2>3. \A e \in Event : AgreesFrom(e, local)' = AgreesFrom(e, local)
    BY <2>1, <2>2 DEF AgreesFrom
  <2> QED BY <1>3, <2>1, <2>2, <2>3 DEF TimeIsKnown, AgreesSince, Merging
<1>11. ASSUME NEW x \in fetched, Merge(x) PROVE TimeIsKnown' /\ AgreesSince' /\ Merging'
  <2>1. /\ pc = "merge" /\ pc' = "merge" /\ UNCHANGED <<calendar, ready, timestamp, tmit, local>>
        /\ fetched' = fetched \ {x}
    BY <1>11 DEF Merge, outside
  <2>2. \A e, s : Listed(events', e, s) <=>
          IF e = x.id THEN s = x.start /\ Wanted(x) ELSE Listed(events, e, s)
    BY <1>0, <1>2, <1>4, <1>11, MergeEffect
  <2>3. /\ \A y, z \in fetched : y.id = z.id => y = z
        /\ \A e \in Event : calendar[e].changed < local =>
             ItemOf(e) \in fetched \/ ((\A y \in fetched : y.id # e) /\ AgreesFrom(e, local))
    BY <1>3, <2>1 DEF Merging
  <2>4. \A e \in Event : (ItemOf(e))' = ItemOf(e) /\ ItemOf(e).id = e
    BY <2>1 DEF ItemOf
  <2>5. ASSUME NEW e \in Event, calendar[e].changed < local
        PROVE  ItemOf(e) \in fetched' \/ ((\A y \in fetched' : y.id # e) /\ AgreesFrom(e, local)')
    <3>1. CASE ItemOf(e) = x
      <4>1. x.id = e /\ x.start = calendar[e].start /\ (Wanted(x) <=> calendar[e].live /\ calendar[e].start >= local)
        BY <3>1 DEF ItemOf, Wanted
      <4>2. \A y \in fetched' : y.id # e
        BY <2>1, <2>3, <4>1
      <4>3. \A s \in Start : Listed(events', e, s) <=> s = calendar[e].start /\ calendar[e].live /\ calendar[e].start >= local
        BY <2>2, <4>1
      <4>4. AgreesFrom(e, local)'
        BY <2>1, <4>3 DEF AgreesFrom
      <4> QED BY <4>2, <4>4
    <3>2. CASE ItemOf(e) \in fetched /\ ItemOf(e) # x
      BY <2>1, <3>2
    <3>3. CASE ItemOf(e) \notin fetched
      <4>1. (\A y \in fetched : y.id # e) /\ AgreesFrom(e, local)
        BY <2>3, <2>5, <3>3
      <4>2. \A s : Listed(events', e, s) <=> Listed(events, e, s)
        BY <2>2, <4>1
      <4>3. AgreesFrom(e, local)'
        BY <2>1, <4>1, <4>2 DEF AgreesFrom
      <4> QED BY <2>1, <4>1, <4>3
    <3> QED BY <3>1, <3>2, <3>3
  <2>6. Merging'
    BY <2>1, <2>3, <2>4, <2>5 DEF Merging
  <2> QED BY <1>3, <2>1, <2>6 DEF TimeIsKnown, AgreesSince
<1>12. CASE Merged
  <2>1. /\ pc = "merge" /\ pc' = "send" /\ fetched = {}
        /\ UNCHANGED <<calendar, events, ready, tmit, local>>
        /\ timestamp' = IF ready THEN local ELSE Time(tmit)
    BY <1>12 DEF Merged, outside
  <2>2. timestamp' = local /\ local = tmit /\ tmit # -1
    BY <1>3, <2>1 DEF TimeIsKnown, Time
  <2>3. \A e \in Event : calendar[e].changed < local => AgreesFrom(e, local)
    BY <1>3, <2>1 DEF Merging
  <2>4. \A e \in Event : AgreesFrom(e, local)' = AgreesFrom(e, local)
    BY <2>1 DEF AgreesFrom
  <2> QED BY <2>1, <2>2, <2>3, <2>4 DEF TimeIsKnown, AgreesSince, Merging
<1>13. CASE pc = "send" /\ pc' = "send" /\ UNCHANGED <<calendar, ready, timestamp, tmit, local>>
            /\ \E i \in 1 .. Len(events) : Mark(events, i, events')
  <2>1. \A e, s : Listed(events', e, s) <=> Listed(events, e, s)
    BY <1>0, <1>13, MarkedSent
  <2>2. \A e \in Event : AgreesFrom(e, local) => AgreesFrom(e, local)'
    BY <1>13, <2>1 DEF AgreesFrom
  <2> QED BY <1>3, <1>13, <2>2 DEF TimeIsKnown, AgreesSince, Merging
<1>14. CASE sendEventsReturns
  <2>1. /\ pc = "send" /\ pc' = "sleep" /\ ready'
        /\ UNCHANGED <<calendar, events, timestamp, tmit, local>>
    BY <1>14 DEF sendEventsReturns, outside
  <2>2. \A e \in Event : AgreesFrom(e, local) => AgreesFrom(e, local)'
    BY <2>1 DEF AgreesFrom
  <2> QED BY <1>3, <2>1, <2>2 DEF TimeIsKnown, AgreesSince, Merging
<1>15. ASSUME NEW f \in Event, NEW start \in Start, NEW live \in BOOLEAN, Change(f, start, live)
       PROVE  TimeIsKnown' /\ AgreesSince' /\ Merging'
  <2>1. /\ UNCHANGED <<pc, events, ready, timestamp, tmit, local, fetched>>
        /\ calendar' = [calendar EXCEPT ![f] = [start |-> start, live |-> live, changed |-> now]]
    BY <1>15 DEF Change, account
  <2>2. calendar'[f].changed = now
    BY <1>0, <2>1
  <2>3. \A e \in Event : e # f => calendar'[e] = calendar[e]
    BY <1>0, <2>1
  <2>4. ASSUME NEW e \in Event, e # f
        PROVE  (ItemOf(e))' = ItemOf(e) /\ (AgreesFrom(e, local) => AgreesFrom(e, local)')
    BY <2>1, <2>3, <2>4 DEF ItemOf, AgreesFrom
  <2>5. AgreesSince'
    BY <1>0, <1>3, <2>1, <2>2, <2>3, <2>4 DEF AgreesSince
  <2>6. Merging'
    BY <1>0, <1>3, <2>1, <2>2, <2>3, <2>4 DEF Merging
  <2> QED BY <1>3, <2>1, <2>5, <2>6 DEF TimeIsKnown
<1>16. CASE UNCHANGED <<account, calendar>>
  <2>1. UNCHANGED <<pc, events, ready, timestamp, tmit, local, fetched, calendar>>
    BY <1>16 DEF account
  <2>2. \A e \in Event : (ItemOf(e))' = ItemOf(e) /\ (AgreesFrom(e, local) => AgreesFrom(e, local)')
    BY <2>1 DEF ItemOf, AgreesFrom
  <2> QED BY <1>3, <2>1, <2>2 DEF TimeIsKnown, AgreesSince, Merging
<1>17. CASE UNCHANGED <<pc, events, ready, timestamp, tmit, local, fetched, calendar>>
  <2>2. \A e \in Event : (ItemOf(e))' = ItemOf(e) /\ (AgreesFrom(e, local) => AgreesFrom(e, local)')
    BY <1>17 DEF ItemOf, AgreesFrom
  <2> QED BY <1>3, <1>17, <2>2 DEF TimeIsKnown, AgreesSince, Merging
<1>18. CASE deleteOldEvents \/ sendEvent
  <2>1. CASE events' = events
    <3>1. UNCHANGED <<pc, events, ready, timestamp, tmit, local, fetched, calendar>>
      BY <1>2, <1>18, <2>1 DEF deleteOldEvents, sendEvent, SendFails, outside
    <3> QED BY <1>17, <3>1
  <2> QED BY <1>0, <1>9, <1>11, <1>13, <2>1, ListSteps
<1>19. CASE Tick \/ UNCHANGED vars
  BY <1>16, <1>19 DEF Tick, vars, outside
<1> QED BY <1>5, <1>6, <1>7, <1>8, <1>10, <1>11, <1>12, <1>14, <1>15, <1>18, <1>19, ActionsDefined

-----------------------------------------------------------------------------
DispatcherInv == TypeOK /\ ListSorted /\ OnePerEvent /\ CountsSent /\ SyncInv

LEMMA DispatcherInvHolds == Spec => []DispatcherInv
<1>1. Init => DispatcherInv
  BY InitType, InitList, InitSync DEF DispatcherInv
<1>2. DispatcherInv /\ [Next]_vars => DispatcherInv'
  BY NextType, NextList, NextSync DEF DispatcherInv
<1> QED BY <1>1, <1>2, PTL DEF Spec

\* Whatever fails, the list of the account stays in the order of the starts, and as long
\* as every deletion gets through no event is in it twice (addEvent, remove_event_id,
\* deleteOldEvents).
THEOREM ListStaysInOrder == Spec => []ListInv
<1>1. DispatcherInv => ListInv
  BY DEF DispatcherInv, ListInv
<1> QED BY <1>1, DispatcherInvHolds, PTL

\* However rounds, failing fetches and changes of the calendar interleave, num_send counts
\* the marked entries and never passes MAX_SEND_EVENTS, if it began with zero and every
\* command gets through (sendEvents, remove_event_id, deleteOldEvents).
THEOREM SentAreCounted == Spec => []CountsSent
<1>1. DispatcherInv => CountsSent
  BY DEF DispatcherInv
<1> QED BY <1>1, DispatcherInvHolds, PTL

\* When nothing fails, an account that sleeps has missed no change made before its last
\* update, whenever the users made it (getAllEvents, getNewEvents).
THEOREM NoChangeIsMissed == Spec => []Synced
<1>1. DispatcherInv => Synced
  <2> SUFFICES ASSUME DispatcherInv, pc = "sleep", Reliable, NEW e \in Event, calendar[e].changed < timestamp
               PROVE  Agree(e)
    BY DEF Synced
  <2>1. AgreesFrom(e, local) /\ timestamp = local
    BY DEF DispatcherInv, SyncInv, AgreesSince
  <2>2. DOMAIN events = 1 .. Len(events)
    BY DEF DispatcherInv, TypeOK
  <2> QED BY <2>1, <2>2 DEF AgreesFrom, Agree, Listed
<1> QED BY <1>1, DispatcherInvHolds, PTL
-----------------------------------------------------------------------------
(* The account drives the clock: what is proved of AlarmClock holds here       *)

Alone == INSTANCE AlarmClockProofs WITH
    Schedule <- Start, SecPerMinute <- 1, BuzzerTime <- 1, DisplayTime <- 1,
    SetTo <- 0 .. LastTime, LastSecond <- LastTime, Underflow <- Size,
    StoredOnly <- FALSE, Punctual <- FALSE

LEMMA AloneAssumption == Alone!ClockAssumption
<1>1. Start \subseteq Nat \ {0} /\ LastTime \in Nat /\ Size \in 1 .. 254
  BY ServiceAssumption, DispatcherAssumption
<1> QED BY <1>1 DEF Alone!ClockAssumption

\* The clock of AlarmService is that of the proofs about AlarmClock.
LEMMA SameState ==
  /\ Alone!TypeOK <=> Clock!TypeOK
  /\ Alone!Pending = Clock!Pending /\ Alone!Pending' = Clock!Pending'
  /\ \A s : Alone!Stored(s) <=> Clock!Stored(s)
  /\ UNCHANGED clockVars => UNCHANGED Alone!vars
<1>1. Alone!TypeOK <=> Clock!TypeOK
  BY DEF Alone!TypeOK, Clock!TypeOK, Alone!Slot, Clock!Slot, Alone!None, Clock!None, Alone!Page, Clock!Page
<1>2. Alone!Pending = Clock!Pending /\ Alone!Pending' = Clock!Pending'
  BY DEF Alone!Pending, Clock!Pending
<1>3. \A s : Alone!Stored(s) <=> Clock!Stored(s)
  BY DEF Alone!Stored, Clock!Stored, Alone!Slot, Clock!Slot
<1>4. UNCHANGED clockVars => UNCHANGED Alone!vars
  BY DEF Alone!vars, Alone!queue, Alone!alarm, Alone!panel, clockVars
<1> QED BY <1>1, <1>2, <1>3, <1>4

LEMMA SameCommands ==
  ASSUME NEW s
  PROVE  /\ Alone!SetClock(s) <=> Clock!SetClock(s)
         /\ Alone!SetMeeting(s) <=> Clock!SetMeeting(s)
         /\ Alone!SetMeetingOverrun(s) <=> Clock!SetMeetingOverrun(s)
         /\ Alone!DeleteMeeting(s) <=> Clock!DeleteMeeting(s)
<1> USE DEF Alone!queue, Clock!queue, Alone!alarm, Clock!alarm, Alone!panel, Clock!panel
<1>1. Alone!SetClock(s) <=> Clock!SetClock(s)
  BY DEF Alone!SetClock, Clock!SetClock, Alone!MaySet, Clock!MaySet
<1>2. Alone!SetMeeting(s) <=> Clock!SetMeeting(s)
  BY DEF Alone!SetMeeting, Clock!SetMeeting, Alone!MayStore, Clock!MayStore, Alone!Slot, Clock!Slot,
         Alone!Full, Clock!Full, Alone!AddSchedule, Clock!AddSchedule, Alone!StopsAt, Clock!StopsAt,
         Alone!Inserted, Clock!Inserted, Alone!RTC_SET_ALARM, Clock!RTC_SET_ALARM
<1>3. Alone!SetMeetingOverrun(s) <=> Clock!SetMeetingOverrun(s)
  BY DEF Alone!SetMeetingOverrun, Clock!SetMeetingOverrun
<1>4. Alone!DeleteMeeting(s) <=> Clock!DeleteMeeting(s)
  BY DEF Alone!DeleteMeeting, Clock!DeleteMeeting, Alone!MayDelete, Clock!MayDelete, Alone!Slot, Clock!Slot,
         Alone!Stored, Clock!Stored, Alone!FindSchedule, Clock!FindSchedule, Alone!DeleteSlot, Clock!DeleteSlot,
         Alone!Removed, Clock!Removed, Alone!ArmAfterDelete, Clock!ArmAfterDelete,
         Alone!RTC_SET_ALARM, Clock!RTC_SET_ALARM, Alone!RTC_DISABLE_ALARM, Clock!RTC_DISABLE_ALARM
<1> QED BY <1>1, <1>2, <1>3, <1>4

LEMMA SameSecond == Alone!rtc_func <=> Clock!rtc_func
<1>1. Alone!Rings <=> Clock!Rings
  BY DEF Alone!Rings, Clock!Rings, Alone!Due, Clock!Due
<1>2. Alone!HandleAlarm <=> Clock!HandleAlarm
  BY DEF Alone!HandleAlarm, Clock!HandleAlarm, Alone!DeleteSlot, Clock!DeleteSlot, Alone!Removed, Clock!Removed,
         Alone!Slot, Clock!Slot, Alone!ArmAfterRing, Clock!ArmAfterRing,
         Alone!RTC_SET_ALARM, Clock!RTC_SET_ALARM, Alone!RTC_DISABLE_ALARM, Clock!RTC_DISABLE_ALARM
<1>3. Alone!Buzz(Alone!Rings) <=> Clock!Buzz(Clock!Rings)
  BY DEF Alone!Buzz, Clock!Buzz, Alone!Rings, Clock!Rings, Alone!Due, Clock!Due
<1>4. Alone!Display <=> Clock!Display
  BY DEF Alone!Display, Clock!Display, Alone!NextAlarmPage, Clock!NextAlarmPage, Alone!None, Clock!None
<1> QED
  BY <1>1, <1>2, <1>3, <1>4 DEF Alone!rtc_func, Clock!rtc_func, Alone!queue, Clock!queue, Alone!alarm, Clock!alarm

\* A step of account and clock is a step of the account, ...
LEMMA StepsOfAccount == [ServiceNext]_serviceVars => [Next]_vars
BY DEF ServiceNext, serviceVars, AccountTurn, CalendarChanges, Minute, TimeStops, Next, Outside

\* ... and a step of the clock, or leaves the clock alone.
LEMMA StepsOfClock ==
  ASSUME TypeOK', [ServiceNext]_serviceVars
  PROVE  [Alone!Next]_(Alone!vars)
<1> SUFFICES ASSUME ~UNCHANGED clockVars PROVE Alone!Next
  BY SameState
<1>1. CASE AccountTurn
  <2>1. /\ ~overrun
        /\ \/ out'.cmd = "S" /\ Clock!SetClock(out'.at) /\ UNCHANGED overrun
           \/ out'.cmd = "M" /\ Clock!SetMeeting(out'.at) /\ UNCHANGED overrun
           \/ out'.cmd = "M" /\ Clock!SetMeetingOverrun(out'.at)
           \/ out'.cmd = "D" /\ Clock!DeleteMeeting(out'.at) /\ UNCHANGED overrun
    BY <1>1 DEF AccountTurn, Execute
  <2>2. /\ out'.cmd = "S" => out'.at \in 0 .. LastTime
        /\ out'.cmd \in {"M", "D"} => out'.at \in Start
    BY DEF TypeOK, Command, Silence
  <2> QED BY <2>1, <2>2, SameCommands DEF Alone!Next, Alone!Command
<1>2. CASE Minute
  BY <1>2, SameSecond DEF Minute, Alone!Next
<1> QED
  BY <1>1, <1>2 DEF ServiceNext, serviceVars, CalendarChanges

LEMMA ClockStarts == ServiceInit => Alone!Init
BY DEF ServiceInit, Alone!Init, Clock!Init, Alone!Slot, Clock!Slot, Alone!None, Clock!None

LEMMA AccountHolds == ServiceSpec => Spec
<1>1. ServiceInit => Init
  BY DEF ServiceInit
<1> QED BY <1>1, StepsOfAccount, PTL DEF ServiceSpec, Spec

\* Whatever an account sends, and whenever, the clock it is connected to runs as AlarmClock
\* says (send_packet, handle_input, rtc_func).
THEOREM ClockIsDriven == ServiceSpec => Alone!Spec
<1>1. ServiceInit => Alone!Init
  BY ClockStarts
<1>2. TypeOK' /\ [ServiceNext]_serviceVars => [Alone!Next]_(Alone!vars)
  BY StepsOfClock
<1>3. Spec => []TypeOK
  <2>1. DispatcherInv => TypeOK
    BY DEF DispatcherInv
  <2> QED BY <2>1, DispatcherInvHolds, PTL
<1> QED BY <1>1, <1>2, <1>3, AccountHolds, PTL DEF ServiceSpec, Alone!Spec
-----------------------------------------------------------------------------
(* What was sent, in the list                                                  *)

\* An entry of the list that was sent starts at s; no two such entries start at once.
SentAt(list, s) == \E i \in SentIn(list) : list[i].start = s

SentApart(list) == \A i, j \in SentIn(list) : list[i].start = list[j].start => i = j

\* An erased element is the only thing that goes.
LEMMA ErasedSent ==
  ASSUME NEW list \in Seq(Entry), NEW i \in 1 .. Len(list), NEW rest, rest = RemoveAt(list, i)
  PROVE  /\ \A s : SentAt(rest, s) => SentAt(list, s)
         /\ \A s : SentAt(list, s) => SentAt(rest, s) \/ (i \in SentIn(list) /\ s = list[i].start)
         /\ SentApart(list) => SentApart(rest)
         /\ SentApart(list) /\ i \in SentIn(list) => ~SentAt(rest, list[i].start)
<1>1. /\ rest \in Seq(Entry) /\ Len(rest) = Len(list) - 1
      /\ \A j \in 1 .. Len(list) - 1 : rest[j] = list[IF j < i THEN j ELSE j + 1]
  BY RemoveAtShifts
<1> DEFINE old(j) == IF j < i THEN j ELSE j + 1
<1>2. \A j \in 1 .. Len(rest) : old(j) \in 1 .. Len(list) /\ old(j) # i /\ rest[j] = list[old(j)]
  BY <1>1
<1>3. \A j, k \in 1 .. Len(rest) : old(j) = old(k) => j = k
  BY <1>1
<1>4. ASSUME NEW k \in 1 .. Len(list), k # i PROVE \E j \in 1 .. Len(rest) : old(j) = k
  <2>1. CASE k < i
    BY <1>1, <2>1
  <2>2. CASE k > i
    <3>1. k - 1 \in 1 .. Len(rest) /\ old(k - 1) = k
      BY <1>1, <2>2
    <3> QED BY <3>1
  <2> QED BY <1>4, <2>1, <2>2
<1> HIDE DEF old
<1>5. SentIn(rest) \subseteq 1 .. Len(rest) /\ SentIn(list) \subseteq 1 .. Len(list)
  BY <1>1 DEF SentIn
<1>6. \A j \in 1 .. Len(rest) : j \in SentIn(rest) <=> old(j) \in SentIn(list)
  BY <1>1, <1>2 DEF SentIn
<1>7. \A s : SentAt(rest, s) => SentAt(list, s)
  BY <1>2, <1>5, <1>6 DEF SentAt
<1>8. ASSUME NEW s, SentAt(list, s) PROVE SentAt(rest, s) \/ (i \in SentIn(list) /\ s = list[i].start)
  <2>1. PICK k \in SentIn(list) : list[k].start = s
    BY <1>8 DEF SentAt
  <2>2. CASE k = i
    BY <2>1, <2>2
  <2>3. CASE k # i
    <3>1. PICK j \in 1 .. Len(rest) : old(j) = k
      BY <1>4, <1>5, <2>3
    <3>2. j \in SentIn(rest) /\ rest[j].start = s
      BY <1>2, <1>6, <2>1, <3>1
    <3> QED BY <3>2 DEF SentAt
  <2> QED BY <2>2, <2>3
<1>9. ASSUME SentApart(list) PROVE SentApart(rest)
  <2> SUFFICES ASSUME NEW j \in SentIn(rest), NEW k \in SentIn(rest), rest[j].start = rest[k].start
               PROVE  j = k
    BY DEF SentApart
  <2>1. old(j) \in SentIn(list) /\ old(k) \in SentIn(list) /\ list[old(j)].start = list[old(k)].start
    BY <1>2, <1>5, <1>6
  <2>2. old(j) = old(k)
    BY <1>9, <2>1 DEF SentApart
  <2> QED BY <1>3, <1>5, <2>2
<1>10. ASSUME SentApart(list), i \in SentIn(list), SentAt(rest, list[i].start) PROVE FALSE
  <2>1. PICK j \in SentIn(rest) : rest[j].start = list[i].start
    BY <1>10 DEF SentAt
  <2>2. old(j) \in SentIn(list) /\ list[old(j)].start = list[i].start /\ old(j) # i
    BY <1>2, <1>5, <1>6, <2>1
  <2> QED BY <1>10, <2>2 DEF SentApart
<1> QED BY <1>7, <1>8, <1>9, <1>10

\* An added event was not sent.
LEMMA AddedSent ==
  ASSUME NEW list \in Seq(Entry), NEW x \in Item, NEW new, new = addEvent(list, x)
  PROVE  /\ \A s : SentAt(new, s) <=> SentAt(list, s)
         /\ SentApart(list) => SentApart(new)
<1>1. new \in Seq(Entry) /\ Len(new) = Len(list) + 1
  BY AddEventPlace
<1>2. PICK k \in 1 .. Len(list) + 1 :
        /\ new[k] = Fresh(x)
        /\ \A j \in 1 .. Len(list) : new[IF j < k THEN j ELSE j + 1] = list[j]
  BY AddEventPlace
<1> DEFINE up(j) == IF j < k THEN j ELSE j + 1
<1>3. \A j \in 1 .. Len(list) : up(j) \in 1 .. Len(new) /\ new[up(j)] = list[j]
  BY <1>1, <1>2
<1>4. ASSUME NEW i \in 1 .. Len(new), i # k PROVE \E j \in 1 .. Len(list) : up(j) = i
  <2>1. CASE i < k
    BY <1>1, <2>1
  <2>2. CASE i > k
    <3>1. i - 1 \in 1 .. Len(list) /\ up(i - 1) = i
      BY <1>1, <2>2
    <3> QED BY <3>1
  <2> QED BY <1>4, <2>1, <2>2
<1> HIDE DEF up
<1>5. SentIn(new) \subseteq 1 .. Len(new) /\ SentIn(list) \subseteq 1 .. Len(list) /\ k \notin SentIn(new)
  BY <1>1, <1>2 DEF SentIn, Fresh
<1>6. \A j \in 1 .. Len(list) : j \in SentIn(list) <=> up(j) \in SentIn(new)
  BY <1>1, <1>3 DEF SentIn
<1>7. \A i \in SentIn(new) : \E j \in SentIn(list) : up(j) = i /\ list[j] = new[i]
  BY <1>3, <1>4, <1>5, <1>6
<1>8. \A s : SentAt(new, s) <=> SentAt(list, s)
  BY <1>3, <1>5, <1>6, <1>7 DEF SentAt
<1>9. SentApart(list) => SentApart(new)
  BY <1>7 DEF SentApart
<1> QED BY <1>8, <1>9

\* A marked entry is one more that was sent.
LEMMA MarkedIsSent ==
  ASSUME NEW list \in Seq(Entry), NEW i \in 1 .. Len(list), NEW new, Mark(list, i, new)
  PROVE  /\ \A s : SentAt(new, s) <=> SentAt(list, s) \/ s = list[i].start
         /\ SentApart(list) /\ ~SentAt(list, list[i].start) => SentApart(new)
<1>1. list[i] \in Entry
  BY StartIsNat
<1> DEFINE mark == [list[i] EXCEPT !.sent = TRUE]
<1>2. mark \in Entry /\ mark.start = list[i].start /\ mark.sent
  BY <1>1 DEF Entry
<1>3. new = [list EXCEPT ![i] = mark]
  BY DEF Mark
<1> HIDE DEF mark
<1>4. /\ new \in Seq(Entry) /\ Len(new) = Len(list)
      /\ \A j \in 1 .. Len(list) : new[j] = IF j = i THEN mark ELSE list[j]
  <2>1. /\ [list EXCEPT ![i] = mark] \in Seq(Entry)
        /\ Len([list EXCEPT ![i] = mark]) = Len(list)
        /\ \A j \in 1 .. Len(list) : [list EXCEPT ![i] = mark][j] = IF j = i THEN mark ELSE list[j]
    BY <1>2, ExceptSeq
  <2> QED BY <1>3, <2>1
<1>5. \A j \in 1 .. Len(list) : new[j].start = list[j].start
  BY <1>2, <1>4
<1>6. SentIn(new) = SentIn(list) \cup {i} /\ SentIn(list) \subseteq 1 .. Len(list)
  <2>1. SentIn(new) \subseteq 1 .. Len(list) /\ SentIn(list) \subseteq 1 .. Len(list)
    BY <1>4 DEF SentIn
  <2>2. i \in SentIn(new)
    BY <1>2, <1>4 DEF SentIn
  <2>3. ASSUME NEW j \in 1 .. Len(list), j # i PROVE j \in SentIn(new) <=> j \in SentIn(list)
    BY <1>4, <2>3 DEF SentIn
  <2> QED BY <2>1, <2>2, <2>3
<1> QED BY <1>5, <1>6 DEF SentAt, SentApart

\* The event e is to be listed at s: by the item of it that is not merged yet, or by the list.
Claim(e, s) ==
  \/ \E x \in fetched : x.id = e /\ x.live /\ x.start = s
  \/ (\A x \in fetched : x.id # e) /\ Listed(events, e, s)

\* From the fetch on no two events are to be listed at the same time.
ClaimsApart ==
  /\ pc = "send" => fetched = {}
  /\ pc \in {"merge", "send"} =>
       \A e, f \in Event, s \in Start : Claim(e, s) /\ Claim(f, s) => e = f

\* Merging an item takes the entry of its event away and tells the clock if it was sent.
LEMMA MergeTells ==
  ASSUME events \in Seq(Entry), ~env.network, SentApart(events), NEW x \in Item, Merge(x)
  PROVE  /\ SentApart(events')
         /\ \A s : /\ out' # [cmd |-> "M", at |-> s]
                   /\ SentAt(events', s) <=> SentAt(events, s) /\ out' # [cmd |-> "D", at |-> s]
<1>1. PICK rest :
        /\ remove_event_id(x.id, rest)
        /\ events' = IF Wanted(x) THEN addEvent(rest, x) ELSE rest
  BY DEF Merge
<1>2. \/ rest = events /\ out' = Silence
      \/ \E i \in 1 .. Len(events) :
           /\ rest = RemoveAt(events, i)
           /\ i \in SentIn(events) => out' = [cmd |-> "D", at |-> events[i].start]
           /\ i \notin SentIn(events) => out' = Silence
  BY <1>1, RemoveEffect
<1>3. \A s : Silence # [cmd |-> "D", at |-> s] /\ Silence # [cmd |-> "M", at |-> s]
  BY DEF Silence
<1>4. \A s, t : /\ [cmd |-> "D", at |-> t] # [cmd |-> "M", at |-> s]
                /\ [cmd |-> "D", at |-> t] = [cmd |-> "D", at |-> s] => t = s
  <2> TAKE s, t
  <2>1. /\ [cmd |-> "D", at |-> t].cmd = "D" /\ [cmd |-> "M", at |-> s].cmd = "M"
        /\ [cmd |-> "D", at |-> t].at = t /\ [cmd |-> "D", at |-> s].at = s
    OBVIOUS
  <2>2. ASSUME [cmd |-> "D", at |-> t] = [cmd |-> "D", at |-> s] PROVE t = s
    BY <2>1, <2>2
  <2> QED BY <2>1, <2>2
<1>5. /\ rest \in Seq(Entry) /\ SentApart(rest)
      /\ \A s : /\ out' # [cmd |-> "M", at |-> s]
                /\ SentAt(rest, s) <=> SentAt(events, s) /\ out' # [cmd |-> "D", at |-> s]
  <2>1. CASE rest = events /\ out' = Silence
    BY <1>3, <2>1
  <2>2. ASSUME NEW i \in 1 .. Len(events), rest = RemoveAt(events, i),
               i \in SentIn(events) => out' = [cmd |-> "D", at |-> events[i].start],
               i \notin SentIn(events) => out' = Silence
        PROVE  /\ rest \in Seq(Entry) /\ SentApart(rest)
               /\ \A s : /\ out' # [cmd |-> "M", at |-> s]
                         /\ SentAt(rest, s) <=> SentAt(events, s) /\ out' # [cmd |-> "D", at |-> s]
    <3>1. /\ \A s : SentAt(rest, s) => SentAt(events, s)
          /\ \A s : SentAt(events, s) => SentAt(rest, s) \/ (i \in SentIn(events) /\ s = events[i].start)
          /\ SentApart(rest)
          /\ i \in SentIn(events) => ~SentAt(rest, events[i].start)
      BY <2>2, ErasedSent
    <3>2. rest \in Seq(Entry)
      BY <2>2, RemoveAtKeeps
    <3>3. CASE i \in SentIn(events)
      <4>1. out' = [cmd |-> "D", at |-> events[i].start]
        BY <2>2, <3>3
      <4>2. \A s : out' = [cmd |-> "D", at |-> s] <=> s = events[i].start
        BY <1>4, <4>1
      <4>3. \A s : out' # [cmd |-> "M", at |-> s]
        BY <1>4, <4>1
      <4> QED BY <3>1, <3>2, <3>3, <4>2, <4>3
    <3>4. CASE i \notin SentIn(events)
      BY <1>3, <2>2, <3>1, <3>2, <3>4
    <3> QED BY <3>3, <3>4
  <2> QED BY <1>2, <2>1, <2>2
<1>6. CASE Wanted(x)
  <2>1. events' = addEvent(rest, x)
    BY <1>1, <1>6
  <2>2. /\ \A s : SentAt(events', s) <=> SentAt(rest, s)
        /\ SentApart(events')
    BY <1>5, <2>1, AddedSent
  <2> QED BY <1>5, <2>2
<1>7. CASE ~Wanted(x)
  BY <1>1, <1>5, <1>7
<1> QED BY <1>6, <1>7

\* Every step keeps the events that are to be listed apart, as the calendar has them.
LEMMA NextClaims ==
  ASSUME TypeOK, OnePerEvent, SyncInv, Apart(calendar), Reliable, env.distinct, ClaimsApart, [Next]_vars
  PROVE  ClaimsApart'
<1>0. /\ timestamp \in 0 .. now /\ now \in Nat
      /\ calendar \in [Event -> [start : Start, live : BOOLEAN, changed : 0 .. now]]
      /\ events \in Seq(Entry) /\ num_send \in Int /\ fetched \in SUBSET Item
  BY EnvType DEF TypeOK
<1>1. ~env.calendar /\ ~env.network /\ OneEach(events)
  BY <1>0, ReliableWords, ListWords
<1>2. CASE pc' \notin {"merge", "send"}
  BY <1>2 DEF ClaimsApart
<1>3. CASE UNCHANGED <<pc, events, fetched>>
  <2>1. \A e \in Event, s \in Start : Claim(e, s)' <=> Claim(e, s)
    BY <1>3 DEF Claim
  <2> QED BY <1>3, <2>1 DEF ClaimsApart
<1>4. CASE getAllEvents \/ getNewEvents
  <2>1. /\ pc = "fetch" /\ pc' = "merge"
        /\ UNCHANGED <<calendar, events, ready, timestamp>>
        /\ fetched' = Snapshot(IF ready THEN timestamp ELSE 0)
    BY <1>1, <1>4 DEF getAllEvents, getNewEvents, Fetch, outside
  <2> DEFINE since == IF ready THEN timestamp ELSE 0
  <2>2. ASSUME NEW e \in Event, NEW s \in Start, Claim(e, s)'
        PROVE  calendar[e].live /\ calendar[e].start = s
    <3>1. CASE \E x \in fetched' : x.id = e /\ x.live /\ x.start = s
      <4>1. PICK x \in fetched' : x.id = e /\ x.live /\ x.start = s
        BY <3>1
      <4>2. \E f \in Event : x.id = f /\ x = ItemOf(f)
        BY <2>1, SnapshotItems
      <4> QED BY <4>1, <4>2 DEF ItemOf
    <3>2. CASE (\A x \in fetched' : x.id # e) /\ Listed(events', e, s)
      <4>1. ~(calendar[e].changed >= since)
        <5>1. ItemOf(e).id = e
          BY DEF ItemOf
        <5> QED BY <2>1, <3>2, <5>1, SnapshotItems
      <4>2. calendar[e].changed \in Nat
        BY <1>0
      <4>3. ready /\ calendar[e].changed < timestamp
        BY <1>0, <4>1, <4>2
      <4>4. AgreesFrom(e, local)
        BY <2>1, <4>3 DEF SyncInv, AgreesSince
      <4> QED BY <2>1, <3>2, <4>4 DEF AgreesFrom
    <3> QED BY <2>2, <3>1, <3>2 DEF Claim
  <2>3. \A e, f \in Event, s \in Start : Claim(e, s)' /\ Claim(f, s)' => e = f
    BY <2>2 DEF Apart
  <2> QED BY <2>1, <2>3 DEF ClaimsApart
<1>5. ASSUME NEW x \in fetched, Merge(x) PROVE ClaimsApart'
  <2>1. pc = "merge" /\ pc' = "merge" /\ fetched' = fetched \ {x}
    BY <1>5 DEF Merge
  <2>2. \A e, s : Listed(events', e, s) <=>
          IF e = x.id THEN s = x.start /\ Wanted(x) ELSE Listed(events, e, s)
    BY <1>0, <1>1, <1>5, MergeEffect
  <2>3. ASSUME NEW e \in Event, NEW s \in Start, Claim(e, s)' PROVE Claim(e, s)
    <3>1. CASE \E y \in fetched' : y.id = e /\ y.live /\ y.start = s
      BY <2>1, <3>1 DEF Claim
    <3>2. CASE (\A y \in fetched' : y.id # e) /\ Listed(events', e, s)
      BY <2>1, <2>2, <3>2 DEF Claim, Wanted
    <3> QED BY <2>3, <3>1, <3>2 DEF Claim
  <2> QED BY <2>1, <2>3 DEF ClaimsApart
<1>6. CASE Merged
  <2>1. pc = "merge" /\ pc' = "send" /\ fetched = {} /\ UNCHANGED <<events, fetched>>
    BY <1>6 DEF Merged
  <2>2. \A e \in Event, s \in Start : Claim(e, s)' <=> Claim(e, s)
    BY <2>1 DEF Claim
  <2> QED BY <2>1, <2>2 DEF ClaimsApart
<1>7. CASE sendEvent
  <2>1. /\ pc = "send" /\ pc' = "send" /\ UNCHANGED fetched
        /\ Unsent # 0 /\ events' = [events EXCEPT ![Unsent].sent = TRUE]
    BY <1>1, <1>7 DEF sendEvent, SendFails
  <2>2. Unsent \in 1 .. Len(events) /\ Unsent \notin SentIn(events)
    BY <1>0, <2>1, FirstUnsent DEF Unsent
  <2>3. Mark(events, Unsent, events')
    BY <2>1, <2>2 DEF Mark
  <2>4. \A e, s : Listed(events', e, s) <=> Listed(events, e, s)
    BY <1>0, <2>2, <2>3, MarkedSent
  <2>5. \A e \in Event, s \in Start : Claim(e, s)' <=> Claim(e, s)
    BY <2>1, <2>4 DEF Claim
  <2> QED BY <2>1, <2>5 DEF ClaimsApart
<1>8. CASE ReadTime \/ send_time \/ action \/ deleteOldEvents \/ OldEventsDeleted \/ sendEventsReturns
  BY <1>2, <1>8 DEF ReadTime, send_time, action, deleteOldEvents, OldEventsDeleted, sendEventsReturns, SendFails
<1>9. CASE Tick \/ UNCHANGED vars \/ \E e \in Event, start \in Start, live \in BOOLEAN : Change(e, start, live)
  BY <1>3, <1>9 DEF Tick, Change, vars, account
<1> QED BY <1>4, <1>5, <1>6, <1>7, <1>8, <1>9, ActionsDefined

\* What the step put on the wire is what was added to, or taken from, the events ahead
\* that were sent, ...
SentFollows ==
  \A s \in Nat : s > now' =>
    (SentAt(events', s) <=> \/ SentAt(events, s) /\ out' # [cmd |-> "D", at |-> s]
                            \/ out' = [cmd |-> "M", at |-> s])

\* ... and what was added to, or taken from, the meetings ahead the clock has.
PendingFollows ==
  \A s \in Nat : s > now' =>
    (s \in Clock!Pending' <=> \/ s \in Clock!Pending /\ out' # [cmd |-> "D", at |-> s]
                              \/ out' = [cmd |-> "M", at |-> s])

\* Three kinds of commands, and silence.
LEMMA CommandsDiffer ==
  /\ \A s : Silence # [cmd |-> "D", at |-> s] /\ Silence # [cmd |-> "M", at |-> s]
  /\ \A s, t : /\ [cmd |-> "S", at |-> t] # [cmd |-> "D", at |-> s]
               /\ [cmd |-> "S", at |-> t] # [cmd |-> "M", at |-> s]
               /\ [cmd |-> "M", at |-> t] # [cmd |-> "D", at |-> s]
               /\ [cmd |-> "M", at |-> t] = [cmd |-> "M", at |-> s] => t = s
               /\ [cmd |-> "D", at |-> t] = [cmd |-> "D", at |-> s] => t = s
<1>1. \A s : Silence # [cmd |-> "D", at |-> s] /\ Silence # [cmd |-> "M", at |-> s]
  BY DEF Silence
<1>2. ASSUME NEW s, NEW t
      PROVE  /\ [cmd |-> "S", at |-> t] # [cmd |-> "D", at |-> s]
             /\ [cmd |-> "S", at |-> t] # [cmd |-> "M", at |-> s]
             /\ [cmd |-> "M", at |-> t] # [cmd |-> "D", at |-> s]
             /\ [cmd |-> "M", at |-> t] = [cmd |-> "M", at |-> s] => t = s
             /\ [cmd |-> "D", at |-> t] = [cmd |-> "D", at |-> s] => t = s
  <2>1. /\ [cmd |-> "S", at |-> t].cmd = "S"
        /\ [cmd |-> "M", at |-> t].cmd = "M" /\ [cmd |-> "M", at |-> t].at = t
        /\ [cmd |-> "D", at |-> t].cmd = "D" /\ [cmd |-> "D", at |-> t].at = t
        /\ [cmd |-> "M", at |-> s].cmd = "M" /\ [cmd |-> "M", at |-> s].at = s
        /\ [cmd |-> "D", at |-> s].cmd = "D" /\ [cmd |-> "D", at |-> s].at = s
    OBVIOUS
  <2>2. ASSUME [cmd |-> "M", at |-> t] = [cmd |-> "M", at |-> s] PROVE t = s
    BY <2>1, <2>2
  <2>3. ASSUME [cmd |-> "D", at |-> t] = [cmd |-> "D", at |-> s] PROVE t = s
    BY <2>1, <2>3
  <2> QED BY <2>1, <2>2, <2>3
<1> QED BY <1>1, <1>2

LEMMA AccountTells ==
  ASSUME TypeOK, TypeOK', OnePerEvent, Reliable, env.distinct, SentApart(events), ClaimsApart,
         Account \/ Outside
  PROVE  SentApart(events') /\ SentFollows
<1>0. /\ events \in Seq(Entry) /\ num_send \in Int /\ fetched \in SUBSET Item
      /\ now \in Nat /\ now' \in Nat /\ local \in 0 .. now
      /\ Start \subseteq Nat
  BY EnvType, DispatcherAssumption DEF TypeOK
<1>1. ~env.network /\ OneEach(events)
  BY <1>0, ReliableWords, ListWords
<1>2. CASE UNCHANGED events /\ (out' = Silence \/ \E t : out' = [cmd |-> "S", at |-> t])
  BY <1>2, CommandsDiffer DEF SentFollows
<1>3. CASE deleteOldEvents
  <2>1. CASE events' = events
    BY <1>2, <1>3, <2>1 DEF deleteOldEvents
  <2>2. CASE events' # events
    <3>1. /\ next \in 1 .. Len(events) /\ events' = RemoveAt(events, next)
          /\ events[next].start < local /\ now' = now /\ out' = Silence
      BY <1>0, <1>3, <2>2 DEF deleteOldEvents, outside
    <3>2. /\ \A s : SentAt(events', s) => SentAt(events, s)
          /\ \A s : SentAt(events, s) => SentAt(events', s) \/ s = events[next].start
          /\ SentApart(events')
      BY <1>0, <3>1, ErasedSent
    <3>3. events[next].start \in Nat
      BY <1>0, <3>1, StartIsNat
    <3> QED BY <1>0, <3>1, <3>2, <3>3, CommandsDiffer DEF SentFollows
  <2> QED BY <2>1, <2>2
<1>4. ASSUME NEW x \in fetched, Merge(x) PROVE SentApart(events') /\ SentFollows
  BY <1>0, <1>1, <1>4, MergeTells DEF SentFollows
<1>5. CASE sendEvent
  <2>1. /\ pc = "send" /\ Unsent # 0
        /\ out' = [cmd |-> "M", at |-> events[Unsent].start]
        /\ events' = [events EXCEPT ![Unsent].sent = TRUE]
    BY <1>1, <1>5 DEF sendEvent, SendFails, send_new_event, Send
  <2>2. Unsent \in 1 .. Len(events) /\ Unsent \notin SentIn(events)
    BY <1>0, <2>1, FirstUnsent DEF Unsent
  <2>3. Mark(events, Unsent, events')
    BY <2>1, <2>2 DEF Mark
  <2>4. ASSUME NEW j \in SentIn(events), events[j].start = events[Unsent].start PROVE FALSE
    <3>1. j \in 1 .. Len(events)
      BY DEF SentIn
    <3>2. events[j] \in Entry /\ events[Unsent] \in Entry
      BY <1>0, <2>2, <3>1, StartIsNat
    <3>3. Claim(events[j].id, events[j].start) /\ Claim(events[Unsent].id, events[j].start)
      BY <2>1, <2>2, <2>4, <3>1 DEF ClaimsApart, Claim, Listed
    <3>4. events[j].id = events[Unsent].id
      BY <2>1, <3>2, <3>3 DEF ClaimsApart, Entry
    <3> QED BY <1>1, <2>2, <3>1, <3>4 DEF OneEach
  <2>5. ~SentAt(events, events[Unsent].start)
    BY <2>4 DEF SentAt
  <2>6. /\ \A s : SentAt(events', s) <=> SentAt(events, s) \/ s = events[Unsent].start
        /\ SentApart(events')
    BY <1>0, <2>2, <2>3, <2>5, MarkedIsSent
  <2> QED BY <2>1, <2>6, CommandsDiffer DEF SentFollows
<1>6. CASE \/ ReadTime \/ send_time \/ getAllEvents \/ action \/ OldEventsDeleted \/ getNewEvents
           \/ Merged \/ sendEventsReturns \/ Tick
           \/ \E e \in Event, start \in Start, live \in BOOLEAN : Change(e, start, live)
  BY <1>2, <1>6 DEF ReadTime, send_time, getAllEvents, action, OldEventsDeleted, getNewEvents, Merged,
     sendEventsReturns, Tick, Change, account, Send, SendFails
<1> QED BY <1>3, <1>4, <1>5, <1>6 DEF Account, Outside

-----------------------------------------------------------------------------
(* What the commands do to the clock's meetings                                *)

\* The account never sends a time ahead of its own.
LEMMA SentTime ==
  ASSUME TypeOK, Account, out'.cmd = "S"
  PROVE  out'.at \in 0 .. now /\ now' = now
<1>1. Silence.cmd = "none" /\ \A t : [cmd |-> "M", at |-> t].cmd = "M" /\ [cmd |-> "D", at |-> t].cmd = "D"
  BY DEF Silence
<1>2. /\ events \in Seq(Entry) /\ num_send \in Int /\ fetched \in SUBSET Item /\ now \in Nat /\ tmit \in -1 .. now
  BY EnvType DEF TypeOK
<1>3. CASE send_time
  <2>1. \/ out' = [cmd |-> "S", at |-> Time(tmit)]
        \/ out' = Silence
    BY <1>3 DEF send_time, Send, SendFails
  <2>2. now' = now
    BY <1>3 DEF send_time, outside
  <2> QED BY <1>1, <1>2, <2>1, <2>2, TimeType
<1>4. ASSUME NEW x \in fetched, Merge(x) PROVE FALSE
  <2>1. out' = Silence \/ \E i \in 1 .. Len(events) : out' = [cmd |-> "D", at |-> events[i].start]
    BY <1>2, <1>4, MergeEffect
  <2> QED BY <1>1, <2>1
<1>5. CASE sendEvent
  BY <1>1, <1>5 DEF sendEvent, SendFails, send_new_event, Send
<1>6. CASE ReadTime \/ getAllEvents \/ action \/ deleteOldEvents \/ OldEventsDeleted \/ getNewEvents
           \/ Merged \/ sendEventsReturns
  BY <1>1, <1>6 DEF ReadTime, getAllEvents, action, deleteOldEvents, OldEventsDeleted, getNewEvents,
     Merged, sendEventsReturns
<1> QED BY <1>3, <1>4, <1>5, <1>6 DEF Account

\* The clock runs behind the time.
LEMMA NextBehind ==
  ASSUME TypeOK, TypeOK', Alone!TypeOK, clock <= now, [ServiceNext]_serviceVars
  PROVE  clock' <= now'
<1>0. now \in Nat /\ clock \in Nat /\ now' \in Nat
  BY EnvType DEF TypeOK, Alone!TypeOK
<1>1. CASE AccountTurn
  <2>1. CASE UNCHANGED clock
    BY <1>0, <1>1, <2>1 DEF AccountTurn, Account, ReadTime, send_time, getAllEvents, action, deleteOldEvents,
       OldEventsDeleted, getNewEvents, Merge, Merged, sendEvent, sendEventsReturns, outside
  <2>2. CASE ~UNCHANGED clock
    <3>1. out'.cmd = "S" /\ Clock!SetClock(out'.at)
      BY <1>1, <2>2 DEF AccountTurn, Execute, clockVars, Clock!SetMeeting, Clock!SetMeetingOverrun, Clock!DeleteMeeting
    <3>2. clock' = out'.at
      BY <3>1 DEF Clock!SetClock
    <3>3. out'.at \in 0 .. now /\ now' = now
      BY <1>1, <3>1, SentTime DEF AccountTurn
    <3> QED BY <1>0, <3>2, <3>3
  <2> QED BY <2>1, <2>2
<1>2. CASE Minute
  BY <1>0, <1>2 DEF Minute, Tick, Clock!rtc_func, clockVars
<1>3. CASE CalendarChanges \/ (TimeStops /\ UNCHANGED <<clockVars, missed>>) \/ UNCHANGED serviceVars
  BY <1>0, <1>3 DEF CalendarChanges, Change, TimeStops, vars, outside, serviceVars, clockVars
<1> QED BY <1>1, <1>2, <1>3 DEF ServiceNext

\* What a command is made of.
LEMMA CommandForm ==
  ASSUME NEW c \in Command \cup {Silence}
  PROVE  /\ c.cmd \in {"S", "M", "D", "none"}
         /\ c = [cmd |-> c.cmd, at |-> c.at]
         /\ c.cmd \in {"M", "D"} => c.at \in Start
         /\ c.cmd = "none" => c = Silence
<1>1. CASE c \in [cmd : {"M", "D"}, at : Start]
  BY <1>1
<1>2. CASE c \in [cmd : {"S"}, at : 0 .. LastTime]
  BY <1>2
<1>3. CASE c = Silence
  BY <1>3 DEF Silence
<1> QED BY <1>1, <1>2, <1>3 DEF Command

\* The clock follows the account: a meeting is added or taken away, and none ahead rings.
LEMMA ClockTells ==
  ASSUME TypeOK, TypeOK', Alone!TypeOK, Alone!QueueSorted, Alone!AlarmFollowsQueue, Alone!CountInRange,
         clock <= now, AccountTurn \/ CalendarChanges \/ Minute, ~missed'
  PROVE  Alone!CountInRange' /\ PendingFollows
<1>0. /\ now \in Nat /\ now' \in Nat
      /\ out' \in Command \cup {Silence}
  BY EnvType DEF TypeOK
<1>1. /\ Size \in Nat \ {0} /\ 0 \in Alone!Slot /\ Alone!Slot = 0 .. Size - 1
      /\ numberOfSchedules \in 0 .. Size /\ (alarmOn => numberOfSchedules > 0) /\ ~overrun
      /\ clock \in Nat
      /\ \A s \in Start : s \in Nat
  BY ServiceAssumption, DispatcherAssumption DEF Alone!Slot, Alone!CountInRange, Alone!TypeOK
<1>2. /\ out'.cmd \in {"S", "M", "D", "none"}
      /\ out' = [cmd |-> out'.cmd, at |-> out'.at]
      /\ out'.cmd \in {"M", "D"} => out'.at \in Start
      /\ out'.cmd = "none" => out' = Silence
  BY <1>0, CommandForm
<1>3. ASSUME Alone!CarefulStep PROVE Alone!CountInRange'
  BY <1>3, AloneAssumption, Alone!CarefulStepInRange
<1>4. ASSUME UNCHANGED <<scheduleQ, numberOfSchedules>> PROVE Alone!Pending' = Alone!Pending
  BY <1>4 DEF Alone!Pending
<1>5. ASSUME Alone!Pending' = Alone!Pending, out' = Silence \/ \E t : out' = [cmd |-> "S", at |-> t]
      PROVE  PendingFollows
  BY <1>5, SameState, CommandsDiffer DEF PendingFollows
<1>6. CASE UNCHANGED clockVars /\ out' = Silence
  <2>1. Alone!CarefulStep
    BY <1>6 DEF Alone!CarefulStep, Alone!queue, Alone!alarm, clockVars
  <2>2. UNCHANGED <<scheduleQ, numberOfSchedules>>
    BY <1>6 DEF clockVars
  <2> QED BY <1>3, <1>4, <1>5, <1>6, <2>1, <2>2
<1>7. CASE Minute
  <2>1. out' = Silence /\ now' = now + 1
    BY <1>7 DEF Minute, Tick
  <2>2. CASE ~running
    BY <1>6, <1>7, <2>1, <2>2 DEF Minute
  <2>3. CASE running
    <3>1. Alone!rtc_func /\ UNCHANGED overrun
      BY <1>1, <1>7, <2>3, SameSecond DEF Minute
    <3>2. Alone!CarefulStep
      BY <3>1 DEF Alone!CarefulStep
    <3>3. CASE ~Alone!Rings
      <4>1. UNCHANGED <<scheduleQ, numberOfSchedules>>
        BY <3>1, <3>3 DEF Alone!rtc_func, Alone!queue
      <4> QED BY <1>3, <1>4, <1>5, <2>1, <3>2, <4>1
    <3>4. CASE Alone!Rings
      <4>1. Alone!DeleteSlot(0) /\ alarmOn /\ clock + 1 = al * 1 /\ al = scheduleQ[0]
        BY <3>1, <3>4 DEF Alone!rtc_func, Alone!HandleAlarm, Alone!Rings, Alone!Due, Alone!AlarmFollowsQueue
      <4>2. Alone!Pending' = Alone!Pending \ {scheduleQ[0]}
        BY <1>1, <4>1, AloneAssumption, Alone!DeletePending
      <4>3. al \in Nat
        <5>1. Start \cup {0} \subseteq Nat
          BY <1>1
        <5> QED BY <5>1 DEF Alone!TypeOK, Alone!None
      <4>4. \A s \in Nat : s > now' => s # scheduleQ[0]
        BY <1>0, <1>1, <2>1, <4>1, <4>3
      <4>5. PendingFollows
        BY <2>1, <4>2, <4>4, SameState, CommandsDiffer DEF PendingFollows
      <4> QED BY <1>3, <3>2, <4>5
    <3> QED BY <3>3, <3>4
  <2> QED BY <2>2, <2>3
<1>8. CASE CalendarChanges
  BY <1>6, <1>8 DEF CalendarChanges, Change
<1>9. CASE AccountTurn
  <2>0. Execute(out')
    BY <1>9 DEF AccountTurn
  <2>1. CASE out'.cmd = "none"
    BY <1>1, <1>2, <1>6, <2>0, <2>1 DEF Execute
  <2>2. CASE out'.cmd = "S"
    <3>1. Clock!SetClock(out'.at) /\ UNCHANGED overrun
      BY <1>1, <2>0, <2>2 DEF Execute
    <3>2. UNCHANGED <<scheduleQ, numberOfSchedules, alarmOn, al, overrun>>
      BY <3>1 DEF Clock!SetClock, Clock!queue, Clock!alarm
    <3>3. Alone!CarefulStep
      BY <3>2 DEF Alone!CarefulStep, Alone!queue, Alone!alarm
    <3> QED BY <1>2, <1>3, <1>4, <1>5, <2>2, <3>2, <3>3
  <2>3. CASE out'.cmd = "M"
    <3> DEFINE s == out'.at
    <3>1. s \in Start /\ out' = [cmd |-> "M", at |-> s]
      BY <1>2, <2>3
    <3> HIDE DEF s
    <3>2. numberOfSchedules # Size
      BY <2>0, <2>3 DEF Execute
    <3>3. numberOfSchedules \in Alone!Slot
      BY <1>1, <3>2
    <3>4. Alone!SetMeeting(s) /\ UNCHANGED overrun
      <4>1. Clock!SetMeeting(s) /\ UNCHANGED overrun
        BY <1>1, <2>0, <2>3 DEF Execute, Clock!SetMeetingOverrun, s
      <4> QED BY <4>1, SameCommands
    <3>5. Alone!CarefulStep
      BY <3>1, <3>4 DEF Alone!CarefulStep
    <3>6. PICK r \in Alone!Slot \cup {Alone!Full} : Alone!AddSchedule(s, r)
      BY <3>4 DEF Alone!SetMeeting
    <3>7. Alone!Pending' = Alone!Pending \cup {s}
      BY <3>1, <3>3, <3>6, AloneAssumption, Alone!AddPending
    <3>8. PendingFollows
      BY <3>1, <3>7, SameState, CommandsDiffer DEF PendingFollows
    <3> QED BY <1>3, <3>5, <3>8
  <2>4. CASE out'.cmd = "D"
    <3> DEFINE s == out'.at
    <3>1. s \in Start /\ out' = [cmd |-> "D", at |-> s]
      BY <1>2, <2>4
    <3>2. s \in Alone!Pending \/ ~Alone!Stored(s)
      BY <2>0, <2>4, SameState DEF Execute
    <3>3. Alone!DeleteMeeting(s) /\ UNCHANGED overrun
      <4>1. Clock!DeleteMeeting(s) /\ UNCHANGED overrun
        BY <1>1, <2>0, <2>4 DEF Execute
      <4> QED BY <4>1, SameCommands
    <3> HIDE DEF s
    <3>4. Alone!CarefulStep
      BY <3>1, <3>2, <3>3 DEF Alone!CarefulStep
    <3>5. Alone!Pending' = Alone!Pending \ {s}
      <4>1. CASE ~Alone!Stored(s)
        <5>1. s \notin Alone!Pending
          BY <1>1, <4>1 DEF Alone!Stored, Alone!Pending
        <5>2. UNCHANGED <<scheduleQ, numberOfSchedules>>
          BY <3>3, <4>1 DEF Alone!DeleteMeeting, Alone!queue, Alone!FindSchedule, Alone!Stored
        <5> QED BY <1>4, <5>1, <5>2
      <4>2. CASE Alone!Stored(s)
        <5>1. PICK k \in 0 .. numberOfSchedules - 1 : scheduleQ[k] = s
          BY <3>2, <4>2 DEF Alone!Pending
        <5>2. PICK i \in Alone!Slot : Alone!FindSchedule(s, i) /\ Alone!DeleteSlot(i)
          BY <3>3, <4>2 DEF Alone!DeleteMeeting
        <5>3. scheduleQ[i] = s /\ \A j \in 0 .. i - 1 : scheduleQ[j] # s
          BY <5>2 DEF Alone!FindSchedule
        <5>4. i <= k
          BY <1>1, <5>1, <5>3
        <5>5. i < numberOfSchedules
          BY <1>1, <5>4
        <5> QED BY <5>2, <5>3, <5>5, AloneAssumption, Alone!DeletePending
      <4> QED BY <4>1, <4>2
    <3>6. PendingFollows
      BY <3>1, <3>5, SameState, CommandsDiffer DEF PendingFollows
    <3> QED BY <1>3, <3>4, <3>6
  <2> QED BY <1>2, <2>1, <2>2, <2>3, <2>4
<1> QED BY <1>7, <1>8, <1>9

-----------------------------------------------------------------------------
\* List and clock tell the same of what is ahead, until the clock misses a meeting.
Mirror ==
  /\ clock <= now
  /\ Apart(calendar)
  /\ ~missed => Alone!CountInRange
  /\ Reliable /\ env.distinct =>
       /\ ClaimsApart /\ SentApart(events)
       /\ ~missed => \A s \in Nat : s > now => (s \in Clock!Pending <=> SentAt(events, s))

LEMMA InitMirror == ServiceInit => Mirror
<1> SUFFICES ASSUME ServiceInit PROVE Mirror
  OBVIOUS
<1>1. Init /\ Clock!Init
  BY DEF ServiceInit
<1>2. clock <= now /\ Apart(calendar)
  BY <1>1 DEF Init, Clock!Init
<1>3. Alone!CountInRange
  BY <1>1, ServiceAssumption DEF Clock!Init, Alone!CountInRange
<1>4. ClaimsApart
  BY <1>1 DEF Init, ClaimsApart
<1>5. SentIn(events) = {}
  BY <1>1 DEF Init, SentIn
<1>6. Clock!Pending = {}
  BY <1>1 DEF Clock!Init, Clock!Pending
<1> QED BY <1>2, <1>3, <1>4, <1>5, <1>6 DEF Mirror, SentApart, SentAt

LEMMA NextMirror ==
  ASSUME DispatcherInv, DispatcherInv', Alone!TypeOK, Alone!QueueSorted, Alone!AlarmFollowsQueue,
         Mirror, [ServiceNext]_serviceVars
  PROVE  Mirror'
<1>0. TypeOK /\ TypeOK' /\ OnePerEvent /\ SyncInv /\ [Next]_vars
  BY StepsOfAccount DEF DispatcherInv
<1>1. clock <= now /\ Apart(calendar) /\ (~missed => Alone!CountInRange)
  BY DEF Mirror
<1>2. env' = env /\ (Reliable' <=> Reliable)
  <2>1. events \in Seq(Entry) /\ num_send \in Int /\ fetched \in SUBSET Item
    BY <1>0 DEF TypeOK
  <2>2. env' = env
    BY <1>0, <2>1, ListSteps
  <2> QED BY <2>2 DEF Reliable
<1>3. clock' <= now'
  BY <1>0, <1>1, NextBehind
<1>4. Apart(calendar)'
  BY <1>0, <1>1, <1>2, ActionsDefined DEF Apart, ReadTime, send_time, getAllEvents, action, deleteOldEvents,
     OldEventsDeleted, getNewEvents, Merge, Merged, sendEvent, sendEventsReturns, Change, Tick, vars, outside
<1>5. missed => missed'
  BY DEF ServiceNext, AccountTurn, Execute, CalendarChanges, Minute, serviceVars
<1>6. CASE AccountTurn \/ CalendarChanges \/ Minute
  <2>1. ~missed' => Alone!CountInRange' /\ PendingFollows
    BY <1>0, <1>1, <1>5, <1>6, ClockTells
  <2>2. ASSUME Reliable, env.distinct PROVE ClaimsApart' /\ SentApart(events') /\ SentFollows
    <3>1. ClaimsApart /\ SentApart(events)
      BY <2>2 DEF Mirror
    <3>2. ClaimsApart'
      BY <1>0, <1>1, <2>2, <3>1, NextClaims
    <3>3. Account \/ Outside
      BY <1>6 DEF AccountTurn, CalendarChanges, Minute, Outside
    <3> QED BY <1>0, <2>2, <3>1, <3>2, <3>3, AccountTells
  <2>3. ASSUME Reliable, env.distinct, ~missed', NEW s \in Nat, s > now'
        PROVE  s \in Clock!Pending' <=> SentAt(events', s)
    <3>1. now \in Nat /\ now' \in Nat /\ now <= now'
      <4>1. now \in Nat /\ now' \in Nat
        BY <1>0, EnvType DEF TypeOK
      <4>2. now' = now \/ now' = now + 1
        BY <1>0, ActionsDefined DEF ReadTime, send_time, getAllEvents, action, deleteOldEvents,
           OldEventsDeleted, getNewEvents, Merge, Merged, sendEvent, sendEventsReturns, Change, Tick, vars, outside
      <4> QED BY <4>1, <4>2
    <3>2. s > now
      BY <2>3, <3>1
    <3>3. s \in Clock!Pending <=> SentAt(events, s)
      BY <1>5, <2>3, <3>2 DEF Mirror
    <3> QED BY <2>1, <2>2, <2>3, <3>3 DEF PendingFollows, SentFollows
  <2> QED BY <1>2, <1>3, <1>4, <2>1, <2>2, <2>3 DEF Mirror
<1>7. CASE (TimeStops /\ UNCHANGED <<clockVars, missed>>) \/ UNCHANGED serviceVars
  <2>1. UNCHANGED vars /\ UNCHANGED clockVars /\ UNCHANGED missed
    BY <1>7 DEF TimeStops, serviceVars
  <2>2. UNCHANGED <<env, now, pc, events, fetched, calendar, scheduleQ, numberOfSchedules, alarmOn, clock, overrun>>
    BY <2>1 DEF vars, outside, account, clockVars
  <2>3. Alone!CountInRange' <=> Alone!CountInRange
    BY <2>2 DEF Alone!CountInRange
  <2>4. ClaimsApart' <=> ClaimsApart
    BY <2>2 DEF ClaimsApart, Claim
  <2>5. Clock!Pending' = Clock!Pending
    BY <2>2 DEF Clock!Pending
  <2> QED BY <1>2, <1>3, <1>4, <2>1, <2>2, <2>3, <2>4, <2>5 DEF Mirror
<1> QED BY <1>6, <1>7 DEF ServiceNext

\* When nothing fails and no two events start at once, the clock has an alarm for every
\* event ahead that is marked as sent, and for no other, however the users' changes, the
\* rounds of the account and the rings of the clock interleave, until the clock has no room or
\* is asked to delete what rang (sendEvents, remove_event_id, handle_input, rtc_func).
THEOREM AlarmsAreMirrored == ServiceSpec => []AlarmsMirrored
<1>1. ServiceInit => Mirror
  BY InitMirror
<1>2. /\ DispatcherInv /\ DispatcherInv' /\ Alone!TypeOK /\ Alone!QueueSorted /\ Alone!AlarmFollowsQueue
      /\ Mirror /\ [ServiceNext]_serviceVars
      => Mirror'
  BY NextMirror
<1>3. Alone!Spec => []Alone!TypeOK /\ []Alone!QueueSorted /\ []Alone!AlarmFollowsQueue
  BY AloneAssumption, Alone!TypeCorrect, Alone!Sorted, Alone!FollowsQueue
<1>4. TypeOK /\ Alone!TypeOK /\ Mirror => AlarmsMirrored
  <2> SUFFICES ASSUME TypeOK, Alone!TypeOK, Mirror, Reliable, env.distinct, ~missed
               PROVE  {s \in Clock!Pending : s > now} = {events[i].start : i \in SentIn(events)} \ 0 .. now
    BY DEF AlarmsMirrored
  <2>1. \A s \in Nat : s > now => (s \in Clock!Pending <=> SentAt(events, s))
    BY DEF Mirror
  <2>2. now \in Nat
    BY EnvType DEF TypeOK
  <2>3. Clock!Pending \subseteq Nat
    <3>1. Start \cup {0} \subseteq Nat
      BY DispatcherAssumption
    <3>2. numberOfSchedules \in 0 .. Size
      BY DEF Mirror, Alone!CountInRange
    <3>3. \A i \in 0 .. numberOfSchedules - 1 : i \in Alone!Slot
      BY <3>2, ServiceAssumption DEF Alone!Slot
    <3> QED BY <3>1, <3>3 DEF Alone!TypeOK, Alone!None, Clock!Pending
  <2>4. \A i \in SentIn(events) : events[i].start \in Nat
    <3>1. SentIn(events) \subseteq 1 .. Len(events) /\ events \in Seq(Entry)
      BY DEF SentIn, TypeOK
    <3> QED BY <3>1, StartIsNat
  <2>5. \A s \in Nat : s \in {events[i].start : i \in SentIn(events)} <=> SentAt(events, s)
    BY DEF SentAt
  <2>6. \A s \in Nat : s \in 0 .. now <=> ~(s > now)
    BY <2>2
  <2> HIDE DEF Mirror
  <2> QED BY <2>1, <2>3, <2>4, <2>5, <2>6
<1>5. DispatcherInv => TypeOK
  BY DEF DispatcherInv
<1> QED BY <1>1, <1>2, <1>3, <1>4, <1>5, AccountHolds, DispatcherInvHolds, ClockIsDriven, PTL DEF ServiceSpec
-----------------------------------------------------------------------------
(* The clock under its account keeps the book                                  *)

LEMMA SameBook ==
  /\ UNCHANGED Alone!Book!book => UNCHANGED Clock!Book!book
  /\ Alone!Book!Next => Clock!Book!Next
<1>1. UNCHANGED Alone!Book!book => UNCHANGED Clock!Book!book
  BY DEF Alone!Book!book, Clock!Book!book, Alone!Pending, Clock!Pending
<1>2. Alone!Book!Next => Clock!Book!Next
  BY DEF Alone!Book!Next, Clock!Book!Next, Alone!Book!Store, Clock!Book!Store, Alone!Book!Cancel, Clock!Book!Cancel,
     Alone!Book!Pass, Clock!Book!Pass, Alone!Book!Ring, Clock!Book!Ring, Alone!Book!Adjust, Clock!Book!Adjust,
     Alone!Book!Earliest, Clock!Book!Earliest, Alone!Book!Due, Clock!Book!Due, Alone!Pending, Clock!Pending
<1> QED BY <1>1, <1>2

\* A command that takes no remains for a meeting is an entry in the book, or unseen.
LEMMA CommandIsBooked ==
  ASSUME TypeOK', Alone!IInv, Alone!IInv', ~missed', AccountTurn
  PROVE  Alone!Book!Next \/ UNCHANGED Alone!Book!book
<1>0. ~overrun /\ Execute(out') /\ (out'.cmd \in {"M", "D"} => out'.at \in Start)
      /\ (out'.cmd = "S" => out'.at \in 0 .. LastTime)
  BY DEF AccountTurn, Alone!IInv, Alone!CountInRange, TypeOK, Command, Silence
<1>1. CASE UNCHANGED clockVars
  BY <1>1, AloneAssumption, Alone!Unseen DEF clockVars, Alone!queue, Alone!alarm
<1>2. CASE out'.cmd = "S" /\ Clock!SetClock(out'.at)
  <2>1. Alone!SetClock(out'.at) /\ out'.at \in Nat
    BY <1>0, <1>2, SameCommands, DispatcherAssumption
  <2> QED BY <2>1 DEF Alone!SetClock, Alone!Book!Next, Alone!Book!Adjust, Alone!queue, Alone!alarm, Alone!Pending
<1>3. CASE out'.cmd = "M" /\ Clock!SetMeeting(out'.at)
  <2>1. Alone!SetMeeting(out'.at) /\ out'.at \in Start
    BY <1>0, <1>3, SameCommands
  <2> QED BY <2>1, AloneAssumption, Alone!SetMeetingStores DEF Alone!Book!Next
<1>4. CASE out'.cmd = "M" /\ Clock!SetMeetingOverrun(out'.at)
  BY <1>4, ServiceAssumption DEF Clock!SetMeetingOverrun, Alone!IInv, Alone!CountInRange
<1>5. CASE out'.cmd = "D" /\ Clock!DeleteMeeting(out'.at)
  <2>1. Alone!DeleteMeeting(out'.at) /\ out'.at \in Start
    BY <1>0, <1>5, SameCommands
  <2>2. out'.at \in Alone!Pending \/ ~Alone!Stored(out'.at)
    BY <1>0, <1>5, SameState DEF Execute
  <2>3. CASE out'.at \in Alone!Pending
    BY <2>1, <2>3, AloneAssumption, Alone!DeleteMeetingCancels DEF Alone!Book!Next
  <2>4. CASE ~Alone!Stored(out'.at)
    BY <2>1, <2>4, AloneAssumption, Alone!DeleteMeetingUnseen
  <2> QED BY <2>2, <2>3, <2>4
<1> QED BY <1>0, <1>1, <1>2, <1>3, <1>4, <1>5 DEF Execute

\* So is every step of the two.
LEMMA StepIsBooked ==
  ASSUME TypeOK', Alone!IInv, Alone!IInv', ~missed', [ServiceNext]_serviceVars
  PROVE  [Clock!Book!Next]_(Clock!Book!book)
<1>1. CASE UNCHANGED clockVars
  BY <1>1, SameBook, AloneAssumption, Alone!Unseen DEF clockVars, Alone!queue, Alone!alarm
<1>2. CASE AccountTurn
  BY <1>2, SameBook, CommandIsBooked
<1>3. CASE Minute /\ ~UNCHANGED clockVars
  <2>1. Alone!rtc_func
    BY <1>3, SameSecond DEF Minute
  <2> QED BY <2>1, SameBook, AloneAssumption, Alone!SecondRingsOrPasses DEF Alone!Book!Next
<1> QED BY <1>1, <1>2, <1>3 DEF ServiceNext, CalendarChanges, serviceVars

\* The clock under its account implements AlarmBook, whatever fails, in any calendar and
\* for every size of the array, until it has no room for a meeting or is asked to delete what
\* rang: AlarmService drives AlarmClock, which until then implements the book.
THEOREM BookIsKept == ServiceSpec => BookKept
<1>1. ServiceInit => Mirror
  BY InitMirror
<1>2. /\ DispatcherInv /\ DispatcherInv' /\ Alone!TypeOK /\ Alone!QueueSorted /\ Alone!AlarmFollowsQueue
      /\ Mirror /\ [ServiceNext]_serviceVars
      => Mirror'
  BY NextMirror
<1>3. Alone!Spec => []Alone!TypeOK /\ []Alone!QueueSorted /\ []Alone!AlarmFollowsQueue
  BY AloneAssumption, Alone!TypeCorrect, Alone!Sorted, Alone!FollowsQueue
<1> DEFINE Now == TypeOK /\ Alone!TypeOK /\ Alone!QueueSorted /\ Alone!AlarmFollowsQueue /\ Mirror
<1>4. Now /\ Now' /\ [ServiceNext]_serviceVars
        => [~missed' => [Clock!Book!Next]_(Clock!Book!book)]_serviceVars
  <2> SUFFICES ASSUME Now, Now', [ServiceNext]_serviceVars, ~missed'
               PROVE  [Clock!Book!Next]_(Clock!Book!book)
    OBVIOUS
  <2>1. ~missed
    BY DEF ServiceNext, AccountTurn, Execute, CalendarChanges, Minute, serviceVars
  <2>2. Alone!IInv
    BY <2>1 DEF Mirror, Alone!IInv
  <2>3. Alone!IInv'
    BY DEF Mirror, Alone!IInv
  <2> QED BY <2>2, <2>3, StepIsBooked
<1>5. DispatcherInv => TypeOK
  BY DEF DispatcherInv
<1> QED
  BY <1>1, <1>2, <1>3, <1>4, <1>5, AccountHolds, DispatcherInvHolds, ClockIsDriven, PTL DEF ServiceSpec, BookKept
=============================================================================
