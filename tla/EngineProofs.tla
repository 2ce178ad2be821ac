----------------------------- MODULE EngineProofs -----------------------------
(***************************************************************************)
(* The matching engine.  First, what the operations on one side of a book  *)
(* return: where bisect.insort puts an entry, what remove and a fill       *)
(* leave, and that all of them keep the list sorted.  The provers have no  *)
(* induction; the first lemma, that a set of naturals has a least element, *)
(* stands in for it.                                                       *)
(*                                                                         *)
(* Then the invariant of the engine, action by action.  It is stated for   *)
(* the actions, so that the engine alone (Matcher) and the composed system *)
(* (Trading) use the same lemmas.                                          *)
(***************************************************************************)
EXTENDS Matcher, SequenceTheorems, FiniteSetTheorems, WellFoundedInduction, TLAPS

-----------------------------------------------------------------------------
(* One side of a book *)

\* A non-empty set of naturals has a least element: the intervals 0..i are
\* finite sets, and strict inclusion of finite sets is well-founded.
LEMMA NatMinimum ==
  ASSUME NEW I \in SUBSET Nat, I # {}
  PROVE  /\ Min(I) \in I
         /\ \A i \in I : Min(I) <= i
<1> DEFINE Below == { 0..i : i \in I }
<1>1. Below \subseteq FiniteSubsetsOf(Nat) /\ Below # {}
  <2>1. \A i \in I : 0..i \in SUBSET Nat /\ IsFiniteSet(0..i)
    BY FS_Interval
  <2>2. QED
    BY <2>1 DEF FiniteSubsetsOf
<1>2. PICK M \in Below : \A L \in Below : <<L, M>> \notin StrictSubsetOrdering(Nat)
  <2> HIDE DEF Below
  <2>1. QED
    BY <1>1, FS_StrictSubsetOrderingWellFounded, WFMin
<1>3. PICK m \in I : M = 0..m
  BY <1>2
<1>4. \A i \in I : m <= i
  <2>1. SUFFICES ASSUME NEW i \in I, i < m PROVE FALSE
    BY SMT
  <2>2. 0..i \in Below /\ 0..i \subseteq 0..m /\ 0..i # 0..m
    <3>1. i \in Nat /\ m \in Nat
      OBVIOUS
    <3>2. m \in 0..m /\ m \notin 0..i
      BY <2>1, <3>1
    <3>3. QED
      BY <2>1, <3>1, <3>2
  <2>3. 0..i \in SUBSET Nat /\ 0..m \in SUBSET Nat
    OBVIOUS
  <2>4. <<0..i, 0..m>> \in StrictSubsetOrdering(Nat)
    BY <2>2, <2>3 DEF StrictSubsetOrdering
  <2>5. QED
    BY <1>2, <1>3, <2>2, <2>4
<1>5. QED
  BY <1>4 DEF Min

LEMMA NotOutrankedBelow ==
  ASSUME NEW side, NEW e \in Entries, NEW f \in Entries, NEW g \in Entries,
         Outranks(side, e, f), ~Outranks(side, g, f)
  PROVE  Outranks(side, e, g)
<1>1. /\ e.price \in Nat /\ f.price \in Nat /\ g.price \in Nat
      /\ e.time \in Nat /\ f.time \in Nat /\ g.time \in Nat
  BY DEF Entries
<1>2. QED
  BY <1>1 DEF Outranks

LEMMA OutranksAsymmetric ==
  ASSUME NEW side, NEW e \in Entries, NEW f \in Entries, Outranks(side, e, f)
  PROVE  ~Outranks(side, f, e)
<1>1. /\ e.price \in Nat /\ f.price \in Nat
      /\ e.time \in Nat /\ f.time \in Nat
  BY DEF Entries
<1>2. QED
  BY <1>1 DEF Outranks

LEMMA InsertPoint ==
  ASSUME NEW side \in Sides, NEW list \in Seq(Entries), NEW e \in Entries,
         Sorted(side, list)
  PROVE  \E n \in 0..Len(list) :
           /\ \A i \in 1..n : ~Outranks(side, e, list[i])
           /\ \A i \in n+1..Len(list) : Outranks(side, e, list[i])
<1> DEFINE I == { i \in 1..Len(list) : Outranks(side, e, list[i]) }
<1>1. CASE I = {}
  <2>1. \A i \in 1..Len(list) : ~Outranks(side, e, list[i])
    BY <1>1
  <2>2. Len(list) \in 0..Len(list)
    BY LenProperties
  <2>3. QED
    BY <2>1, <2>2
<1>2. CASE I # {}
  <2> DEFINE m == Min(I)
  <2>1. I \in SUBSET Nat
    OBVIOUS
  <2>2. m \in I /\ \A i \in I : m <= i
    <3> HIDE DEF I
    <3> QED BY <1>2, <2>1, NatMinimum
  <2>3. m \in 1..Len(list) /\ Outranks(side, e, list[m])
    BY <2>2
  <2>4. \A i \in 1..m-1 : ~Outranks(side, e, list[i])
    <3> SUFFICES ASSUME NEW i \in 1..m-1, Outranks(side, e, list[i]) PROVE FALSE
      OBVIOUS
    <3>1. i \in I
      BY <2>3
    <3>2. QED
      BY <2>2, <2>3, <3>1
  <2> HIDE DEF m, I
  <2>5. \A i \in m..Len(list) : Outranks(side, e, list[i])
    <3> SUFFICES ASSUME NEW i \in m..Len(list), i # m PROVE Outranks(side, e, list[i])
      BY <2>3
    <3>1. /\ i \in 1..Len(list) /\ m < i
          /\ ~Outranks(side, list[i], list[m])
      BY <2>3 DEF Sorted
    <3>2. list[i] \in Entries /\ list[m] \in Entries
      BY <2>3, <3>1, ElementOfSeq
    <3>3. QED
      BY <2>3, <3>1, <3>2, NotOutrankedBelow
  <2>6. m-1 \in 0..Len(list) /\ (m-1)+1 = m
    BY <2>3
  <2>7. QED
    BY <2>4, <2>5, <2>6
<1>3. QED
  BY <1>1, <1>2

\* list with e put after its first n entries, where it belongs.
InsertedAt(n, side, list, e, new) ==
  /\ \A i \in 1..n : ~Outranks(side, e, list[i])
  /\ \A i \in n+1..Len(list) : Outranks(side, e, list[i])
  /\ new \in Seq(Entries)
  /\ Len(new) = Len(list) + 1
  /\ \A i \in 1..Len(list)+1 :
       new[i] = IF i <= n THEN list[i] ELSE IF i = n+1 THEN e ELSE list[i-1]

LEMMA InsertProperties ==
  ASSUME NEW side \in Sides, NEW list \in Seq(Entries), NEW e \in Entries,
         Sorted(side, list)
  PROVE  \E n \in 0..Len(list) : InsertedAt(n, side, list, e, Insert(side, list, e))
<1> DEFINE Fits(n) == /\ \A i \in 1..n : ~Outranks(side, e, list[i])
                      /\ \A i \in n+1..Len(list) : Outranks(side, e, list[i])
           k == CHOOSE n \in 0..Len(list) : Fits(n)
           low == SubSeq(list, 1, k)
           high == SubSeq(list, k+1, Len(list))
<1>1. k \in 0..Len(list) /\ Fits(k)
  BY InsertPoint
<1>2. Insert(side, list, e) = InsertAt(list, k+1, e)
  BY Zenon DEF Insert
<1> HIDE DEF k
<1>3. Insert(side, list, e) = (low \o <<e>>) \o high
  <2>1. (k+1)-1 = k
    BY <1>1
  <2>2. QED
    BY <1>2, <2>1 DEF InsertAt
<1>4. /\ low \in Seq(Entries) /\ Len(low) = k
      /\ \A i \in 1..k : low[i] = list[i]
  <2>1. \A i \in 1..k : list[i] \in Entries
    BY <1>1, ElementOfSeq
  <2>2. QED
    BY <1>1, <2>1, SubSeqProperties
<1>5. /\ high \in Seq(Entries) /\ Len(high) = Len(list) - k
      /\ \A i \in 1..Len(list)-k : high[i] = list[k+i]
  <2>1. \A i \in k+1..Len(list) : list[i] \in Entries
    BY <1>1, ElementOfSeq
  <2>2. k+1 \in Int /\ Len(list) \in Int
    BY <1>1
  <2>3. QED
    BY <1>1, <2>1, <2>2, SubSeqProperties
<1> HIDE DEF low, high
<1>6. /\ <<e>> \in Seq(Entries) /\ Len(<<e>>) = 1 /\ <<e>>[1] = e
  OBVIOUS
<1> DEFINE lowE == low \o <<e>>
<1>7. /\ lowE \in Seq(Entries) /\ Len(lowE) = k+1
      /\ \A i \in 1..k+1 : lowE[i] = IF i <= k THEN list[i] ELSE e
  BY <1>1, <1>4, <1>6, ConcatProperties
<1> HIDE DEF lowE
<1>8. /\ lowE \o high \in Seq(Entries)
      /\ Len(lowE \o high) = Len(list) + 1
      /\ \A i \in 1..Len(list)+1 : (lowE \o high)[i] =
            IF i <= k+1 THEN lowE[i] ELSE high[i-(k+1)]
  BY <1>1, <1>5, <1>7, ConcatProperties
<1>9. Insert(side, list, e) = lowE \o high
  BY <1>3 DEF lowE
<1>10. \A i \in 1..Len(list)+1 : (lowE \o high)[i] =
        IF i <= k THEN list[i] ELSE IF i = k+1 THEN e ELSE list[i-1]
  <2> TAKE i \in 1..Len(list)+1
  <2>1. CASE i <= k+1
    BY <1>1, <1>7, <1>8, <2>1
  <2>2. CASE i > k+1
    <3>1. /\ i-(k+1) \in 1..Len(list)-k
          /\ k+(i-(k+1)) = i-1
      BY <1>1, <2>2
    <3>2. high[i-(k+1)] = list[i-1]
      BY <1>5, <3>1
    <3>3. QED
      BY <1>1, <1>8, <2>2, <3>2
  <2>3. i <= k+1 \/ i > k+1
    BY <1>1, LenProperties
  <2>4. QED
    BY <2>1, <2>2, <2>3, Zenon
<1>11. QED
  <2>1. \A i \in 1..Len(list)+1 : Insert(side, list, e)[i] =
          IF i <= k THEN list[i] ELSE IF i = k+1 THEN e ELSE list[i-1]
    BY <1>9, <1>10
  <2>2. /\ Insert(side, list, e) \in Seq(Entries)
        /\ Len(Insert(side, list, e)) = Len(list) + 1
    BY <1>8, <1>9
  <2>3. QED
    BY <1>1, <2>1, <2>2 DEF InsertedAt

LEMMA InsertSorted ==
  ASSUME NEW side \in Sides, NEW list \in Seq(Entries), NEW e \in Entries,
         Sorted(side, list)
  PROVE  /\ Insert(side, list, e) \in Seq(Entries)
         /\ Sorted(side, Insert(side, list, e))
<1> SUFFICES ASSUME NEW r, r = Insert(side, list, e)
             PROVE  r \in Seq(Entries) /\ Sorted(side, r)
  OBVIOUS
<1>1. PICK n \in 0..Len(list) : InsertedAt(n, side, list, e, r)
  BY InsertProperties
<1>2. /\ \A i \in 1..n : ~Outranks(side, e, list[i])
      /\ \A i \in n+1..Len(list) : Outranks(side, e, list[i])
      /\ r \in Seq(Entries)
      /\ Len(r) = Len(list) + 1
      /\ \A i \in 1..Len(list)+1 :
           r[i] = IF i <= n THEN list[i] ELSE IF i = n+1 THEN e ELSE list[i-1]
  BY <1>1 DEF InsertedAt
<1>3. \A i \in n+1..Len(list) : ~Outranks(side, list[i], e)
  <2> SUFFICES ASSUME NEW i \in n+1..Len(list) PROVE ~Outranks(side, list[i], e)
    OBVIOUS
  <2>1. list[i] \in Entries
    BY <1>2, ElementOfSeq
  <2>2. QED
    BY <1>2, <2>1, OutranksAsymmetric
<1>4. ASSUME NEW i \in 1..Len(r), NEW j \in 1..Len(r), i < j
      PROVE  ~Outranks(side, r[j], r[i])
  <2>1. /\ Len(list) \in Nat /\ i \in 1..Len(list)+1 /\ j \in 1..Len(list)+1
        /\ i \in Nat /\ j \in Nat /\ n \in Nat
    BY <1>2, LenProperties
  <2>2. CASE j <= n
    <3>1. r[i] = list[i] /\ r[j] = list[j] /\ i \in 1..Len(list) /\ j \in 1..Len(list)
      BY <1>2, <1>4, <2>1, <2>2
    <3>2. QED
      BY <1>4, <3>1 DEF Sorted
  <2>3. CASE j = n+1
    <3>1. r[i] = list[i] /\ r[j] = e /\ i \in 1..n
      BY <1>2, <1>4, <2>1, <2>3
    <3>2. QED
      BY <1>2, <3>1
  <2>4. CASE j > n+1 /\ i <= n
    <3>1. /\ r[i] = list[i] /\ r[j] = list[j-1]
          /\ i \in 1..Len(list) /\ j-1 \in 1..Len(list) /\ i < j-1
      BY <1>2, <1>4, <2>1, <2>4
    <3>2. QED
      BY <3>1 DEF Sorted
  <2>5. CASE i = n+1
    <3>1. r[i] = e /\ r[j] = list[j-1] /\ j-1 \in n+1..Len(list)
      BY <1>2, <1>4, <2>1, <2>5
    <3>2. QED
      BY <1>3, <3>1
  <2>6. CASE i > n+1
    <3>1. /\ r[i] = list[i-1] /\ r[j] = list[j-1]
          /\ i-1 \in 1..Len(list) /\ j-1 \in 1..Len(list) /\ i-1 < j-1
      BY <1>2, <1>4, <2>1, <2>6
    <3>2. QED
      BY <3>1 DEF Sorted
  <2>7. QED
    BY <1>4, <2>1, <2>2, <2>3, <2>4, <2>5, <2>6
<1>5. Sorted(side, r)
  BY <1>4 DEF Sorted
<1>6. QED
  BY <1>2, <1>5

LEMMA RemoveOrderProperties ==
  ASSUME NEW list \in Seq(Entries), NEW o
  PROVE  \/ ~Rests(list, o) /\ RemoveOrder(list, o) = list
         \/ \E k \in 1..Len(list) :
              /\ list[k].order = o
              /\ RemoveOrder(list, o) \in Seq(Entries)
              /\ Len(RemoveOrder(list, o)) = Len(list) - 1
              /\ \A i \in 1..Len(list)-1 :
                   RemoveOrder(list, o)[i] = IF i < k THEN list[i] ELSE list[i+1]
<1> DEFINE I == { i \in 1..Len(list) : list[i].order = o }
           k == Min(I)
           low == SubSeq(list, 1, k-1)
           high == SubSeq(list, k+1, Len(list))
<1>1. CASE I = {}
  <2>1. ~ \E i \in 1..Len(list) : list[i].order = o
    BY <1>1
  <2>2. RemoveOrder(list, o) = list
    BY <2>1 DEF RemoveOrder, RemoveFirstMatch
  <2>3. ~Rests(list, o)
    BY <2>1, LenProperties DEF Rests
  <2>4. QED
    BY <2>2, <2>3
<1>2. CASE I # {}
  <2>1. I \in SUBSET Nat /\ (\E i \in 1..Len(list) : list[i].order = o)
    BY <1>2
  <2>2. RemoveOrder(list, o) = low \o high
    BY <1>2, <2>1 DEF RemoveOrder, RemoveFirstMatch, RemoveAt, SelectInSeq
  <2>3. k \in I
    <3> HIDE DEF I
    <3> QED BY <1>2, <2>1, NatMinimum
  <2>4. k \in 1..Len(list) /\ list[k].order = o
    BY <2>3
  <2> HIDE DEF I, k
  <2>5. \A i \in 1..Len(list) : list[i] \in Entries
    BY ElementOfSeq
  <2>6. /\ low \in Seq(Entries) /\ Len(low) = k-1
        /\ \A i \in 1..k-1 : low[i] = list[i]
    BY <2>4, <2>5, SubSeqProperties
  <2>7. /\ high \in Seq(Entries) /\ Len(high) = Len(list)-k
        /\ \A i \in 1..Len(list)-k : high[i] = list[k+i]
    BY <2>4, <2>5, SubSeqProperties
  <2> HIDE DEF low, high
  <2>8. /\ low \o high \in Seq(Entries)
        /\ Len(low \o high) = Len(list)-1
        /\ \A i \in 1..Len(list)-1 :
             (low \o high)[i] = IF i <= k-1 THEN low[i] ELSE high[i-(k-1)]
    <3>1. /\ low \o high \in Seq(Entries)
          /\ Len(low \o high) = Len(low) + Len(high)
          /\ \A i \in 1..Len(low) + Len(high) :
               (low \o high)[i] = IF i <= Len(low) THEN low[i] ELSE high[i-Len(low)]
      BY <2>6, <2>7, ConcatProperties
    <3>2. Len(list) \in Nat /\ Len(low) + Len(high) = Len(list)-1
      BY <2>4, <2>6, <2>7, LenProperties
    <3> QED
      BY ONLY <2>6, <3>1, <3>2
  <2>9. \A i \in 1..Len(list)-1 :
          (low \o high)[i] = IF i < k THEN list[i] ELSE list[i+1]
    <3> TAKE i \in 1..Len(list)-1
    <3>1. CASE i < k
      BY <2>4, <2>6, <2>8, <3>1
    <3>2. CASE i >= k
      <4>1. i-(k-1) \in 1..Len(list)-k /\ k+(i-(k-1)) = i+1 /\ ~(i <= k-1)
        BY <2>4, <3>2
      <4>2. QED
        <5>1. (low \o high)[i] = high[i-(k-1)]
          BY <2>8, <4>1
        <5>2. high[i-(k-1)] = list[i+1]
          BY <2>7, <4>1
        <5>3. ~(i < k)
          BY <2>4, <3>2
        <5> QED
          BY ONLY <5>1, <5>2, <5>3
    <3>3. i < k \/ i >= k
      BY <2>4
    <3>4. QED
      BY <3>1, <3>2, <3>3, Zenon
  <2>10. QED
    BY <2>2, <2>4, <2>8, <2>9
<1>3. QED
  BY <1>1, <1>2

LEMMA RemoveOrderSorted ==
  ASSUME NEW list \in Seq(Entries), NEW o
  PROVE  /\ RemoveOrder(list, o) \in Seq(Entries)
         /\ \A side : Sorted(side, list) => Sorted(side, RemoveOrder(list, o))
<1> DEFINE r == RemoveOrder(list, o)
<1>1. CASE r = list
  BY <1>1
<1>2. ASSUME NEW k \in 1..Len(list),
             r \in Seq(Entries),
             Len(r) = Len(list) - 1,
             \A i \in 1..Len(list)-1 : r[i] = IF i < k THEN list[i] ELSE list[i+1]
      PROVE  /\ r \in Seq(Entries)
             /\ \A side : Sorted(side, list) => Sorted(side, r)
  <2> HIDE DEF r
  <2> DEFINE from(i) == IF i < k THEN i ELSE i+1
  <2>1. \A i \in 1..Len(r) : from(i) \in 1..Len(list) /\ r[i] = list[from(i)]
    BY <1>2
  <2>2. \A i, j \in 1..Len(r) : i < j => from(i) < from(j)
    BY <1>2
  <2> HIDE DEF from
  <2>3. \A side : Sorted(side, list) => Sorted(side, r)
    BY <2>1, <2>2 DEF Sorted
  <2>4. QED
    BY <1>2, <2>3
<1>3. QED
  BY <1>1, <1>2, RemoveOrderProperties

\* pop_top.
LEMMA PopEntries ==
  ASSUME NEW list \in Seq(Entries), list # <<>>, NEW q, Head(list).qty = q
  PROVE  /\ Len(FillTop(list, q)) = Len(list) - 1
         /\ \A i \in 1..Len(list)-1 : FillTop(list, q)[i] = list[i+1]
<1>1. FillTop(list, q) = Tail(list)
  BY DEF FillTop
<1>2. QED
  BY <1>1, HeadTailProperties

\* reduce_top.
LEMMA ReduceEntries ==
  ASSUME NEW list \in Seq(Entries), list # <<>>, NEW q, Head(list).qty # q
  PROVE  /\ Len(FillTop(list, q)) = Len(list)
         /\ FillTop(list, q)[1] = [Head(list) EXCEPT !.qty = @ - q]
         /\ \A i \in 2..Len(list) : FillTop(list, q)[i] = list[i]
<1> DEFINE top == [Head(list) EXCEPT !.qty = @ - q]
           rest == Tail(list)
           U == Entries \cup {top}
<1>1. /\ rest \in Seq(Entries) /\ Len(list) \in Nat /\ Len(rest) = Len(list)-1
      /\ \A i \in 1..Len(rest) : rest[i] = list[i+1]
  BY HeadTailProperties, LenProperties
<1>2. rest \in Seq(U) /\ <<top>> \in Seq(U) /\ Len(<<top>>) = 1 /\ <<top>>[1] = top
  BY <1>1, SeqMonotonic
<1>3. FillTop(list, q) = <<top>> \o rest
  BY DEF FillTop
<1> HIDE DEF top, rest, U
<1>4. /\ Len(<<top>> \o rest) = 1 + Len(rest)
      /\ \A i \in 1..1+Len(rest) :
           (<<top>> \o rest)[i] = IF i <= 1 THEN <<top>>[i] ELSE rest[i-1]
  BY <1>2, ConcatProperties
<1>5. (<<top>> \o rest)[1] = top
  BY <1>1, <1>2, <1>4
<1>6. \A i \in 2..Len(list) : (<<top>> \o rest)[i] = list[i]
  <2> TAKE i \in 2..Len(list)
  <2>1. i-1 \in 1..Len(rest) /\ (i-1)+1 = i /\ i \in 1..1+Len(rest) /\ ~(i <= 1)
    BY <1>1
  <2>2. QED
    BY <1>1, <1>4, <2>1
<1>7. QED
  BY <1>1, <1>3, <1>4, <1>5, <1>6 DEF top

LEMMA FillTopProperties ==
  ASSUME NEW list \in Seq(Entries), list # <<>>, NEW q \in Nat \ {0},
         q <= Head(list).qty
  PROVE  /\ FillTop(list, q) \in Seq(Entries)
         /\ \A side : Sorted(side, list) => Sorted(side, FillTop(list, q))
<1> DEFINE top == [Head(list) EXCEPT !.qty = @ - q]
<1> SUFFICES ASSUME NEW r, r = FillTop(list, q)
             PROVE  r \in Seq(Entries) /\ \A side : Sorted(side, list) => Sorted(side, r)
  OBVIOUS
<1>1. /\ Len(list) \in Nat /\ Len(list) >= 1 /\ Head(list) = list[1]
      /\ list[1] \in Entries /\ Tail(list) \in Seq(Entries)
  BY LenProperties, EmptySeq, ElementOfSeq, HeadTailProperties
<1>2. CASE Head(list).qty = q
  <2>1. r \in Seq(Entries)
    BY <1>1, <1>2 DEF FillTop
  <2>2. Len(r) = Len(list) - 1 /\ \A i \in 1..Len(list)-1 : r[i] = list[i+1]
    BY <1>2, PopEntries
  <2>3. ASSUME NEW side, Sorted(side, list),
               NEW i \in 1..Len(r), NEW j \in 1..Len(r), i < j
        PROVE  ~Outranks(side, r[j], r[i])
    <3>1. /\ r[i] = list[i+1] /\ r[j] = list[j+1] /\ i+1 < j+1
          /\ i+1 \in 1..Len(list) /\ j+1 \in 1..Len(list)
      BY <1>1, <2>2, <2>3
    <3>2. QED
      BY <2>3, <3>1 DEF Sorted
  <2>4. QED
    BY <2>1, <2>3 DEF Sorted
<1>3. CASE Head(list).qty # q
  <2>1. /\ top \in Entries
        /\ top.price = list[1].price /\ top.time = list[1].time
    <3>1. Head(list).qty \in Nat \ {0}
      BY <1>1 DEF Entries
    <3>2. Head(list).qty - q \in Nat \ {0}
      BY <1>3, <3>1
    <3>3. QED
      BY <1>1, <3>2 DEF Entries
  <2>2. r \in Seq(Entries)
    <3>1. r = <<top>> \o Tail(list)
      BY <1>3 DEF FillTop
    <3>2. <<top>> \in Seq(Entries)
      BY <2>1
    <3> HIDE DEF top
    <3>3. QED
      BY <1>1, <3>1, <3>2, ConcatProperties
  <2>3. Len(r) = Len(list) /\ r[1] = top /\ \A i \in 2..Len(list) : r[i] = list[i]
    BY <1>3, ReduceEntries
  <2> HIDE DEF top
  <2>4. ASSUME NEW side, Sorted(side, list),
               NEW i \in 1..Len(r), NEW j \in 1..Len(r), i < j
        PROVE  ~Outranks(side, r[j], r[i])
    <3>1. ~Outranks(side, list[j], list[i]) /\ r[j] = list[j]
      BY <1>1, <2>3, <2>4 DEF Sorted
    <3>2. r[i].price = list[i].price /\ r[i].time = list[i].time
      BY <1>1, <2>1, <2>3
    <3>3. QED
      BY <3>1, <3>2 DEF Outranks
  <2>5. QED
    BY <2>2, <2>4 DEF Sorted
<1>4. QED
  BY <1>2, <1>3

-----------------------------------------------------------------------------
(* Which orders rest on a list, and how much of each. *)

OrdersOn(list) == { list[i].order : i \in 1..Len(list) }

Distinct(list) ==
  \A i, j \in 1..Len(list) : list[i].order = list[j].order => i = j

LEMMA InsertOrders ==
  ASSUME NEW side \in Sides, NEW list \in Seq(Entries), NEW e \in Entries,
         Sorted(side, list)
  PROVE  /\ OrdersOn(Insert(side, list, e)) = OrdersOn(list) \cup {e.order}
         /\ Distinct(list) /\ e.order \notin OrdersOn(list)
              => Distinct(Insert(side, list, e))
<1> SUFFICES ASSUME NEW r, r = Insert(side, list, e)
             PROVE  /\ OrdersOn(r) = OrdersOn(list) \cup {e.order}
                    /\ Distinct(list) /\ e.order \notin OrdersOn(list) => Distinct(r)
  OBVIOUS
<1>1. PICK n \in 0..Len(list) : InsertedAt(n, side, list, e, r)
  BY InsertProperties
<1> DEFINE from(i) == IF i <= n THEN i ELSE i-1
<1>2. /\ Len(r) = Len(list) + 1 /\ Len(list) \in Nat /\ n \in 0..Len(list)
      /\ r[n+1] = e /\ n+1 \in 1..Len(r)
      /\ \A i \in 1..Len(r) : i # n+1 => from(i) \in 1..Len(list) /\ r[i] = list[from(i)]
  BY <1>1, LenProperties DEF InsertedAt
<1>3. \A j \in 1..Len(list) : \E i \in 1..Len(r) : i # n+1 /\ from(i) = j
  <2> TAKE j \in 1..Len(list)
  <2>1. CASE j <= n
    BY <1>2, <2>1
  <2>2. CASE j > n
    <3>1. j+1 \in 1..Len(r) /\ j+1 # n+1 /\ from(j+1) = j
      BY <1>2, <2>2
    <3>2. QED
      BY <3>1
  <2>3. QED
    BY <1>2, <2>1, <2>2
<1>4. \A i, j \in 1..Len(r) : i # n+1 /\ j # n+1 /\ from(i) = from(j) => i = j
  BY <1>2
<1> HIDE DEF from
<1>5. OrdersOn(r) \subseteq OrdersOn(list) \cup {e.order}
  BY <1>2 DEF OrdersOn
<1>6. OrdersOn(list) \cup {e.order} \subseteq OrdersOn(r)
  <2>1. ASSUME NEW j \in 1..Len(list) PROVE list[j].order \in OrdersOn(r)
    <3>1. PICK i \in 1..Len(r) : i # n+1 /\ from(i) = j
      BY <1>3
    <3>2. r[i] = list[j]
      BY <1>2, <3>1
    <3>3. QED
      BY <3>2 DEF OrdersOn
  <2>2. e.order \in OrdersOn(r)
    BY <1>2 DEF OrdersOn
  <2>3. QED
    BY <2>1, <2>2 DEF OrdersOn
<1>7. ASSUME Distinct(list), e.order \notin OrdersOn(list) PROVE Distinct(r)
  <2>1. \A i \in 1..Len(r) : i # n+1 => r[i].order # e.order
    BY <1>2, <1>7 DEF OrdersOn
  <2>2. QED
    BY <1>2, <1>4, <1>7, <2>1, SMTT(30) DEF Distinct
<1>8. QED
  BY <1>5, <1>6, <1>7

LEMMA RemoveOrders ==
  ASSUME NEW list \in Seq(Entries), NEW o
  PROVE  /\ OrdersOn(RemoveOrder(list, o)) \subseteq OrdersOn(list)
         /\ Distinct(list) => /\ Distinct(RemoveOrder(list, o))
                              /\ OrdersOn(RemoveOrder(list, o)) = OrdersOn(list) \ {o}
<1> SUFFICES ASSUME NEW r, r = RemoveOrder(list, o)
             PROVE  /\ OrdersOn(r) \subseteq OrdersOn(list)
                    /\ Distinct(list) => /\ Distinct(r)
                                         /\ OrdersOn(r) = OrdersOn(list) \ {o}
  OBVIOUS
<1>1. CASE ~Rests(list, o) /\ r = list
  BY <1>1, LenProperties DEF Rests, OrdersOn
<1>2. ASSUME NEW k \in 1..Len(list), list[k].order = o,
             r \in Seq(Entries), Len(r) = Len(list) - 1,
             \A i \in 1..Len(list)-1 : r[i] = IF i < k THEN list[i] ELSE list[i+1]
      PROVE  /\ OrdersOn(r) \subseteq OrdersOn(list)
             /\ Distinct(list) => /\ Distinct(r)
                                  /\ OrdersOn(r) = OrdersOn(list) \ {o}
  <2> DEFINE from(i) == IF i < k THEN i ELSE i+1
  <2>1. /\ \A i \in 1..Len(r) : from(i) \in 1..Len(list) /\ from(i) # k /\ r[i] = list[from(i)]
        /\ \A i, j \in 1..Len(r) : from(i) = from(j) => i = j
    BY <1>2, LenProperties
  <2>2. \A j \in 1..Len(list) : j # k => \E i \in 1..Len(r) : from(i) = j
    <3> TAKE j \in 1..Len(list)
    <3>1. CASE j < k
      <4>1. j \in 1..Len(r) /\ from(j) = j
        BY <1>2, <3>1, LenProperties
      <4>2. QED
        BY <4>1
    <3>2. CASE j > k
      <4>1. j-1 \in 1..Len(r) /\ from(j-1) = j
        BY <1>2, <3>2, LenProperties
      <4>2. QED
        BY <4>1
    <3>3. QED
      BY <3>1, <3>2
  <2> HIDE DEF from
  <2>3. OrdersOn(r) \subseteq OrdersOn(list)
    BY <2>1 DEF OrdersOn
  <2>4. ASSUME Distinct(list) PROVE Distinct(r) /\ OrdersOn(r) = OrdersOn(list) \ {o}
    <3>1. Distinct(r)
      BY <2>1, <2>4 DEF Distinct
    <3>2. o \notin OrdersOn(r)
      BY <1>2, <2>1, <2>4 DEF Distinct, OrdersOn
    <3>3. ASSUME NEW j \in 1..Len(list), list[j].order # o
          PROVE  list[j].order \in OrdersOn(r)
      <4>1. PICK i \in 1..Len(r) : from(i) = j
        BY <1>2, <2>2, <3>3
      <4>2. r[i] = list[j]
        BY <2>1, <4>1
      <4>3. QED
        BY <4>2 DEF OrdersOn
    <3>4. OrdersOn(list) \ {o} \subseteq OrdersOn(r)
      BY <3>3 DEF OrdersOn
    <3>5. QED
      BY <2>3, <3>1, <3>2, <3>4
  <2>5. QED
    BY <2>3, <2>4
<1>3. QED
  BY <1>1, <1>2, RemoveOrderProperties

LEMMA FillTopOrders ==
  ASSUME NEW list \in Seq(Entries), list # <<>>, NEW q
  PROVE  /\ OrdersOn(FillTop(list, q)) \subseteq OrdersOn(list)
         /\ Distinct(list) =>
              /\ Distinct(FillTop(list, q))
              /\ OrdersOn(FillTop(list, q)) =
                   IF Head(list).qty = q THEN OrdersOn(list) \ {Head(list).order}
                   ELSE OrdersOn(list)
<1> SUFFICES ASSUME NEW r, r = FillTop(list, q)
             PROVE  /\ OrdersOn(r) \subseteq OrdersOn(list)
                    /\ Distinct(list) =>
                         /\ Distinct(r)
                         /\ OrdersOn(r) = IF Head(list).qty = q
                                          THEN OrdersOn(list) \ {Head(list).order}
                                          ELSE OrdersOn(list)
  OBVIOUS
<1>1. Len(list) \in Nat /\ Len(list) >= 1 /\ Head(list) = list[1] /\ list[1] \in Entries
  BY LenProperties, EmptySeq, ElementOfSeq
<1>2. CASE Head(list).qty = q
  <2>1. Len(r) = Len(list) - 1 /\ \A i \in 1..Len(list)-1 : r[i] = list[i+1]
    BY <1>2, PopEntries
  <2>2. Len(r) = Len(list) - 1 /\ \A i \in 1..Len(r) : r[i] = list[i+1] /\ i+1 \in 1..Len(list)
    BY <1>1, <2>1
  <2>3. \A j \in 1..Len(list) : j # 1 => j-1 \in 1..Len(r) /\ r[j-1] = list[j]
    <3> SUFFICES ASSUME NEW j \in 1..Len(list), j # 1
                 PROVE  j-1 \in 1..Len(r) /\ r[j-1] = list[j]
      OBVIOUS
    <3>1. j-1 \in 1..Len(r) /\ (j-1)+1 = j
      BY <1>1, <2>2
    <3>2. QED
      BY <2>2, <3>1
  <2>4. OrdersOn(r) \subseteq OrdersOn(list)
    BY <2>2 DEF OrdersOn
  <2>5. ASSUME Distinct(list)
        PROVE  Distinct(r) /\ OrdersOn(r) = OrdersOn(list) \ {Head(list).order}
    <3>1. Distinct(r)
      BY <1>1, <2>2, <2>5 DEF Distinct
    <3>2. \A i \in 1..Len(r) : r[i].order # list[1].order
      <4> SUFFICES ASSUME NEW i \in 1..Len(r), r[i].order = list[1].order PROVE FALSE
        OBVIOUS
      <4>1. i+1 = 1
        BY <1>1, <2>2, <2>5 DEF Distinct
      <4>2. QED
        BY <4>1
    <3>3. \A j \in 1..Len(list) : list[j].order # list[1].order => list[j].order \in OrdersOn(r)
      BY <2>3 DEF OrdersOn
    <3>4. QED
      BY <1>1, <2>4, <3>1, <3>2, <3>3 DEF OrdersOn
  <2>6. QED
    BY <1>2, <2>4, <2>5
<1>3. CASE Head(list).qty # q
  <2>1. Len(r) = Len(list) /\ \A i \in 1..Len(list) : r[i].order = list[i].order
    <3>1. /\ Len(r) = Len(list)
          /\ r[1] = [Head(list) EXCEPT !.qty = @ - q]
          /\ \A i \in 2..Len(list) : r[i] = list[i]
      BY <1>1, <1>3, ReduceEntries
    <3>2. r[1].order = list[1].order
      BY <1>1, <3>1 DEF Entries
    <3>3. \A i \in 1..Len(list) : i = 1 \/ i \in 2..Len(list)
      BY <1>1
    <3>4. QED
      BY <3>1, <3>2, <3>3
  <2>2. OrdersOn(r) = OrdersOn(list) /\ (Distinct(list) => Distinct(r))
    BY <2>1 DEF OrdersOn, Distinct
  <2>3. QED
    BY <1>3, <2>2
<1>4. QED
  BY <1>2, <1>3

\* What RestingQty finds, in terms of positions.
LEMMA RestingQtyAt ==
  ASSUME NEW list \in Seq(Entries), Distinct(list)
  PROVE  /\ \A i \in 1..Len(list) : RestingQty(list, list[i].order) = list[i].qty
         /\ \A x : x \notin OrdersOn(list) => RestingQty(list, x) = 0
         /\ \A x : RestingQty(list, x) \in Nat
<1>1. ASSUME NEW x, x \notin OrdersOn(list) PROVE RestingQty(list, x) = 0
  <2>1. { i \in 1..Len(list) : list[i].order = x } = {}
    BY <1>1 DEF OrdersOn
  <2>2. QED
    BY <2>1 DEF RestingQty, SelectInSeq
<1>2. ASSUME NEW i \in 1..Len(list) PROVE RestingQty(list, list[i].order) = list[i].qty
  <2> DEFINE I == { j \in 1..Len(list) : list[j].order = list[i].order }
  <2>1. I = {i} /\ I \in SUBSET Nat /\ i # 0
    BY DEF Distinct
  <2>2. Min(I) = i
    <3> HIDE DEF I
    <3> QED BY <2>1, NatMinimum
  <2>3. RestingQty(list, list[i].order) = list[Min(I)].qty
    BY <2>1, <2>2 DEF RestingQty, SelectInSeq
  <2>4. QED
    BY <2>2, <2>3
<1>3. ASSUME NEW x PROVE RestingQty(list, x) \in Nat
  <2>1. CASE x \in OrdersOn(list)
    <3>1. PICK i \in 1..Len(list) : x = list[i].order
      BY <2>1 DEF OrdersOn
    <3>2. list[i] \in Entries
      BY ElementOfSeq
    <3>3. QED
      BY <1>2, <3>1, <3>2 DEF Entries
  <2>2. QED
    BY <1>1, <2>1
<1>4. QED
  BY <1>1, <1>2, <1>3

LEMMA InsertQty ==
  ASSUME NEW side \in Sides, NEW list \in Seq(Entries), NEW e \in Entries,
         Sorted(side, list), Distinct(list), e.order \notin OrdersOn(list), NEW x
  PROVE  RestingQty(Insert(side, list, e), x) =
           IF x = e.order THEN e.qty ELSE RestingQty(list, x)
<1> SUFFICES ASSUME NEW r, r = Insert(side, list, e)
             PROVE  RestingQty(r, x) = IF x = e.order THEN e.qty ELSE RestingQty(list, x)
  OBVIOUS
<1>1. PICK n \in 0..Len(list) : InsertedAt(n, side, list, e, r)
  BY InsertProperties
<1>2. r \in Seq(Entries) /\ Distinct(r) /\ OrdersOn(r) = OrdersOn(list) \cup {e.order}
  BY InsertSorted, InsertOrders
<1>3. CASE x = e.order
  <2>1. n+1 \in 1..Len(r) /\ r[n+1] = e
    BY <1>1, LenProperties DEF InsertedAt
  <2>2. QED
    BY <1>2, <1>3, <2>1, RestingQtyAt
<1>4. CASE x # e.order /\ x \in OrdersOn(list)
  <2>1. PICK j \in 1..Len(list) : x = list[j].order
    BY <1>4 DEF OrdersOn
  <2>2. \E i \in 1..Len(r) : r[i] = list[j]
    <3>1. CASE j <= n
      BY <1>1, <3>1, LenProperties DEF InsertedAt
    <3>2. CASE j > n
      <4>1. j+1 \in 1..Len(r) /\ r[j+1] = list[j]
        <5>1. /\ j+1 \in 1..Len(list)+1 /\ ~(j+1 <= n) /\ j+1 # n+1 /\ (j+1)-1 = j
          BY <3>2, LenProperties
        <5>2. QED
          BY <1>1, <5>1 DEF InsertedAt
      <4>2. QED
        BY <4>1
    <3>3. QED
      BY <3>1, <3>2, LenProperties
  <2>3. RestingQty(r, x) = list[j].qty
    BY <1>2, <2>1, <2>2, RestingQtyAt
  <2>4. QED
    BY <1>4, <2>1, <2>3, RestingQtyAt
<1>5. CASE x # e.order /\ x \notin OrdersOn(list)
  BY <1>2, <1>5, RestingQtyAt
<1>6. QED
  BY <1>3, <1>4, <1>5

LEMMA RemoveQty ==
  ASSUME NEW list \in Seq(Entries), Distinct(list), NEW o, NEW x
  PROVE  RestingQty(RemoveOrder(list, o), x) =
           IF x = o THEN 0 ELSE RestingQty(list, x)
<1> SUFFICES ASSUME NEW r, r = RemoveOrder(list, o)
             PROVE  RestingQty(r, x) = IF x = o THEN 0 ELSE RestingQty(list, x)
  OBVIOUS
<1>1. r \in Seq(Entries) /\ Distinct(r) /\ OrdersOn(r) = OrdersOn(list) \ {o}
  BY RemoveOrderSorted, RemoveOrders
<1>2. CASE x = o \/ x \notin OrdersOn(list)
  BY <1>1, <1>2, RestingQtyAt
<1>3. CASE x # o /\ x \in OrdersOn(list)
  <2>1. PICK j \in 1..Len(list) : x = list[j].order
    BY <1>3 DEF OrdersOn
  <2>2. \E i \in 1..Len(r) : r[i] = list[j]
    <3>1. CASE r = list
      BY <3>1
    <3>2. ASSUME NEW k \in 1..Len(list), list[k].order = o,
                 Len(r) = Len(list) - 1,
                 \A i \in 1..Len(list)-1 : r[i] = IF i < k THEN list[i] ELSE list[i+1]
          PROVE  \E i \in 1..Len(r) : r[i] = list[j]
      <4>1. j # k
        BY <1>3, <2>1, <3>2
      <4>2. CASE j < k
        BY <3>2, <4>2, LenProperties
      <4>3. CASE j > k
        <5>1. j-1 \in 1..Len(list)-1 /\ ~(j-1 < k) /\ (j-1)+1 = j
          BY <4>3, LenProperties
        <5>2. QED
          BY <3>2, <5>1
      <4>4. QED
        BY <4>1, <4>2, <4>3
    <3>3. QED
      BY <3>1, <3>2, RemoveOrderProperties
  <2>3. RestingQty(r, x) = list[j].qty
    BY <1>1, <2>1, <2>2, RestingQtyAt
  <2>4. QED
    BY <1>3, <2>1, <2>3, RestingQtyAt
<1>4. QED
  BY <1>2, <1>3

LEMMA FillTopQty ==
  ASSUME NEW list \in Seq(Entries), list # <<>>, Distinct(list),
         NEW q \in Nat \ {0}, q <= Head(list).qty, NEW x
  PROVE  RestingQty(FillTop(list, q), x) =
           IF x = Head(list).order THEN Head(list).qty - q ELSE RestingQty(list, x)
<1> SUFFICES ASSUME NEW r, r = FillTop(list, q)
             PROVE  RestingQty(r, x) =
                      IF x = Head(list).order THEN Head(list).qty - q
                      ELSE RestingQty(list, x)
  OBVIOUS
<1>1. Len(list) \in Nat /\ Len(list) >= 1 /\ Head(list) = list[1] /\ list[1] \in Entries
  BY LenProperties, EmptySeq, ElementOfSeq
<1>2. /\ r \in Seq(Entries) /\ Distinct(r)
      /\ OrdersOn(r) = IF Head(list).qty = q THEN OrdersOn(list) \ {Head(list).order}
                       ELSE OrdersOn(list)
  BY FillTopProperties, FillTopOrders
<1>3. CASE x = Head(list).order /\ Head(list).qty = q
  <2>1. RestingQty(r, x) = 0
    BY <1>2, <1>3, RestingQtyAt
  <2>2. Head(list).qty - q = 0
    BY <1>1, <1>3 DEF Entries
  <2>3. QED
    BY <1>3, <2>1, <2>2
<1>4. CASE x = Head(list).order /\ Head(list).qty # q
  <2>1. r[1] = [Head(list) EXCEPT !.qty = @ - q] /\ 1 \in 1..Len(r)
    BY <1>1, <1>4, ReduceEntries
  <2>2. r[1].order = x /\ r[1].qty = Head(list).qty - q
    BY <1>1, <1>4, <2>1 DEF Entries
  <2>3. RestingQty(r, r[1].order) = r[1].qty
    BY <1>2, <2>1, RestingQtyAt
  <2>4. QED
    BY <1>4, <2>2, <2>3
<1>5. CASE x # Head(list).order /\ x \in OrdersOn(list)
  <2>1. PICK j \in 1..Len(list) : x = list[j].order
    BY <1>5 DEF OrdersOn
  <2>2. j \in 2..Len(list)
    BY <1>1, <1>5, <2>1
  <2>3. \E i \in 1..Len(r) : r[i] = list[j]
    <3>1. CASE Head(list).qty = q
      <4>1. j-1 \in 1..Len(list)-1 /\ (j-1)+1 = j
        BY <1>1, <2>2
      <4>2. Len(r) = Len(list)-1 /\ \A i \in 1..Len(list)-1 : r[i] = list[i+1]
        BY <3>1, PopEntries
      <4>3. QED
        BY <4>1, <4>2
    <3>2. CASE Head(list).qty # q
      <4>1. /\ Len(FillTop(list, q)) = Len(list)
            /\ \A i \in 2..Len(list) : FillTop(list, q)[i] = list[i]
        BY <3>2, ReduceEntries
      <4>2. QED
        BY <2>2, <4>1
    <3>3. QED
      BY <3>1, <3>2
  <2>4. RestingQty(r, x) = list[j].qty
    BY <1>2, <2>1, <2>3, RestingQtyAt
  <2>5. QED
    BY <1>5, <2>1, <2>4, RestingQtyAt
<1>6. CASE x # Head(list).order /\ x \notin OrdersOn(list)
  BY <1>2, <1>6, RestingQtyAt
<1>7. QED
  BY <1>3, <1>4, <1>5, <1>6


-----------------------------------------------------------------------------
(* The entries of a list as a set: what a set of offers needs to know. *)

EntriesOn(list) == { list[i] : i \in 1..Len(list) }

LEMMA InsertEntries ==
  ASSUME NEW side \in Sides, NEW list \in Seq(Entries), NEW e \in Entries,
         Sorted(side, list)
  PROVE  EntriesOn(Insert(side, list, e)) = EntriesOn(list) \cup {e}
<1> SUFFICES ASSUME NEW r, r = Insert(side, list, e)
             PROVE  EntriesOn(r) = EntriesOn(list) \cup {e}
  OBVIOUS
<1>1. PICK n \in 0..Len(list) : InsertedAt(n, side, list, e, r)
  BY InsertProperties
<1>2. /\ Len(r) = Len(list) + 1 /\ Len(list) \in Nat
      /\ \A i \in 1..Len(list)+1 :
           r[i] = IF i <= n THEN list[i] ELSE IF i = n+1 THEN e ELSE list[i-1]
  BY <1>1, LenProperties DEF InsertedAt
<1>3. \A i \in 1..Len(r) : r[i] = e \/ \E j \in 1..Len(list) : r[i] = list[j]
  <2> TAKE i \in 1..Len(r)
  <2>1. CASE i <= n
    BY <1>2, <2>1
  <2>2. CASE i = n+1
    BY <1>2, <2>2
  <2>3. CASE i > n+1
    <3>1. i-1 \in 1..Len(list) /\ r[i] = list[i-1]
      BY <1>2, <2>3
    <3> QED BY <3>1
  <2> QED BY <1>2, <2>1, <2>2, <2>3
<1>4. \A j \in 1..Len(list) : \E i \in 1..Len(r) : r[i] = list[j]
  <2> TAKE j \in 1..Len(list)
  <2>1. CASE j <= n
    BY <1>2, <2>1
  <2>2. CASE j > n
    <3>1. j+1 \in 1..Len(r) /\ ~(j+1 <= n) /\ j+1 # n+1 /\ (j+1)-1 = j
      BY <1>2, <2>2
    <3>2. r[j+1] = list[j]
      BY <1>2, <3>1
    <3> QED BY <3>1, <3>2
  <2> QED BY <1>2, <2>1, <2>2
<1>5. n+1 \in 1..Len(r) /\ r[n+1] = e
  BY <1>2
<1>6. \A x : x \in EntriesOn(r) => x \in EntriesOn(list) \cup {e}
  BY <1>3 DEF EntriesOn
<1>7. \A x : x \in EntriesOn(list) \cup {e} => x \in EntriesOn(r)
  BY <1>4, <1>5 DEF EntriesOn
<1> QED BY <1>6, <1>7

LEMMA RemoveEntries ==
  ASSUME NEW list \in Seq(Entries), Distinct(list), NEW o
  PROVE  EntriesOn(RemoveOrder(list, o)) = { e \in EntriesOn(list) : e.order # o }
<1> SUFFICES ASSUME NEW r, r = RemoveOrder(list, o)
             PROVE  EntriesOn(r) = { e \in EntriesOn(list) : e.order # o }
  OBVIOUS
<1>1. CASE ~Rests(list, o) /\ r = list
  BY <1>1, LenProperties DEF Rests, EntriesOn
<1>2. ASSUME NEW k \in 1..Len(list), list[k].order = o,
             r \in Seq(Entries), Len(r) = Len(list) - 1,
             \A i \in 1..Len(list)-1 : r[i] = IF i < k THEN list[i] ELSE list[i+1]
      PROVE  EntriesOn(r) = { e \in EntriesOn(list) : e.order # o }
  <2>1. \A j \in 1..Len(list) : list[j].order = o <=> j = k
    BY <1>2 DEF Distinct
  <2>2. \A i \in 1..Len(r) : \E j \in 1..Len(list) : j # k /\ r[i] = list[j]
    <3> TAKE i \in 1..Len(r)
    <3>1. CASE i < k
      BY <1>2, <3>1, LenProperties
    <3>2. CASE i >= k
      <4>1. i+1 \in 1..Len(list) /\ i+1 # k /\ r[i] = list[i+1]
        BY <1>2, <3>2, LenProperties
      <4> QED BY <4>1
    <3> QED BY <1>2, <3>1, <3>2, LenProperties
  <2>3. \A j \in 1..Len(list) : j # k => \E i \in 1..Len(r) : r[i] = list[j]
    <3> SUFFICES ASSUME NEW j \in 1..Len(list), j # k
                 PROVE  \E i \in 1..Len(r) : r[i] = list[j]
      OBVIOUS
    <3>1. CASE j < k
      BY <1>2, <3>1, LenProperties
    <3>2. CASE j > k
      <4>1. j-1 \in 1..Len(list)-1 /\ ~(j-1 < k) /\ (j-1)+1 = j
        BY <3>2, LenProperties
      <4>2. r[j-1] = list[j]
        BY <1>2, <4>1
      <4> QED BY <1>2, <4>1, <4>2
    <3> QED BY <3>1, <3>2, LenProperties
  <2>4. \A x : x \in EntriesOn(r) => x \in EntriesOn(list) /\ x.order # o
    BY <2>1, <2>2 DEF EntriesOn
  <2>5. \A x : x \in EntriesOn(list) /\ x.order # o => x \in EntriesOn(r)
    BY <2>1, <2>3 DEF EntriesOn
  <2> QED BY <2>4, <2>5
<1> QED BY <1>1, <1>2, RemoveOrderProperties

LEMMA FillTopEntries ==
  ASSUME NEW list \in Seq(Entries), list # <<>>, Distinct(list), NEW q
  PROVE  EntriesOn(FillTop(list, q)) =
           (EntriesOn(list) \ {Head(list)}) \cup
             IF Head(list).qty = q THEN {} ELSE { [Head(list) EXCEPT !.qty = @ - q] }
<1> SUFFICES ASSUME NEW r, r = FillTop(list, q)
             PROVE  EntriesOn(r) =
                      (EntriesOn(list) \ {Head(list)}) \cup
                        IF Head(list).qty = q THEN {}
                        ELSE { [Head(list) EXCEPT !.qty = @ - q] }
  OBVIOUS
<1>1. Len(list) \in Nat /\ Len(list) >= 1 /\ Head(list) = list[1]
  BY LenProperties, EmptySeq
<1>2. \A j \in 2..Len(list) : list[j] # Head(list)
  <2> SUFFICES ASSUME NEW j \in 2..Len(list), list[j] = list[1] PROVE FALSE
    BY <1>1
  <2>1. j \in 1..Len(list) /\ 1 \in 1..Len(list)
    BY <1>1
  <2>2. j = 1
    BY <2>1 DEF Distinct
  <2> QED BY <2>2
<1>3. EntriesOn(list) \ {Head(list)} = { list[j] : j \in 2..Len(list) }
  <2>1. \A j \in 1..Len(list) : j = 1 \/ j \in 2..Len(list)
    BY <1>1
  <2>2. \A j \in 2..Len(list) : j \in 1..Len(list)
    BY <1>1
  <2> QED BY <1>1, <1>2, <2>1, <2>2 DEF EntriesOn
<1>4. CASE Head(list).qty = q
  <2>1. Len(r) = Len(list)-1 /\ \A i \in 1..Len(list)-1 : r[i] = list[i+1]
    BY <1>4, PopEntries
  <2>2. \A i \in 1..Len(r) : i+1 \in 2..Len(list) /\ r[i] = list[i+1]
    BY <1>1, <2>1
  <2>3. \A j \in 2..Len(list) : j-1 \in 1..Len(r) /\ r[j-1] = list[j]
    <3> TAKE j \in 2..Len(list)
    <3>1. j-1 \in 1..Len(list)-1 /\ (j-1)+1 = j
      BY <1>1
    <3> QED BY <2>1, <3>1
  <2>4. EntriesOn(r) = { list[j] : j \in 2..Len(list) }
    <3>1. \A x \in EntriesOn(r) : x \in { list[j] : j \in 2..Len(list) }
      BY <2>2 DEF EntriesOn
    <3>2. \A x \in { list[j] : j \in 2..Len(list) } : x \in EntriesOn(r)
      BY <2>3 DEF EntriesOn
    <3> QED BY <3>1, <3>2
  <2> QED BY <1>3, <1>4, <2>4
<1>5. CASE Head(list).qty # q
  <2> DEFINE top == [Head(list) EXCEPT !.qty = @ - q]
  <2>1. /\ Len(r) = Len(list) /\ r[1] = top
        /\ \A i \in 2..Len(list) : r[i] = list[i]
    BY <1>5, ReduceEntries
  <2> HIDE DEF top
  <2>2. \A i \in 1..Len(r) : i = 1 \/ i \in 2..Len(list)
    BY <1>1, <2>1
  <2>3. 1 \in 1..Len(r) /\ \A j \in 2..Len(list) : j \in 1..Len(r)
    BY <1>1, <2>1
  <2>4. EntriesOn(r) = { list[j] : j \in 2..Len(list) } \cup {top}
    BY <2>1, <2>2, <2>3 DEF EntriesOn
  <2> QED BY <1>3, <1>5, <2>4 DEF top
<1> QED BY <1>4, <1>5

\* The head of a sorted list is one nobody on the list outranks.
LEMMA HeadIsBest ==
  ASSUME NEW side, NEW list \in Seq(Entries), list # <<>>, Sorted(side, list)
  PROVE  /\ Head(list) \in EntriesOn(list) /\ Head(list) \in Entries
         /\ \A e \in EntriesOn(list) : e \in Entries /\ ~Outranks(side, e, Head(list))
<1>1. /\ Len(list) \in Nat /\ Len(list) >= 1 /\ Head(list) = list[1]
      /\ \A i \in 1..Len(list) : list[i] \in Entries
  BY LenProperties, EmptySeq, ElementOfSeq
<1>2. ASSUME NEW i \in 1..Len(list) PROVE ~Outranks(side, list[i], list[1])
  <2>1. CASE i = 1
    BY <1>1, <2>1, OutranksAsymmetric
  <2>2. CASE i # 1
    BY <1>1, <2>2 DEF Sorted
  <2> QED
    BY <2>1, <2>2
<1> QED
  BY <1>1, <1>2 DEF EntriesOn

-----------------------------------------------------------------------------
(* The invariant of the engine *)

\* Only the book a submission is matching may be crossed.
OnlyCurrentCrossed ==
  \A s \in Symbols :
    Crossable(bids[s], asks[s]) => submission # NoSubmission /\ submission.symbol = s

\* An order id is on a book at most once.
BooksDistinct ==
  \A s \in Symbols :
    /\ Distinct(bids[s]) /\ Distinct(asks[s])
    /\ OrdersOn(bids[s]) \cap OrdersOn(asks[s]) = {}

\* What rests or has traded was submitted.
BooksSeen ==
  \A s \in Symbols : OrdersOn(bids[s]) \subseteq seen /\ OrdersOn(asks[s]) \subseteq seen

TradesSeen ==
  \A i \in 1..Len(trades) : trades[i].buy \in seen /\ trades[i].sell \in seen

\* What the engine keeps whatever books it starts from.
EngineOK ==
  /\ METypeOK
  /\ BooksSorted
  /\ BooksSeen
  /\ TradesSeen

\* The inductive invariant of an engine that starts with empty books (those that
\* cold start rebuilds may be crossed).  BooksUncrossed alone is not inductive:
\* it says nothing while the loop runs, and a cancel keeps a book uncrossed only
\* because the entries behind the head have no better price.
EngineInv ==
  /\ EngineOK
  /\ OnlyCurrentCrossed
  /\ BooksDistinct

LEMMA EngineInvImplies ==
  EngineInv => METypeOK /\ BooksSorted /\ BooksUncrossed
BY DEF EngineInv, EngineOK, OnlyCurrentCrossed, BooksUncrossed

\* At the start every book is empty.
LEMMA EngineInit == MEInit => EngineInv
<1> SUFFICES ASSUME MEInit PROVE EngineInv
  OBVIOUS
<1>1. METypeOK
  BY DEF MEInit, METypeOK
<1>2. BooksSorted
  BY DEF MEInit, BooksSorted, Sorted
<1>3. OnlyCurrentCrossed
  BY DEF MEInit, OnlyCurrentCrossed, Crossable
<1>4. BooksDistinct /\ BooksSeen /\ TradesSeen
  BY DEF MEInit, BooksDistinct, BooksSeen, TradesSeen, Distinct, OrdersOn
<1>5. QED
  BY <1>1, <1>2, <1>3, <1>4 DEF EngineInv, EngineOK

\* submit_order up to the loop.
LEMMA SubmitOrderOK ==
  ASSUME EngineOK,
         NEW o \in OrderIds, NEW s \in Symbols, NEW side \in Sides,
         NEW price \in Nat, NEW qty \in Nat \ {0}, NEW time \in Nat,
         SubmitOrder(o, s, side, price, qty, time)
  PROVE  EngineOK'
<1> DEFINE e == BookEntry(o, price, qty, time)
<1>1. METypeOK /\ BooksSorted
  BY DEF EngineOK
<1>2. e \in Entries /\ e.order = o
  BY DEF BookEntry, Entries
<1> HIDE DEF e
<1>3. /\ bids \in [Symbols -> Seq(Entries)] /\ asks \in [Symbols -> Seq(Entries)]
      /\ Sorted("BUY", bids[s]) /\ Sorted("SELL", asks[s])
  BY <1>1 DEF METypeOK, BooksSorted
<1>4. /\ Insert("BUY", bids[s], e) \in Seq(Entries)
      /\ Sorted("BUY", Insert("BUY", bids[s], e))
      /\ Insert("SELL", asks[s], e) \in Seq(Entries)
      /\ Sorted("SELL", Insert("SELL", asks[s], e))
  BY <1>2, <1>3, InsertSorted DEF Sides
<1>5. \/ bids' = [bids EXCEPT ![s] = Insert("BUY", @, e)] /\ asks' = asks
      \/ asks' = [asks EXCEPT ![s] = Insert("SELL", @, e)] /\ bids' = bids
  BY DEF SubmitOrder, PutOnBook, e
<1>6. /\ bids' \in [Symbols -> Seq(Entries)] /\ asks' \in [Symbols -> Seq(Entries)]
      /\ Sorted("BUY", bids'[s]) /\ Sorted("SELL", asks'[s])
      /\ \A t \in Symbols \ {s} : bids'[t] = bids[t] /\ asks'[t] = asks[t]
  BY <1>3, <1>4, <1>5
<1>7. /\ submission' = [order |-> o, symbol |-> s]
      /\ seen' = seen \cup {o} /\ trades' = trades
  BY DEF SubmitOrder
<1>8. METypeOK'
  BY <1>1, <1>6, <1>7 DEF METypeOK
<1>9. BooksSorted'
  BY <1>1, <1>6 DEF BooksSorted
<1>10. BooksSeen'
  <2>1. /\ OrdersOn(Insert("BUY", bids[s], e)) = OrdersOn(bids[s]) \cup {o}
        /\ OrdersOn(Insert("SELL", asks[s], e)) = OrdersOn(asks[s]) \cup {o}
    BY <1>2, <1>3, InsertOrders DEF Sides
  <2>2. OrdersOn(bids'[s]) \subseteq seen' /\ OrdersOn(asks'[s]) \subseteq seen'
    BY <1>3, <1>5, <1>7, <2>1 DEF EngineOK, BooksSeen
  <2>3. QED
    BY <1>6, <1>7, <2>2 DEF EngineOK, BooksSeen
<1>11. TradesSeen'
  BY <1>7 DEF EngineOK, TradesSeen
<1>12. QED
  BY <1>8, <1>9, <1>10, <1>11 DEF EngineOK

LEMMA SubmitOrderInv ==
  ASSUME EngineInv,
         NEW o \in OrderIds, NEW s \in Symbols, NEW side \in Sides,
         NEW price \in Nat, NEW qty \in Nat \ {0}, NEW time \in Nat,
         SubmitOrder(o, s, side, price, qty, time)
  PROVE  EngineInv'
<1> DEFINE e == BookEntry(o, price, qty, time)
<1>1. EngineOK'
  BY SubmitOrderOK DEF EngineInv
<1>2. e \in Entries /\ e.order = o
  BY DEF BookEntry, Entries
<1> HIDE DEF e
<1>3. /\ bids \in [Symbols -> Seq(Entries)] /\ asks \in [Symbols -> Seq(Entries)]
      /\ Sorted("BUY", bids[s]) /\ Sorted("SELL", asks[s])
  BY DEF EngineInv, EngineOK, METypeOK, BooksSorted
<1>4. \/ bids' = [bids EXCEPT ![s] = Insert("BUY", @, e)] /\ asks' = asks
      \/ asks' = [asks EXCEPT ![s] = Insert("SELL", @, e)] /\ bids' = bids
  BY DEF SubmitOrder, PutOnBook, e
<1>5. \A t \in Symbols \ {s} : bids'[t] = bids[t] /\ asks'[t] = asks[t]
  BY <1>3, <1>4
<1>6. /\ submission = NoSubmission /\ submission' = [order |-> o, symbol |-> s]
      /\ o \notin seen
  BY DEF SubmitOrder, MEIdle
<1>7. OnlyCurrentCrossed'
  <2>1. submission' # NoSubmission /\ submission'.symbol = s
    BY <1>6, CommonAssumption
  <2>2. \A t \in Symbols \ {s} : ~Crossable(bids'[t], asks'[t])
    BY <1>5, <1>6 DEF EngineInv, OnlyCurrentCrossed
  <2>3. QED
    BY <2>1, <2>2 DEF OnlyCurrentCrossed
<1>8. BooksDistinct'
  <2>1. /\ Distinct(bids[s]) /\ Distinct(asks[s])
        /\ OrdersOn(bids[s]) \cap OrdersOn(asks[s]) = {}
        /\ o \notin OrdersOn(bids[s]) /\ o \notin OrdersOn(asks[s])
    BY <1>6 DEF EngineInv, EngineOK, BooksDistinct, BooksSeen
  <2>2. /\ OrdersOn(Insert("BUY", bids[s], e)) = OrdersOn(bids[s]) \cup {o}
        /\ OrdersOn(Insert("SELL", asks[s], e)) = OrdersOn(asks[s]) \cup {o}
        /\ Distinct(Insert("BUY", bids[s], e)) /\ Distinct(Insert("SELL", asks[s], e))
    BY <1>2, <1>3, <2>1, InsertOrders DEF Sides
  <2>3. /\ Distinct(bids'[s]) /\ Distinct(asks'[s])
        /\ OrdersOn(bids'[s]) \cap OrdersOn(asks'[s]) = {}
    BY <1>3, <1>4, <2>1, <2>2
  <2>4. QED
    BY <1>5, <2>3 DEF EngineInv, BooksDistinct
<1>9. QED
  BY <1>1, <1>7, <1>8 DEF EngineInv

\* The bid and the ask at the top make a trade.
LEMMA TopTradeType ==
  ASSUME METypeOK, NEW s \in Symbols, Crossable(bids[s], asks[s])
  PROVE  /\ TopTrade(s) \in TradeRecords
         /\ bids[s] # <<>> /\ asks[s] # <<>>
         /\ TopTrade(s).qty \in Nat \ {0}
         /\ TopTrade(s).qty <= Head(bids[s]).qty
         /\ TopTrade(s).qty <= Head(asks[s]).qty
<1> DEFINE bid == Head(bids[s])
           ask == Head(asks[s])
<1>1. /\ bids[s] # <<>> /\ asks[s] # <<>>
      /\ bid \in Entries /\ ask \in Entries
  BY HeadTailProperties DEF METypeOK, Crossable
<1>2. /\ bid.order \in OrderIds /\ ask.order \in OrderIds
      /\ bid.price \in Nat /\ ask.price \in Nat
      /\ bid.qty \in Nat \ {0} /\ ask.qty \in Nat \ {0}
  BY <1>1 DEF Entries
<1> DEFINE q == IF bid.qty <= ask.qty THEN bid.qty ELSE ask.qty
           m == IF bid.time <= ask.time THEN "BUY" ELSE "SELL"
           p == IF m = "BUY" THEN bid.price ELSE ask.price
<1>3. /\ q \in Nat \ {0} /\ q <= bid.qty /\ q <= ask.qty
      /\ bid.qty - q \in Nat /\ ask.qty - q \in Nat
      /\ m \in Sides /\ p \in Nat
  BY <1>2 DEF Sides
<1>4. TopTrade(s) = [symbol |-> s, buy |-> bid.order, sell |-> ask.order,
                     price |-> p, qty |-> q, maker |-> m,
                     buyLeft |-> bid.qty - q, sellLeft |-> ask.qty - q]
  BY DEF TopTrade
<1> HIDE DEF bid, ask, q, m, p
<1>5. QED
  BY <1>1, <1>2, <1>3, <1>4 DEF TradeRecords, bid, ask

\* The book that a loop step works on, and what the step does to it.
LEMMA MatchEffect ==
  ASSUME EngineOK, Match, NEW s, s = submission.symbol, NEW q, q = TopTrade(s).qty
  PROVE  /\ s \in Symbols /\ submission # NoSubmission
         /\ Crossable(bids[s], asks[s])
         /\ TopTrade(s) \in TradeRecords
         /\ trades' = Append(trades, TopTrade(s))
         /\ seen' = seen /\ submission' = submission
         /\ bids \in [Symbols -> Seq(Entries)] /\ asks \in [Symbols -> Seq(Entries)]
         /\ bids[s] # <<>> /\ asks[s] # <<>>
         /\ Sorted("BUY", bids[s]) /\ Sorted("SELL", asks[s])
         /\ q \in Nat \ {0} /\ q <= Head(bids[s]).qty /\ q <= Head(asks[s]).qty
         /\ bids' = [bids EXCEPT ![s] = FillTop(@, q)]
         /\ asks' = [asks EXCEPT ![s] = FillTop(@, q)]
         /\ bids'[s] = FillTop(bids[s], q) /\ asks'[s] = FillTop(asks[s], q)
         /\ \A t \in Symbols \ {s} : bids'[t] = bids[t] /\ asks'[t] = asks[t]
<1>1. s \in Symbols /\ submission # NoSubmission
  BY DEF EngineOK, METypeOK, Match
<1>2. /\ Crossable(bids[s], asks[s])
      /\ trades' = Append(trades, TopTrade(s))
      /\ bids' = [bids EXCEPT ![s] = FillTop(@, q)]
      /\ asks' = [asks EXCEPT ![s] = FillTop(@, q)]
      /\ seen' = seen /\ submission' = submission
  BY DEF Match
<1>3. /\ TopTrade(s) \in TradeRecords
      /\ bids[s] # <<>> /\ asks[s] # <<>>
      /\ q \in Nat \ {0} /\ q <= Head(bids[s]).qty /\ q <= Head(asks[s]).qty
  BY <1>1, <1>2, TopTradeType DEF EngineOK
<1>4. /\ bids \in [Symbols -> Seq(Entries)] /\ asks \in [Symbols -> Seq(Entries)]
      /\ Sorted("BUY", bids[s]) /\ Sorted("SELL", asks[s])
  BY <1>1 DEF EngineOK, METypeOK, BooksSorted
<1>5. /\ bids'[s] = FillTop(bids[s], q) /\ asks'[s] = FillTop(asks[s], q)
      /\ \A t \in Symbols \ {s} : bids'[t] = bids[t] /\ asks'[t] = asks[t]
  BY <1>1, <1>2, <1>4
<1>6. QED
  BY <1>1, <1>2, <1>3, <1>4, <1>5

\* One iteration of the loop.
LEMMA MatchOK == ASSUME EngineOK, Match PROVE EngineOK'
<1> DEFINE s == submission.symbol
           q == TopTrade(s).qty
<1>1. METypeOK /\ BooksSorted
  BY DEF EngineOK
<1>2. /\ s \in Symbols
      /\ TopTrade(s) \in TradeRecords
      /\ trades' = Append(trades, TopTrade(s))
      /\ seen' = seen /\ submission' = submission
      /\ bids \in [Symbols -> Seq(Entries)] /\ asks \in [Symbols -> Seq(Entries)]
      /\ bids[s] # <<>> /\ asks[s] # <<>>
      /\ Sorted("BUY", bids[s]) /\ Sorted("SELL", asks[s])
      /\ q \in Nat \ {0} /\ q <= Head(bids[s]).qty /\ q <= Head(asks[s]).qty
      /\ bids' = [bids EXCEPT ![s] = FillTop(@, q)]
      /\ asks' = [asks EXCEPT ![s] = FillTop(@, q)]
      /\ bids'[s] = FillTop(bids[s], q) /\ asks'[s] = FillTop(asks[s], q)
      /\ \A t \in Symbols \ {s} : bids'[t] = bids[t] /\ asks'[t] = asks[t]
  BY MatchEffect
<1>3. TopTrade(s).buy = Head(bids[s]).order /\ TopTrade(s).sell = Head(asks[s]).order
  BY DEF TopTrade
<1> HIDE DEF s, q
<1>4. /\ FillTop(bids[s], q) \in Seq(Entries) /\ Sorted("BUY", FillTop(bids[s], q))
      /\ FillTop(asks[s], q) \in Seq(Entries) /\ Sorted("SELL", FillTop(asks[s], q))
  BY <1>2, FillTopProperties
<1>5. METypeOK'
  <2>1. trades' \in Seq(TradeRecords)
    BY <1>1, <1>2, AppendProperties DEF METypeOK
  <2>2. bids' \in [Symbols -> Seq(Entries)] /\ asks' \in [Symbols -> Seq(Entries)]
    BY <1>2, <1>4
  <2>3. QED
    BY <1>1, <1>2, <2>1, <2>2 DEF METypeOK
<1>6. BooksSorted'
  BY <1>1, <1>2, <1>4 DEF BooksSorted
<1>7. BooksSeen'
  <2>1. /\ OrdersOn(FillTop(bids[s], q)) \subseteq OrdersOn(bids[s])
        /\ OrdersOn(FillTop(asks[s], q)) \subseteq OrdersOn(asks[s])
    BY <1>2, FillTopOrders
  <2>2. QED
    BY <1>2, <2>1 DEF EngineOK, BooksSeen
<1>8. TradesSeen'
  <2>1. TopTrade(s).buy \in seen /\ TopTrade(s).sell \in seen
    <3>1. /\ bids[s][1].order \in OrdersOn(bids[s]) /\ asks[s][1].order \in OrdersOn(asks[s])
          /\ Head(bids[s]) = bids[s][1] /\ Head(asks[s]) = asks[s][1]
      BY <1>2, LenProperties, EmptySeq DEF OrdersOn
    <3>2. QED
      BY <1>2, <1>3, <3>1 DEF EngineOK, BooksSeen
  <2>2. trades \in Seq(TradeRecords)
    BY <1>1 DEF METypeOK
  <2>3. /\ Len(trades') = Len(trades) + 1
        /\ \A i \in 1..Len(trades') :
             (trades'[i] = trades[i] /\ i \in 1..Len(trades)) \/ trades'[i] = TopTrade(s)
    BY <1>2, <2>2, AppendProperties
  <2>4. QED
    BY <1>2, <2>1, <2>3 DEF EngineOK, TradesSeen
<1>9. QED
  BY <1>5, <1>6, <1>7, <1>8 DEF EngineOK

LEMMA MatchInv == ASSUME EngineInv, Match PROVE EngineInv'
<1> DEFINE s == submission.symbol
           q == TopTrade(s).qty
<1>1. /\ s \in Symbols /\ submission # NoSubmission /\ submission' = submission
      /\ bids \in [Symbols -> Seq(Entries)] /\ asks \in [Symbols -> Seq(Entries)]
      /\ bids[s] # <<>> /\ asks[s] # <<>>
      /\ bids'[s] = FillTop(bids[s], q) /\ asks'[s] = FillTop(asks[s], q)
      /\ \A t \in Symbols \ {s} : bids'[t] = bids[t] /\ asks'[t] = asks[t]
  BY MatchEffect DEF EngineInv
<1>2. EngineOK'
  BY MatchOK DEF EngineInv
<1> HIDE DEF q
<1>3. OnlyCurrentCrossed'
  BY <1>1 DEF EngineInv, OnlyCurrentCrossed
<1> HIDE DEF s
<1>4. BooksDistinct'
  <2>1. /\ Distinct(bids[s]) /\ Distinct(asks[s])
        /\ OrdersOn(bids[s]) \cap OrdersOn(asks[s]) = {}
    BY <1>1 DEF EngineInv, BooksDistinct
  <2>2. /\ Distinct(FillTop(bids[s], q)) /\ Distinct(FillTop(asks[s], q))
        /\ OrdersOn(FillTop(bids[s], q)) \subseteq OrdersOn(bids[s])
        /\ OrdersOn(FillTop(asks[s], q)) \subseteq OrdersOn(asks[s])
    BY <1>1, <2>1, FillTopOrders
  <2>3. /\ Distinct(bids'[s]) /\ Distinct(asks'[s])
        /\ OrdersOn(bids'[s]) \cap OrdersOn(asks'[s]) = {}
    BY <1>1, <2>1, <2>2
  <2>4. QED
    BY <1>1, <2>3 DEF EngineInv, BooksDistinct
<1>5. QED
  BY <1>2, <1>3, <1>4 DEF EngineInv

\* The loop ends when the book it works on is no longer crossed.
LEMMA EndMatchOK == ASSUME EngineOK, EndMatch PROVE EngineOK'
BY DEF EngineOK, EndMatch, METypeOK, BooksSorted, BooksSeen, TradesSeen

LEMMA EndMatchInv == ASSUME EngineInv, EndMatch PROVE EngineInv'
<1>1. EngineOK'
  BY EndMatchOK DEF EngineInv
<1>2. \A s \in Symbols : ~Crossable(bids[s], asks[s])
  BY DEF EngineInv, EndMatch, OnlyCurrentCrossed
<1>3. OnlyCurrentCrossed' /\ BooksDistinct'
  BY <1>2 DEF EngineInv, EndMatch, OnlyCurrentCrossed, BooksDistinct
<1>4. QED
  BY <1>1, <1>3 DEF EngineInv

\* Handing trades over, or forgetting them, leaves the books alone.
LEMMA TradesHandedOver ==
  ASSUME UNCHANGED <<bids, asks, seen, submission>>,
         trades' \in Seq(TradeRecords),
         \A i \in 1..Len(trades') : \E j \in 1..Len(trades) : trades'[i] = trades[j]
  PROVE  (EngineOK => EngineOK') /\ (EngineInv => EngineInv')
<1>1. ASSUME EngineOK PROVE EngineOK'
  BY <1>1 DEF EngineOK, METypeOK, BooksSorted, BooksSeen, TradesSeen
<1>2. ASSUME EngineInv PROVE EngineInv'
  BY <1>1, <1>2 DEF EngineInv, OnlyCurrentCrossed, BooksDistinct
<1>3. QED
  BY <1>1, <1>2

LEMMA NextTradeOK ==
  ASSUME EngineOK, NextTrade
  PROVE  EngineOK' /\ (EngineInv => EngineInv')
<1>1. /\ trades \in Seq(TradeRecords) /\ trades # <<>> /\ trades' = Tail(trades)
      /\ UNCHANGED <<bids, asks, seen, submission>>
  BY DEF EngineOK, METypeOK, NextTrade
<1>2. /\ trades' \in Seq(TradeRecords)
      /\ \A i \in 1..Len(trades') : i+1 \in 1..Len(trades) /\ trades'[i] = trades[i+1]
  BY <1>1, HeadTailProperties, LenProperties
<1>3. QED
  BY <1>1, <1>2, TradesHandedOver

LEMMA NextTradeInv == ASSUME EngineInv, NextTrade PROVE EngineInv'
BY NextTradeOK DEF EngineInv

LEMMA EngineUnchanged ==
  ASSUME UNCHANGED meVars
  PROVE  (EngineOK => EngineOK') /\ (EngineInv => EngineInv')
BY DEF meVars, EngineInv, EngineOK, METypeOK, BooksSorted, OnlyCurrentCrossed,
       BooksDistinct, BooksSeen, TradesSeen

-----------------------------------------------------------------------------
\* Taking an order off one side of an uncrossed book leaves it uncrossed.
LEMMA RemoveKeepsUncrossed ==
  ASSUME NEW buys \in Seq(Entries), NEW sells \in Seq(Entries),
         Sorted("BUY", buys), Sorted("SELL", sells),
         ~Crossable(buys, sells), NEW o
  PROVE  /\ ~Crossable(RemoveOrder(buys, o), sells)
         /\ ~Crossable(buys, RemoveOrder(sells, o))
<1>1. ASSUME NEW list \in Seq(Entries), RemoveOrder(list, o) # <<>>
      PROVE  /\ list # <<>>
             /\ \E i \in 1..Len(list) : Head(RemoveOrder(list, o)) = list[i]
  <2>1. CASE RemoveOrder(list, o) = list
    BY <1>1, <2>1, LenProperties, EmptySeq
  <2>2. ASSUME NEW k \in 1..Len(list),
               RemoveOrder(list, o) \in Seq(Entries),
               Len(RemoveOrder(list, o)) = Len(list) - 1,
               \A i \in 1..Len(list)-1 :
                 RemoveOrder(list, o)[i] = IF i < k THEN list[i] ELSE list[i+1]
        PROVE  /\ list # <<>>
               /\ \E i \in 1..Len(list) : Head(RemoveOrder(list, o)) = list[i]
    <3>1. Len(list) - 1 >= 1 /\ Len(list) \in Nat
      BY <1>1, <2>2, LenProperties, EmptySeq
    <3>2. Head(RemoveOrder(list, o)) = RemoveOrder(list, o)[1]
      BY <1>1, <2>2
    <3>3. Head(RemoveOrder(list, o)) = IF 1 < k THEN list[1] ELSE list[2]
      BY <2>2, <3>1, <3>2
    <3>4. QED
      BY <3>1, <3>3, EmptySeq
  <2>3. QED
    BY <1>1, <2>1, <2>2, RemoveOrderProperties
<1>2. ASSUME NEW list \in Seq(Entries), NEW side, Sorted(side, list),
             NEW i \in 1..Len(list)
      PROVE  /\ list[i] \in Entries /\ Head(list) \in Entries
             /\ list[i].price \in Nat /\ Head(list).price \in Nat
             /\ ~Outranks(side, list[i], Head(list))
  <2>1. Head(list) = list[1] /\ 1 \in 1..Len(list) /\ Len(list) \in Nat
    BY LenProperties, EmptySeq
  <2>2. list[i] \in Entries /\ list[1] \in Entries
    BY <2>1, ElementOfSeq
  <2>3. ~Outranks(side, list[1], list[1])
    BY <2>2, OutranksAsymmetric
  <2>4. ~Outranks(side, list[i], list[1])
    BY <1>2, <2>1, <2>3 DEF Sorted
  <2>5. QED
    BY <2>1, <2>2, <2>4 DEF Entries
<1>3. ASSUME Crossable(RemoveOrder(buys, o), sells) PROVE FALSE
  <2>1. /\ buys # <<>> /\ sells # <<>>
        /\ Head(RemoveOrder(buys, o)).price >= Head(sells).price
    BY <1>1, <1>3 DEF Crossable
  <2>2. PICK i \in 1..Len(buys) : Head(RemoveOrder(buys, o)) = buys[i]
    BY <1>1, <1>3 DEF Crossable
  <2>3. buys[i].price <= Head(buys).price
    BY <1>2 DEF Outranks
  <2>4. Head(sells).price \in Nat /\ Head(buys).price \in Nat /\ buys[i].price \in Nat
    <3>1. Head(sells) \in Entries /\ Head(buys) \in Entries
      BY <2>1, HeadTailProperties
    <3>2. buys[i] \in Entries
      BY <2>2, ElementOfSeq
    <3>3. QED
      BY <3>1, <3>2 DEF Entries
  <2>5. QED
    BY <2>1, <2>2, <2>3, <2>4 DEF Crossable
<1>4. ASSUME Crossable(buys, RemoveOrder(sells, o)) PROVE FALSE
  <2>1. /\ buys # <<>> /\ sells # <<>>
        /\ Head(buys).price >= Head(RemoveOrder(sells, o)).price
    BY <1>1, <1>4 DEF Crossable
  <2>2. PICK i \in 1..Len(sells) : Head(RemoveOrder(sells, o)) = sells[i]
    BY <1>1, <1>4 DEF Crossable
  <2>3. sells[i].price >= Head(sells).price
    BY <1>2 DEF Outranks
  <2>4. Head(buys).price \in Nat /\ Head(sells).price \in Nat /\ sells[i].price \in Nat
    <3>1. Head(buys) \in Entries /\ Head(sells) \in Entries
      BY <2>1, HeadTailProperties
    <3>2. sells[i] \in Entries
      BY <2>2, ElementOfSeq
    <3>3. QED
      BY <3>1, <3>2 DEF Entries
  <2>5. QED
    BY <2>1, <2>2, <2>3, <2>4 DEF Crossable
<1>5. QED
  BY <1>3, <1>4

\* cancel_order.
LEMMA CancelInBookOK ==
  ASSUME EngineOK, NEW s \in Symbols, NEW o, CancelInBook(s, o)
  PROVE  EngineOK'
<1>1. METypeOK /\ BooksSorted
  BY DEF EngineOK
<1>2. /\ bids \in [Symbols -> Seq(Entries)] /\ asks \in [Symbols -> Seq(Entries)]
      /\ Sorted("BUY", bids[s]) /\ Sorted("SELL", asks[s])
  BY <1>1 DEF METypeOK, BooksSorted
<1>3. /\ RemoveOrder(bids[s], o) \in Seq(Entries) /\ Sorted("BUY", RemoveOrder(bids[s], o))
      /\ RemoveOrder(asks[s], o) \in Seq(Entries) /\ Sorted("SELL", RemoveOrder(asks[s], o))
  BY <1>2, RemoveOrderSorted
<1>4. \/ bids' = [bids EXCEPT ![s] = RemoveOrder(@, o)] /\ asks' = asks
      \/ asks' = [asks EXCEPT ![s] = RemoveOrder(@, o)] /\ bids' = bids
  BY DEF CancelInBook, TakeOffBook
<1>5. /\ bids' \in [Symbols -> Seq(Entries)] /\ asks' \in [Symbols -> Seq(Entries)]
      /\ Sorted("BUY", bids'[s]) /\ Sorted("SELL", asks'[s])
      /\ \A t \in Symbols \ {s} : bids'[t] = bids[t] /\ asks'[t] = asks[t]
  BY <1>2, <1>3, <1>4
<1>6. METypeOK' /\ BooksSorted' /\ TradesSeen'
  BY <1>1, <1>5 DEF EngineOK, CancelInBook, METypeOK, BooksSorted, TradesSeen
<1>7. BooksSeen'
  <2>1. /\ OrdersOn(RemoveOrder(bids[s], o)) \subseteq OrdersOn(bids[s])
        /\ OrdersOn(RemoveOrder(asks[s], o)) \subseteq OrdersOn(asks[s])
    BY <1>2, RemoveOrders
  <2>2. /\ OrdersOn(bids'[s]) \subseteq OrdersOn(bids[s])
        /\ OrdersOn(asks'[s]) \subseteq OrdersOn(asks[s]) /\ seen' = seen
    BY <1>2, <1>4, <2>1 DEF CancelInBook
  <2>3. QED
    BY <1>5, <2>2 DEF EngineOK, BooksSeen
<1>8. QED
  BY <1>6, <1>7 DEF EngineOK

LEMMA CancelInBookInv ==
  ASSUME EngineInv, NEW s \in Symbols, NEW o, CancelInBook(s, o)
  PROVE  EngineInv'
<1>1. EngineOK' /\ \A t \in Symbols : ~Crossable(bids[t], asks[t])
  BY CancelInBookOK DEF EngineInv, OnlyCurrentCrossed, CancelInBook, MEIdle
<1>2. /\ bids \in [Symbols -> Seq(Entries)] /\ asks \in [Symbols -> Seq(Entries)]
      /\ Sorted("BUY", bids[s]) /\ Sorted("SELL", asks[s])
  BY DEF EngineInv, EngineOK, METypeOK, BooksSorted
<1>3. /\ RemoveOrder(bids[s], o) \in Seq(Entries)
      /\ RemoveOrder(asks[s], o) \in Seq(Entries)
  BY <1>2, RemoveOrderSorted
<1>4. /\ ~Crossable(RemoveOrder(bids[s], o), asks[s])
      /\ ~Crossable(bids[s], RemoveOrder(asks[s], o))
  BY <1>1, <1>2, RemoveKeepsUncrossed
<1>5. \/ bids' = [bids EXCEPT ![s] = RemoveOrder(@, o)] /\ asks' = asks
      \/ asks' = [asks EXCEPT ![s] = RemoveOrder(@, o)] /\ bids' = bids
  BY DEF CancelInBook, TakeOffBook
<1>6. /\ ~Crossable(bids'[s], asks'[s])
      /\ \A t \in Symbols \ {s} : bids'[t] = bids[t] /\ asks'[t] = asks[t]
  BY <1>2, <1>3, <1>4, <1>5
<1>7. OnlyCurrentCrossed'
  BY <1>1, <1>6 DEF OnlyCurrentCrossed
<1>8. BooksDistinct'
  <2>1. /\ Distinct(bids[s]) /\ Distinct(asks[s])
        /\ OrdersOn(bids[s]) \cap OrdersOn(asks[s]) = {}
    BY DEF EngineInv, BooksDistinct
  <2>2. /\ Distinct(RemoveOrder(bids[s], o)) /\ Distinct(RemoveOrder(asks[s], o))
        /\ OrdersOn(RemoveOrder(bids[s], o)) \subseteq OrdersOn(bids[s])
        /\ OrdersOn(RemoveOrder(asks[s], o)) \subseteq OrdersOn(asks[s])
    BY <1>2, <2>1, RemoveOrders
  <2>3. /\ Distinct(bids'[s]) /\ Distinct(asks'[s])
        /\ OrdersOn(bids'[s]) \cap OrdersOn(asks'[s]) = {}
    BY <1>2, <1>5, <2>1, <2>2
  <2>4. QED
    BY <1>6, <2>3 DEF EngineInv, BooksDistinct
<1>9. QED
  BY <1>1, <1>7, <1>8 DEF EngineInv

-----------------------------------------------------------------------------
(* What the engine still holds of an order: what rests on the book, before *)
(* any trade the caller has not yet handled.  buyLeft and sellLeft of one  *)
(* trade are what the next trade of the same order starts from.            *)

PartiesOf(t) == {t.buy, t.sell}

LeftOf(t, o) == IF t.buy = o THEN t.buyLeft ELSE t.sellLeft

HeldAt(t, o) == LeftOf(t, o) + t.qty

Pending(ts, o) == { i \in 1..Len(ts) : o \in PartiesOf(ts[i]) }

\* r is what rests on the book for o, ts the trades that are pending.
Held(ts, o, r) ==
  IF Pending(ts, o) = {} THEN r ELSE HeldAt(ts[Min(Pending(ts, o))], o)

Chained(ts, o, r) ==
  /\ \A i \in Pending(ts, o) : r <= LeftOf(ts[i], o)
  /\ \A i \in Pending(ts, o) :
       (\A j \in Pending(ts, o) : j <= i) => LeftOf(ts[i], o) = r
  /\ \A i, j \in Pending(ts, o) :
       i < j /\ (\A k \in Pending(ts, o) : k <= i \/ k >= j)
         => HeldAt(ts[j], o) = LeftOf(ts[i], o)

LEMMA FirstPending ==
  ASSUME NEW ts, NEW o, NEW r, Pending(ts, o) # {}
  PROVE  \E i \in Pending(ts, o) :
           /\ \A j \in Pending(ts, o) : i <= j
           /\ Held(ts, o, r) = HeldAt(ts[i], o)
<1>1. Pending(ts, o) \in SUBSET Nat
  BY DEF Pending
<1>2. /\ Min(Pending(ts, o)) \in Pending(ts, o)
      /\ \A j \in Pending(ts, o) : Min(Pending(ts, o)) <= j
  BY <1>1, NatMinimum
<1> QED
  BY <1>2 DEF Held

\* There is one first pending trade: what holds of it determines Held.
LEMMA HeldByFirst ==
  ASSUME NEW ts, NEW o, NEW r, NEW i \in Pending(ts, o),
         \A j \in Pending(ts, o) : i <= j
  PROVE  Held(ts, o, r) = HeldAt(ts[i], o)
<1>1. PICK k \in Pending(ts, o) : /\ \A j \in Pending(ts, o) : k <= j
                                  /\ Held(ts, o, r) = HeldAt(ts[k], o)
  BY FirstPending
<1>2. i \in Nat /\ k \in Nat /\ i <= k /\ k <= i
  BY <1>1 DEF Pending
<1>3. i = k
  BY <1>2
<1> QED
  BY <1>1, <1>3

\* An order is held at least for what rests, and for the trade at the head.
LEMMA HeldCovers ==
  ASSUME NEW ts \in Seq(TradeRecords), NEW o, NEW r \in Nat, Chained(ts, o, r)
  PROVE  /\ Held(ts, o, r) \in Nat /\ r <= Held(ts, o, r)
         /\ ts # <<>> /\ o \in PartiesOf(Head(ts)) =>
              r <= Held(ts, o, r) - Head(ts).qty
<1>1. \A i \in 1..Len(ts) :
        LeftOf(ts[i], o) \in Nat /\ ts[i].qty \in Nat \ {0}
  <2> TAKE i \in 1..Len(ts)
  <2>1. ts[i] \in TradeRecords
    BY ElementOfSeq
  <2> QED
    BY <2>1 DEF TradeRecords, LeftOf
<1>2. CASE Pending(ts, o) = {}
  <2>1. ts # <<>> => 1 \in 1..Len(ts) /\ Head(ts) = ts[1]
    BY LenProperties, EmptySeq
  <2> QED
    BY <1>2, <2>1 DEF Held, Pending
<1>3. CASE Pending(ts, o) # {}
  <2>1. PICK i \in Pending(ts, o) : Held(ts, o, r) = HeldAt(ts[i], o)
    BY <1>3, FirstPending
  <2>2. i \in 1..Len(ts) /\ r <= LeftOf(ts[i], o)
    BY <2>1 DEF Pending, Chained
  <2>3. Held(ts, o, r) = LeftOf(ts[i], o) + ts[i].qty
    BY <2>1 DEF HeldAt
  <2>4. Held(ts, o, r) \in Nat /\ r <= Held(ts, o, r)
    BY <1>1, <2>2, <2>3
  <2>5. ASSUME ts # <<>>, o \in PartiesOf(Head(ts))
        PROVE  r <= Held(ts, o, r) - Head(ts).qty
    <3>1. 1 \in Pending(ts, o) /\ Head(ts) = ts[1] /\ 1 \in 1..Len(ts)
      BY <2>5, LenProperties, EmptySeq DEF Pending
    <3>2. \A j \in Pending(ts, o) : 1 <= j
      BY DEF Pending
    <3>3. Held(ts, o, r) = LeftOf(ts[1], o) + ts[1].qty
      BY <3>1, <3>2, HeldByFirst DEF HeldAt
    <3>4. r <= LeftOf(ts[1], o)
      BY <3>1 DEF Chained
    <3> QED
      BY <1>1, <3>1, <3>3, <3>4
  <2> QED
    BY <2>4, <2>5
<1> QED
  BY <1>2, <1>3

\* A trade is appended that starts from what rested.
LEMMA TradeAppended ==
  ASSUME NEW ts \in Seq(TradeRecords), NEW t \in TradeRecords, NEW o, NEW r \in Nat,
         Chained(ts, o, r)
  PROVE  /\ o \notin PartiesOf(t) =>
              /\ Chained(Append(ts, t), o, r)
              /\ Held(Append(ts, t), o, r) = Held(ts, o, r)
         /\ o \in PartiesOf(t) /\ HeldAt(t, o) = r =>
              /\ Chained(Append(ts, t), o, LeftOf(t, o))
              /\ Held(Append(ts, t), o, LeftOf(t, o)) = Held(ts, o, r)
<1> SUFFICES ASSUME NEW more, more = Append(ts, t), NEW n \in Nat, n = Len(ts)
             PROVE  /\ o \notin PartiesOf(t) =>
                         Chained(more, o, r) /\ Held(more, o, r) = Held(ts, o, r)
                    /\ o \in PartiesOf(t) /\ HeldAt(t, o) = r =>
                         /\ Chained(more, o, LeftOf(t, o))
                         /\ Held(more, o, LeftOf(t, o)) = Held(ts, o, r)
  BY LenProperties
<1>1. /\ Len(more) = n+1 /\ more[n+1] = t
      /\ \A i \in 1..n : more[i] = ts[i]
  BY AppendProperties
<1>2. Pending(ts, o) \subseteq 1..n /\ \A i \in Pending(ts, o) : more[i] = ts[i]
  BY <1>1 DEF Pending
<1>3. LeftOf(t, o) \in Nat /\ t.qty \in Nat \ {0}
  BY DEF TradeRecords, LeftOf
<1>4. ASSUME o \notin PartiesOf(t)
      PROVE  Chained(more, o, r) /\ Held(more, o, r) = Held(ts, o, r)
  <2>1. Pending(more, o) = Pending(ts, o)
    <3>1. \A i \in 1..n+1 : i = n+1 \/ i \in 1..n
      OBVIOUS
    <3> QED
      BY <1>1, <1>4, <3>1 DEF Pending
  <2>2. Chained(more, o, r)
    BY <1>2, <2>1 DEF Chained
  <2>3. CASE Pending(ts, o) = {}
    BY <2>1, <2>2, <2>3 DEF Held
  <2>4. CASE Pending(ts, o) # {}
    <3>1. PICK i \in Pending(ts, o) : /\ \A j \in Pending(ts, o) : i <= j
                                      /\ Held(ts, o, r) = HeldAt(ts[i], o)
      BY <2>4, FirstPending
    <3>2. Held(more, o, r) = HeldAt(more[i], o)
      BY <2>1, <3>1, HeldByFirst
    <3> QED
      BY <1>2, <2>2, <3>1, <3>2
  <2> QED
    BY <2>3, <2>4
<1>5. ASSUME o \in PartiesOf(t), HeldAt(t, o) = r
      PROVE  /\ Chained(more, o, LeftOf(t, o))
             /\ Held(more, o, LeftOf(t, o)) = Held(ts, o, r)
  <2>1. Pending(more, o) = Pending(ts, o) \cup {n+1}
    <3>1. \A i \in 1..n+1 : i = n+1 \/ i \in 1..n
      OBVIOUS
    <3>2. n+1 \in 1..n+1 /\ \A i \in 1..n : i \in 1..n+1
      OBVIOUS
    <3>3. \A i \in Pending(more, o) : i \in Pending(ts, o) \cup {n+1}
      BY <1>1, <3>1 DEF Pending
    <3>4. \A i \in Pending(ts, o) \cup {n+1} : i \in Pending(more, o)
      BY <1>1, <1>5, <3>2 DEF Pending
    <3> QED
      BY <3>3, <3>4
  <2>2. LeftOf(t, o) <= r /\ r = LeftOf(t, o) + t.qty
    BY <1>3, <1>5 DEF HeldAt
  <2>3. \A i \in Pending(ts, o) : i \in Nat /\ i < n+1
    BY <1>2
  <2>4. \A i \in Pending(more, o) : LeftOf(t, o) <= LeftOf(more[i], o)
    <3>1. ASSUME NEW i \in Pending(ts, o) PROVE LeftOf(t, o) <= LeftOf(more[i], o)
      <4>1. r <= LeftOf(ts[i], o) /\ more[i] = ts[i] /\ ts[i] \in TradeRecords
        BY <1>2, ElementOfSeq DEF Chained
      <4>2. LeftOf(ts[i], o) \in Nat
        BY <4>1 DEF LeftOf, TradeRecords
      <4> QED
        BY <1>3, <2>2, <4>1, <4>2
    <3>2. LeftOf(t, o) <= LeftOf(more[n+1], o)
      BY <1>1, <1>3
    <3> QED
      BY <2>1, <3>1, <3>2
  <2>5. \A i \in Pending(more, o) :
          (\A j \in Pending(more, o) : j <= i) => LeftOf(more[i], o) = LeftOf(t, o)
    <3> SUFFICES ASSUME NEW i \in Pending(more, o), n+1 <= i
                 PROVE  LeftOf(more[i], o) = LeftOf(t, o)
      BY <2>1
    <3>1. i = n+1
      BY <2>1, <2>3
    <3> QED
      BY <1>1, <3>1
  <2>6. \A i, j \in Pending(more, o) :
          i < j /\ (\A k \in Pending(more, o) : k <= i \/ k >= j)
            => HeldAt(more[j], o) = LeftOf(more[i], o)
    <3> SUFFICES ASSUME NEW i \in Pending(more, o), NEW j \in Pending(more, o), i < j,
                        \A k \in Pending(more, o) : k <= i \/ k >= j
                 PROVE  HeldAt(more[j], o) = LeftOf(more[i], o)
      OBVIOUS
    <3>1. i \in Pending(ts, o) /\ more[i] = ts[i]
      <4>1. j <= n+1 /\ j \in Nat /\ i # n+1
        BY <2>1, <2>3
      <4> QED
        BY <1>2, <2>1, <4>1
    <3>2. CASE j \in Pending(ts, o)
      <4>1. HeldAt(ts[j], o) = LeftOf(ts[i], o)
        BY <2>1, <3>1, <3>2 DEF Chained
      <4> QED
        BY <1>2, <3>1, <3>2, <4>1
    <3>3. CASE j = n+1
      <4>1. \A k \in Pending(ts, o) : k <= i
        BY <2>1, <2>3, <3>3
      <4>2. LeftOf(ts[i], o) = r
        BY <3>1, <4>1 DEF Chained
      <4> QED
        BY <1>1, <1>5, <3>1, <3>3, <4>2
    <3> QED
      BY <2>1, <3>2, <3>3
  <2>7. Chained(more, o, LeftOf(t, o))
    <3> SUFFICES ASSUME NEW x, x = LeftOf(t, o)
                 PROVE  Chained(more, o, x)
      OBVIOUS
    <3>1. \A i \in Pending(more, o) : x <= LeftOf(more[i], o)
      BY <2>4
    <3>2. \A i \in Pending(more, o) :
            (\A j \in Pending(more, o) : j <= i) => LeftOf(more[i], o) = x
      BY <2>5
    <3> QED
      BY <2>6, <3>1, <3>2 DEF Chained
  <2>8. CASE Pending(ts, o) = {}
    <3>1. Held(more, o, LeftOf(t, o)) = HeldAt(more[n+1], o)
      <4>1. /\ n+1 \in Pending(more, o) /\ n+1 \in Nat
            /\ \A j \in Pending(more, o) : j = n+1
        BY <2>1, <2>8
      <4>2. PICK i \in Pending(more, o) :
              Held(more, o, LeftOf(t, o)) = HeldAt(more[i], o)
        BY <4>1, FirstPending
      <4> QED
        BY <4>1, <4>2
    <3> QED
      BY <1>1, <1>5, <2>7, <2>8, <3>1 DEF Held
  <2>9. CASE Pending(ts, o) # {}
    <3>1. PICK i \in Pending(ts, o) : /\ \A j \in Pending(ts, o) : i <= j
                                      /\ Held(ts, o, r) = HeldAt(ts[i], o)
      BY <2>9, FirstPending
    <3>2. \A j \in Pending(more, o) : i <= j
      BY <2>1, <2>3, <3>1
    <3>3. Held(more, o, LeftOf(t, o)) = HeldAt(more[i], o)
      BY <2>1, <3>1, <3>2, HeldByFirst
    <3> QED
      BY <1>2, <2>7, <3>1, <3>3
  <2> QED
    BY <2>8, <2>9
<1> QED
  BY <1>4, <1>5

\* The trade at the head is handled: the order is held for that much less.
LEMMA TradeHandled ==
  ASSUME NEW ts \in Seq(TradeRecords), ts # <<>>, NEW o, NEW r \in Nat,
         Chained(ts, o, r)
  PROVE  /\ Chained(Tail(ts), o, r)
         /\ Held(Tail(ts), o, r) =
              IF o \in PartiesOf(Head(ts)) THEN Held(ts, o, r) - Head(ts).qty
              ELSE Held(ts, o, r)
<1> SUFFICES ASSUME NEW rest, rest = Tail(ts), NEW n \in Nat, n = Len(ts)
             PROVE  /\ Chained(rest, o, r)
                    /\ Held(rest, o, r) =
                         IF o \in PartiesOf(Head(ts)) THEN Held(ts, o, r) - Head(ts).qty
                         ELSE Held(ts, o, r)
  BY LenProperties
<1>1. /\ n >= 1 /\ Len(rest) = n-1 /\ Head(ts) = ts[1]
      /\ \A i \in 1..n-1 : rest[i] = ts[i+1]
  BY HeadTailProperties, LenProperties, EmptySeq
<1>2. \A i \in Pending(rest, o) : /\ i \in Nat /\ i >= 1
                                  /\ i+1 \in Pending(ts, o) /\ rest[i] = ts[i+1]
  BY <1>1 DEF Pending
<1>3. \A j \in Pending(ts, o) : j \in Nat /\ (j = 1 \/ (j >= 2 /\ j-1 \in Pending(rest, o)))
  <2> TAKE j \in Pending(ts, o)
  <2>1. j \in 1..n
    BY DEF Pending
  <2>2. CASE j # 1
    <3>1. j-1 \in 1..n-1 /\ (j-1)+1 = j /\ j >= 2
      BY <2>1, <2>2
    <3>2. rest[j-1] = ts[j]
      BY <1>1, <3>1
    <3> QED
      BY <1>1, <2>1, <3>1, <3>2 DEF Pending
  <2> QED
    BY <2>1, <2>2
<1>4. 1 \in Pending(ts, o) <=> o \in PartiesOf(Head(ts))
  BY <1>1 DEF Pending
<1>5. \A i \in Pending(rest, o) : r <= LeftOf(rest[i], o)
  BY <1>2 DEF Chained
<1>6. \A i \in Pending(rest, o) :
        (\A j \in Pending(rest, o) : j <= i) => LeftOf(rest[i], o) = r
  <2> SUFFICES ASSUME NEW i \in Pending(rest, o), \A j \in Pending(rest, o) : j <= i
               PROVE  LeftOf(rest[i], o) = r
    OBVIOUS
  <2>1. \A j \in Pending(ts, o) : j <= i+1
    BY <1>2, <1>3
  <2> QED
    BY <1>2, <2>1 DEF Chained
<1>7. \A i, j \in Pending(rest, o) :
        i < j /\ (\A k \in Pending(rest, o) : k <= i \/ k >= j)
          => HeldAt(rest[j], o) = LeftOf(rest[i], o)
  <2> SUFFICES ASSUME NEW i \in Pending(rest, o), NEW j \in Pending(rest, o), i < j,
                      \A k \in Pending(rest, o) : k <= i \/ k >= j
               PROVE  HeldAt(rest[j], o) = LeftOf(rest[i], o)
    OBVIOUS
  <2>1. i \in Nat /\ i >= 1 /\ j \in Nat /\ i+1 < j+1
    BY <1>2
  <2>2. \A k \in Pending(ts, o) : k <= i+1 \/ k >= j+1
    <3> TAKE k \in Pending(ts, o)
    <3>1. CASE k = 1
      BY <2>1, <3>1
    <3>2. CASE k >= 2 /\ k-1 \in Pending(rest, o)
      <4>1. k \in Nat /\ (k-1 <= i \/ k-1 >= j)
        BY <1>3, <3>2
      <4> QED
        BY <2>1, <4>1
    <3> QED
      BY <1>3, <3>1, <3>2
  <2>3. HeldAt(ts[j+1], o) = LeftOf(ts[i+1], o)
    <3>1. i+1 \in Pending(ts, o) /\ j+1 \in Pending(ts, o)
      BY <1>2
    <3> SUFFICES ASSUME NEW x \in Pending(ts, o), NEW y \in Pending(ts, o), x < y,
                        \A k \in Pending(ts, o) : k <= x \/ k >= y
                 PROVE  HeldAt(ts[y], o) = LeftOf(ts[x], o)
      BY <2>1, <2>2, <3>1
    <3> QED
      BY DEF Chained
  <2> QED
    BY <1>2, <2>3
<1>8. Chained(rest, o, r)
  BY <1>5, <1>6, <1>7 DEF Chained
<1>9. CASE 1 \notin Pending(ts, o)
  <2>1. CASE Pending(ts, o) = {}
    <3>1. Pending(rest, o) = {}
      BY <1>2, <2>1
    <3> QED
      BY <1>4, <1>8, <1>9, <2>1, <3>1 DEF Held
  <2>2. CASE Pending(ts, o) # {}
    <3>1. PICK i \in Pending(ts, o) : /\ \A j \in Pending(ts, o) : i <= j
                                      /\ Held(ts, o, r) = HeldAt(ts[i], o)
      BY <2>2, FirstPending
    <3>2. i \in Nat /\ i-1 \in Pending(rest, o) /\ (i-1)+1 = i
      BY <1>3, <1>9, <3>1
    <3>3. \A j \in Pending(rest, o) : i-1 <= j
      BY <1>2, <3>1, <3>2
    <3>4. Held(rest, o, r) = HeldAt(rest[i-1], o)
      BY <3>2, <3>3, HeldByFirst
    <3>5. rest[i-1] = ts[i]
      BY <1>2, <3>2
    <3> QED
      BY <1>4, <1>8, <1>9, <3>1, <3>4, <3>5
  <2> QED
    BY <2>1, <2>2
<1>10. CASE 1 \in Pending(ts, o)
  <2>1. \A j \in Pending(ts, o) : 1 <= j
    BY <1>3
  <2>2. Held(ts, o, r) = LeftOf(ts[1], o) + ts[1].qty
    BY <1>10, <2>1, HeldByFirst DEF HeldAt
  <2>3. LeftOf(ts[1], o) \in Nat /\ ts[1].qty \in Nat
    <3>1. ts[1] \in TradeRecords
      BY <1>1, ElementOfSeq
    <3> QED
      BY <3>1 DEF TradeRecords, LeftOf
  <2>4. Held(rest, o, r) = LeftOf(ts[1], o)
    <3>1. CASE Pending(rest, o) = {}
      <4>1. \A j \in Pending(ts, o) : j <= 1
        BY <1>3, <3>1
      <4>2. LeftOf(ts[1], o) = r
        BY <1>10, <4>1 DEF Chained
      <4> QED
        BY <3>1, <4>2 DEF Held
    <3>2. CASE Pending(rest, o) # {}
      <4>1. PICK i \in Pending(rest, o) : /\ \A j \in Pending(rest, o) : i <= j
                                          /\ Held(rest, o, r) = HeldAt(rest[i], o)
        BY <3>2, FirstPending
      <4>2. i+1 \in Pending(ts, o) /\ 1 < i+1 /\ rest[i] = ts[i+1]
        <5>1. i \in Nat /\ i >= 1 /\ i+1 \in Pending(ts, o) /\ rest[i] = ts[i+1]
          BY <1>2, <4>1
        <5> HIDE <1>2
        <5>2. 1 < i+1
          BY <5>1
        <5> QED
          BY <5>1, <5>2
      <4>3. \A k \in Pending(ts, o) : k <= 1 \/ k >= i+1
        BY <1>2, <1>3, <4>1
      <4>4. HeldAt(ts[i+1], o) = LeftOf(ts[1], o)
        BY <1>10, <4>2, <4>3 DEF Chained
      <4> QED
        BY <4>1, <4>2, <4>4
    <3> QED
      BY <3>1, <3>2
  <2> QED
    BY <1>1, <1>4, <1>8, <1>10, <2>2, <2>3, <2>4
<1> QED
  BY <1>9, <1>10

-----------------------------------------------------------------------------
(* What rests for an order on either side, action by action. *)

\* One list of each side of one book, as the invariant has it.
LEMMA BookLists ==
  ASSUME EngineInv, NEW s \in Symbols
  PROVE  /\ bids[s] \in Seq(Entries) /\ asks[s] \in Seq(Entries)
         /\ Sorted("BUY", bids[s]) /\ Sorted("SELL", asks[s])
         /\ Distinct(bids[s]) /\ Distinct(asks[s])
         /\ OrdersOn(bids[s]) \subseteq seen /\ OrdersOn(asks[s]) \subseteq seen
BY DEF EngineInv, EngineOK, METypeOK, BooksSorted, BooksDistinct, BooksSeen

LEMMA SubmitRests ==
  ASSUME EngineInv, NEW o \in OrderIds, NEW s \in Symbols, NEW side \in Sides,
         NEW price \in Nat, NEW qty \in Nat \ {0}, NEW time \in Nat,
         SubmitOrder(o, s, side, price, qty, time), NEW z \in Symbols, NEW x
  PROVE  /\ RestingQty(bids'[z], x) = IF side = "BUY" /\ z = s /\ x = o THEN qty
                                      ELSE RestingQty(bids[z], x)
         /\ RestingQty(asks'[z], x) = IF side = "SELL" /\ z = s /\ x = o THEN qty
                                      ELSE RestingQty(asks[z], x)
<1> SUFFICES ASSUME NEW e, e = BookEntry(o, price, qty, time)
             PROVE  /\ RestingQty(bids'[z], x) = IF side = "BUY" /\ z = s /\ x = o THEN qty
                                                 ELSE RestingQty(bids[z], x)
                    /\ RestingQty(asks'[z], x) = IF side = "SELL" /\ z = s /\ x = o THEN qty
                                                 ELSE RestingQty(asks[z], x)
  OBVIOUS
<1>1. e \in Entries /\ e.order = o /\ e.qty = qty /\ o \notin seen
  BY DEF BookEntry, Entries, SubmitOrder
<1>2. bids \in [Symbols -> Seq(Entries)] /\ asks \in [Symbols -> Seq(Entries)]
  BY DEF EngineInv, EngineOK, METypeOK
<1>3. CASE side = "BUY"
  <2>1. bids'[z] = (IF z = s THEN Insert("BUY", bids[s], e) ELSE bids[z]) /\ asks' = asks
    BY <1>2, <1>3 DEF SubmitOrder, PutOnBook
  <2>2. RestingQty(Insert("BUY", bids[s], e), x) =
          IF x = o THEN qty ELSE RestingQty(bids[s], x)
    BY <1>1, BookLists, InsertQty DEF Sides
  <2> QED
    BY <1>3, <2>1, <2>2
<1>4. CASE side = "SELL"
  <2>1. asks'[z] = (IF z = s THEN Insert("SELL", asks[s], e) ELSE asks[z]) /\ bids' = bids
    BY <1>2, <1>4 DEF SubmitOrder, PutOnBook
  <2>2. RestingQty(Insert("SELL", asks[s], e), x) =
          IF x = o THEN qty ELSE RestingQty(asks[s], x)
    BY <1>1, BookLists, InsertQty DEF Sides
  <2> QED
    BY <1>4, <2>1, <2>2
<1> QED
  BY <1>3, <1>4 DEF Sides

\* A new entry stands for the order submitted.
LEMMA SubmitEntries ==
  ASSUME EngineInv, NEW o \in OrderIds, NEW s \in Symbols, NEW side \in Sides,
         NEW price \in Nat, NEW qty \in Nat \ {0}, NEW time \in Nat,
         SubmitOrder(o, s, side, price, qty, time), NEW z \in Symbols
  PROVE  /\ \A e \in EntriesOn(bids'[z]) :
              \/ e \in EntriesOn(bids[z])
              \/ side = "BUY" /\ z = s /\ e.order = o /\ e.price = price /\ e.time = time
         /\ \A e \in EntriesOn(asks'[z]) :
              \/ e \in EntriesOn(asks[z])
              \/ side = "SELL" /\ z = s /\ e.order = o /\ e.price = price /\ e.time = time
<1>1. PICK e : e = BookEntry(o, price, qty, time)
  OBVIOUS
<1>2. e \in Entries /\ e.order = o /\ e.price = price /\ e.time = time
  BY <1>1 DEF BookEntry, Entries
<1>3. bids \in [Symbols -> Seq(Entries)] /\ asks \in [Symbols -> Seq(Entries)]
  BY DEF EngineInv, EngineOK, METypeOK
<1>4. CASE side = "BUY"
  <2>1. bids'[z] = (IF z = s THEN Insert("BUY", bids[s], e) ELSE bids[z]) /\ asks' = asks
    BY <1>1, <1>3, <1>4 DEF SubmitOrder, PutOnBook
  <2>2. EntriesOn(Insert("BUY", bids[s], e)) = EntriesOn(bids[s]) \cup {e}
    BY <1>2, BookLists, InsertEntries DEF Sides
  <2> QED
    BY <1>2, <1>4, <2>1, <2>2
<1>5. CASE side = "SELL"
  <2>1. asks'[z] = (IF z = s THEN Insert("SELL", asks[s], e) ELSE asks[z]) /\ bids' = bids
    BY <1>1, <1>3, <1>5 DEF SubmitOrder, PutOnBook
  <2>2. EntriesOn(Insert("SELL", asks[s], e)) = EntriesOn(asks[s]) \cup {e}
    BY <1>2, BookLists, InsertEntries DEF Sides
  <2> QED
    BY <1>2, <1>5, <2>1, <2>2
<1> QED
  BY <1>4, <1>5 DEF Sides

\* An order leaves the side it is on, and nothing else changes.
LEMMA CancelRests ==
  ASSUME EngineInv, NEW s \in Symbols, NEW o, CancelInBook(s, o),
         NEW z \in Symbols, NEW x
  PROVE  /\ RestingQty(bids'[z], x) = IF z = s /\ x = o THEN 0 ELSE RestingQty(bids[z], x)
         /\ RestingQty(asks'[z], x) = IF z = s /\ x = o THEN 0 ELSE RestingQty(asks[z], x)
         /\ EntriesOn(bids'[z]) \subseteq EntriesOn(bids[z])
         /\ EntriesOn(asks'[z]) \subseteq EntriesOn(asks[z])
<1>1. bids \in [Symbols -> Seq(Entries)] /\ asks \in [Symbols -> Seq(Entries)]
  BY DEF EngineInv, EngineOK, METypeOK
<1>2. /\ RestingQty(RemoveOrder(bids[s], o), x) = IF x = o THEN 0 ELSE RestingQty(bids[s], x)
      /\ RestingQty(RemoveOrder(asks[s], o), x) = IF x = o THEN 0 ELSE RestingQty(asks[s], x)
  BY BookLists, RemoveQty
<1>3. /\ EntriesOn(RemoveOrder(bids[s], o)) = { e \in EntriesOn(bids[s]) : e.order # o }
      /\ EntriesOn(RemoveOrder(asks[s], o)) = { e \in EntriesOn(asks[s]) : e.order # o }
  BY BookLists, RemoveEntries
<1>4. OrdersOn(bids[s]) \cap OrdersOn(asks[s]) = {}
  BY DEF EngineInv, EngineOK, BooksDistinct, BooksSeen
<1>5. /\ o \notin OrdersOn(bids[s]) => RestingQty(bids[s], o) = 0
      /\ o \notin OrdersOn(asks[s]) => RestingQty(asks[s], o) = 0
  BY BookLists, RestingQtyAt
<1>6. Rests(bids[s], o) <=> o \in OrdersOn(bids[s])
  BY BookLists, LenProperties DEF Rests, OrdersOn
<1>7. CASE Rests(bids[s], o)
  <2>1. bids'[z] = (IF z = s THEN RemoveOrder(bids[s], o) ELSE bids[z]) /\ asks' = asks
    BY <1>1, <1>7 DEF CancelInBook, TakeOffBook
  <2>2. RestingQty(asks[s], o) = 0
    BY <1>4, <1>5, <1>6, <1>7
  <2> QED
    BY <1>2, <1>3, <2>1, <2>2
<1>8. CASE ~Rests(bids[s], o)
  <2>1. asks'[z] = (IF z = s THEN RemoveOrder(asks[s], o) ELSE asks[z]) /\ bids' = bids
    BY <1>1, <1>8 DEF CancelInBook, TakeOffBook
  <2>2. RestingQty(bids[s], o) = 0
    BY <1>5, <1>6, <1>8
  <2> QED
    BY <1>2, <1>3, <2>1, <2>2
<1> QED
  BY <1>7, <1>8

\* What a fill leaves of an entry keeps order, price and time.
LEMMA FillTopKeeps ==
  ASSUME NEW list \in Seq(Entries), list # <<>>, Distinct(list), NEW q,
         NEW e \in EntriesOn(FillTop(list, q))
  PROVE  \E f \in EntriesOn(list) :
           e.order = f.order /\ e.price = f.price /\ e.time = f.time
<1>1. \/ e \in EntriesOn(list)
      \/ e = [Head(list) EXCEPT !.qty = @ - q]
  BY FillTopEntries
<1>2. Head(list) \in Entries /\ Head(list) \in EntriesOn(list)
  BY HeadTailProperties, LenProperties, EmptySeq DEF EntriesOn
<1>3. ASSUME NEW f, f = Head(list), e = [f EXCEPT !.qty = @ - q]
      PROVE  e.order = f.order /\ e.price = f.price /\ e.time = f.time
  BY <1>2, <1>3 DEF Entries
<1> QED
  BY <1>1, <1>2, <1>3

\* One iteration of the loop: the two best entries are reduced by the trade.
LEMMA MatchRests ==
  ASSUME EngineInv, Match, NEW t, t = TopTrade(submission.symbol)
  PROVE  /\ t \in TradeRecords /\ t.symbol = submission.symbol
         /\ t.symbol \in Symbols
         /\ bids[t.symbol] # <<>> /\ asks[t.symbol] # <<>>
         /\ t.buy = Head(bids[t.symbol]).order /\ t.sell = Head(asks[t.symbol]).order
         /\ t.price <= Head(bids[t.symbol]).price
         /\ RestingQty(bids[t.symbol], t.buy) = t.buyLeft + t.qty
         /\ RestingQty(asks[t.symbol], t.sell) = t.sellLeft + t.qty
         /\ \A z \in Symbols : \A x :
              /\ RestingQty(bids'[z], x) = IF z = t.symbol /\ x = t.buy THEN t.buyLeft
                                           ELSE RestingQty(bids[z], x)
              /\ RestingQty(asks'[z], x) = IF z = t.symbol /\ x = t.sell THEN t.sellLeft
                                           ELSE RestingQty(asks[z], x)
<1>1. t.symbol = submission.symbol
  BY DEF TopTrade
<1>2. PICK s : s = t.symbol
  OBVIOUS
<1>3. PICK bid : bid = Head(bids[s])
  OBVIOUS
<1>4. PICK ask : ask = Head(asks[s])
  OBVIOUS
<1>5. METypeOK /\ s \in Symbols /\ Crossable(bids[s], asks[s])
  BY <1>1, <1>2 DEF EngineInv, EngineOK, METypeOK, Match
<1>6. /\ t \in TradeRecords /\ bids[s] # <<>> /\ asks[s] # <<>>
      /\ t.qty \in Nat \ {0} /\ t.qty <= bid.qty /\ t.qty <= ask.qty
  BY <1>1, <1>5, <1>2, <1>3, <1>4, TopTradeType
<1>7. /\ t.symbol = s /\ t.buy = bid.order /\ t.sell = ask.order
      /\ t.buyLeft = bid.qty - t.qty /\ t.sellLeft = ask.qty - t.qty
      /\ t.price = bid.price \/ t.price = ask.price
  BY <1>1, <1>2, <1>3, <1>4 DEF TopTrade
<1>8. bid \in Entries /\ ask \in Entries /\ bid.price >= ask.price
  BY <1>5, <1>6, <1>3, <1>4, BookLists, HeadTailProperties DEF Crossable
<1>9. /\ bid.qty \in Nat /\ ask.qty \in Nat /\ bid.price \in Nat /\ ask.price \in Nat
  BY <1>8 DEF Entries
<1>10. RestingQty(bids[s], bid.order) = bid.qty /\ RestingQty(asks[s], ask.order) = ask.qty
  <2>1. /\ bid = bids[s][1] /\ 1 \in 1..Len(bids[s])
        /\ ask = asks[s][1] /\ 1 \in 1..Len(asks[s])
    BY <1>5, <1>6, <1>3, <1>4, BookLists, LenProperties, EmptySeq
  <2> QED
    BY <1>5, <2>1, BookLists, RestingQtyAt
<1>11. ASSUME NEW z \in Symbols, NEW x
      PROVE  /\ RestingQty(bids'[z], x) = IF z = s /\ x = t.buy THEN t.buyLeft
                                          ELSE RestingQty(bids[z], x)
             /\ RestingQty(asks'[z], x) = IF z = s /\ x = t.sell THEN t.sellLeft
                                          ELSE RestingQty(asks[z], x)
  <2>1. /\ bids'[z] = IF z = s THEN FillTop(bids[s], t.qty) ELSE bids[z]
        /\ asks'[z] = IF z = s THEN FillTop(asks[s], t.qty) ELSE asks[z]
    BY <1>1, <1>5, <1>2 DEF METypeOK, Match
  <2>2. /\ RestingQty(FillTop(bids[s], t.qty), x) =
             IF x = bid.order THEN bid.qty - t.qty ELSE RestingQty(bids[s], x)
        /\ RestingQty(FillTop(asks[s], t.qty), x) =
             IF x = ask.order THEN ask.qty - t.qty ELSE RestingQty(asks[s], x)
    BY <1>5, <1>6, <1>3, <1>4, BookLists, FillTopQty
  <2> QED
    BY <1>7, <2>1, <2>2
<1>12. /\ t.price <= bid.price
      /\ bid.qty = t.buyLeft + t.qty /\ ask.qty = t.sellLeft + t.qty
  BY <1>6, <1>7, <1>8, <1>9
<1>13. /\ RestingQty(bids[s], t.buy) = t.buyLeft + t.qty
      /\ RestingQty(asks[s], t.sell) = t.sellLeft + t.qty
  BY <1>7, <1>10, <1>12
<1> QED
  BY <1>1, <1>5, <1>6, <1>7, <1>11, <1>12, <1>13, <1>2, <1>3, <1>4

LEMMA MatchEntries ==
  ASSUME EngineInv, Match, NEW z \in Symbols
  PROVE  /\ \A e \in EntriesOn(bids'[z]) : \E f \in EntriesOn(bids[z]) :
              e.order = f.order /\ e.price = f.price /\ e.time = f.time
         /\ \A e \in EntriesOn(asks'[z]) : \E f \in EntriesOn(asks[z]) :
              e.order = f.order /\ e.price = f.price /\ e.time = f.time
<1> SUFFICES ASSUME NEW s, s = submission.symbol, NEW q, q = TopTrade(s).qty
             PROVE  /\ \A e \in EntriesOn(bids'[z]) : \E f \in EntriesOn(bids[z]) :
                         e.order = f.order /\ e.price = f.price /\ e.time = f.time
                    /\ \A e \in EntriesOn(asks'[z]) : \E f \in EntriesOn(asks[z]) :
                         e.order = f.order /\ e.price = f.price /\ e.time = f.time
  OBVIOUS
<1>1. /\ s \in Symbols /\ bids[s] # <<>> /\ asks[s] # <<>>
      /\ bids'[z] = (IF z = s THEN FillTop(bids[s], q) ELSE bids[z])
      /\ asks'[z] = (IF z = s THEN FillTop(asks[s], q) ELSE asks[z])
  BY DEF EngineInv, EngineOK, METypeOK, Match, Crossable
<1> QED
  BY <1>1, BookLists, FillTopKeeps
-----------------------------------------------------------------------------
(* The engine alone *)

\* Every step of the engine, whoever calls it with whatever, keeps it.
LEMMA EngineNext == ASSUME EngineInv, [MENext]_meVars PROVE EngineInv'
<1>1. ASSUME NEW o \in OrderIds, NEW s \in Symbols, NEW side \in Sides,
             NEW price \in Prices, NEW qty \in Qtys, NEW time \in Times,
             SubmitOrder(o, s, side, price, qty, time)
      PROVE  EngineInv'
  BY <1>1, MatcherAssumption, SubmitOrderInv
<1>2. ASSUME NEW s \in Symbols, NEW o \in OrderIds, CancelInBook(s, o)
      PROVE  EngineInv'
  BY <1>2, CancelInBookInv
<1>3. CASE Match
  BY <1>3, MatchInv
<1>4. CASE EndMatch
  BY <1>4, EndMatchInv
<1>5. CASE NextTrade
  BY <1>5, NextTradeInv
<1>6. CASE UNCHANGED meVars
  BY <1>6, EngineUnchanged
<1>7. QED
  BY <1>1, <1>2, <1>3, <1>4, <1>5, <1>6 DEF MENext

\* The inductive invariant holds in every state of the engine.
THEOREM EngineInvariant == MESpec => []EngineInv
<1>1. MEInit => EngineInv
  BY EngineInit
<1>2. EngineInv /\ [MENext]_meVars => EngineInv'
  BY EngineNext
<1>3. QED
  BY <1>1, <1>2, PTL DEF MESpec

\* Type correctness of the engine's state: books of well-formed entries with a
\* positive quantity (a fill never leaves an entry of quantity 0 behind).
THEOREM METypeCorrect == MESpec => []METypeOK
BY EngineInvariant, EngineInvImplies, PTL

\* bisect.insort, pop_top, reduce_top and remove keep both sides of every book
\* in price-time order.
THEOREM BooksStaySorted == MESpec => []BooksSorted
BY EngineInvariant, EngineInvImplies, PTL

\* When submit_order has returned, no book is crossed.
THEOREM BooksStayUncrossed == MESpec => []BooksUncrossed
BY EngineInvariant, EngineInvImplies, PTL

-----------------------------------------------------------------------------
(* The lists implement the market's sets of offers: one lemma per action   *)
(* of the engine, which maps to the action of PriceTimeMarket it names.    *)

OfferOf(side, e) ==
  [side |-> side, order |-> e.order, price |-> e.price, qty |-> e.qty, time |-> e.time]

OffersOf(side, entries) == { OfferOf(side, e) : e \in entries }

\* The offers of a list are those of its entries.
LEMMA ListOffers ==
  ASSUME NEW side, NEW list \in Seq(Entries)
  PROVE  /\ Offers(side, list) = OffersOf(side, EntriesOn(list))
         /\ \A f \in Offers(side, list) : f.side = side
<1>1. DOMAIN list = 1..Len(list)
  BY LenProperties
<1>2. Offers(side, list) = { OfferOf(side, list[i]) : i \in 1..Len(list) }
  BY <1>1 DEF Offers, OfferOf
<1>3. \A i \in 1..Len(list) : OfferOf(side, list[i]).side = side
  BY DEF OfferOf
<1> QED
  BY <1>2, <1>3 DEF OffersOf, EntriesOn

\* What the sets of the market are, in terms of the lists.
LEMMA OffersAreEntries ==
  ASSUME METypeOK, NEW s \in Symbols
  PROVE  /\ Offers("BUY", bids[s]) = OffersOf("BUY", EntriesOn(bids[s]))
         /\ Offers("SELL", asks[s]) = OffersOf("SELL", EntriesOn(asks[s]))
         /\ Market!Bids(s) = Offers("BUY", bids[s])
         /\ Market!Asks(s) = Offers("SELL", asks[s])
<1>1. bids[s] \in Seq(Entries) /\ asks[s] \in Seq(Entries)
  BY DEF METypeOK
<1>2. /\ \A f \in Offers("BUY", bids[s]) : f.side = "BUY"
      /\ \A f \in Offers("SELL", asks[s]) : f.side = "SELL"
  BY <1>1, ListOffers
<1>3. Market!Bids(s) = Offers("BUY", bids[s])
  BY <1>2 DEF Market!Bids
<1>4. Market!Asks(s) = Offers("SELL", asks[s])
  BY <1>2 DEF Market!Asks
<1> QED
  BY <1>1, <1>3, <1>4, ListOffers

\* Each list's orders, seen from its offers.
LEMMA OffersSeen ==
  ASSUME EngineInv, NEW s \in Symbols
  PROVE  \A f \in Offers("BUY", bids[s]) \cup Offers("SELL", asks[s]) : f.order \in seen
<1>1. OrdersOn(bids[s]) \subseteq seen /\ OrdersOn(asks[s]) \subseteq seen
  BY DEF EngineInv, EngineOK, BooksDistinct, BooksSeen
<1>2. ASSUME NEW side, NEW list \in Seq(Entries), OrdersOn(list) \subseteq seen
      PROVE  \A f \in Offers(side, list) : f.order \in seen
  BY <1>2, LenProperties DEF Offers, OrdersOn
<1>3. bids[s] \in Seq(Entries) /\ asks[s] \in Seq(Entries)
  BY DEF EngineInv, EngineOK, METypeOK
<1> QED
  BY <1>1, <1>2, <1>3

\* A step that changes the lists of one symbol changes its offers only.
LEMMA OneBookChanges ==
  ASSUME METypeOK, NEW s \in Symbols, NEW F,
         \A t \in Symbols \ {s} : bids'[t] = bids[t] /\ asks'[t] = asks[t],
         Offers("BUY", bids'[s]) \cup Offers("SELL", asks'[s]) = F
  PROVE  [t \in Symbols |-> Offers("BUY", bids'[t]) \cup Offers("SELL", asks'[t])] =
           [[t \in Symbols |-> Offers("BUY", bids[t]) \cup Offers("SELL", asks[t])]
              EXCEPT ![s] = F]
OBVIOUS

\* submit_order up to the loop is a new offer.
LEMMA SubmitIsOffer ==
  ASSUME EngineInv, NEW o \in OrderIds, NEW s \in Symbols, NEW side \in Sides,
         NEW price \in Prices, NEW qty \in Qtys, NEW time \in Times,
         SubmitOrder(o, s, side, price, qty, time)
  PROVE  Market!Next
<1> DEFINE e == BookEntry(o, price, qty, time)
           f == OfferOf(side, e)
<1>1. /\ METypeOK /\ submission = NoSubmission /\ trades = <<>> /\ o \notin seen
      /\ submission' = [order |-> o, symbol |-> s] /\ trades' = trades
  BY DEF EngineInv, EngineOK, SubmitOrder, MEIdle
<1>2. e \in Entries
  BY MatcherAssumption DEF BookEntry, Entries
<1>3. f \in [side : {"BUY", "SELL"}, order : OrderIds, price : Prices,
             qty : Qtys, time : Times] /\ f.order = o
  BY DEF OfferOf, BookEntry, Sides
<1>4. /\ bids \in [Symbols -> Seq(Entries)] /\ asks \in [Symbols -> Seq(Entries)]
      /\ Sorted("BUY", bids[s]) /\ Sorted("SELL", asks[s])
  BY <1>1 DEF METypeOK, EngineInv, EngineOK, BooksSorted
<1>5. ASSUME NEW x \in Sides, NEW list \in Seq(Entries), Sorted(x, list)
      PROVE  OffersOf(x, EntriesOn(Insert(x, list, e))) =
               OffersOf(x, EntriesOn(list)) \cup {OfferOf(x, e)}
  <2>1. EntriesOn(Insert(x, list, e)) = EntriesOn(list) \cup {e}
    BY <1>2, <1>5, InsertEntries
  <2> QED
    BY <2>1 DEF OffersOf
<1>6. METypeOK'
  BY MatcherAssumption, SubmitOrderInv DEF EngineInv, EngineOK
<1>7. /\ Offers("BUY", bids[s]) = OffersOf("BUY", EntriesOn(bids[s]))
      /\ Offers("SELL", asks[s]) = OffersOf("SELL", EntriesOn(asks[s]))
      /\ Offers("BUY", bids'[s]) = OffersOf("BUY", EntriesOn(bids'[s]))
      /\ Offers("SELL", asks'[s]) = OffersOf("SELL", EntriesOn(asks'[s]))
  BY <1>4, <1>6, ListOffers DEF METypeOK
<1>8. /\ Offers("BUY", bids'[s]) \cup Offers("SELL", asks'[s]) =
           (Offers("BUY", bids[s]) \cup Offers("SELL", asks[s])) \cup {f}
      /\ \A t \in Symbols \ {s} : bids'[t] = bids[t] /\ asks'[t] = asks[t]
  <2>1. CASE side = "BUY"
    <3>1. bids' = [bids EXCEPT ![s] = Insert("BUY", @, e)] /\ asks' = asks
      BY <2>1 DEF SubmitOrder, PutOnBook
    <3>2. bids'[s] = Insert("BUY", bids[s], e)
      BY <1>4, <3>1
    <3>3. OffersOf("BUY", EntriesOn(bids'[s])) =
            OffersOf("BUY", EntriesOn(bids[s])) \cup {f}
      BY <1>4, <1>5, <2>1, <3>2
    <3> HIDE DEF f, e
    <3> QED
      BY <1>4, <1>7, <3>1, <3>3
  <2>2. CASE side = "SELL"
    <3>1. asks' = [asks EXCEPT ![s] = Insert("SELL", @, e)] /\ bids' = bids
      BY <2>2 DEF SubmitOrder, PutOnBook
    <3>2. asks'[s] = Insert("SELL", asks[s], e)
      BY <1>4, <3>1
    <3>3. OffersOf("SELL", EntriesOn(asks'[s])) =
            OffersOf("SELL", EntriesOn(asks[s])) \cup {f}
      BY <1>4, <1>5, <2>2, <3>2
    <3> HIDE DEF f, e
    <3> QED
      BY <1>4, <1>7, <3>1, <3>3
  <2> QED
    BY <2>1, <2>2 DEF Sides
<1> HIDE DEF f, e
<1>9. Market!Offer(f, s)
  <2>1. \A t \in Symbols : \A g \in Offers("BUY", bids[t]) \cup Offers("SELL", asks[t]) :
          g.order # f.order
    BY <1>1, <1>3, OffersSeen
  <2>2. submission' = [order |-> f.order, symbol |-> s]
    BY <1>1, <1>3
  <2>3. [t \in Symbols |-> Offers("BUY", bids'[t]) \cup Offers("SELL", asks'[t])] =
           [[t \in Symbols |-> Offers("BUY", bids[t]) \cup Offers("SELL", asks[t])]
              EXCEPT ![s] = @ \cup {f}]
    BY <1>1, <1>8, OneBookChanges
  <2> QED
    BY <1>1, <2>1, <2>2, <2>3 DEF Market!Offer, Market!Quiet
<1> QED
  BY <1>3, <1>9 DEF Market!Next

\* cancel_order withdraws the order, whichever side it is on, if any.
LEMMA CancelIsWithdraw ==
  ASSUME EngineInv, NEW o \in OrderIds, NEW s \in Symbols, CancelInBook(s, o)
  PROVE  Market!Next
<1>1. /\ METypeOK /\ submission = NoSubmission /\ trades = <<>>
      /\ submission' = submission /\ trades' = trades
      /\ bids \in [Symbols -> Seq(Entries)] /\ asks \in [Symbols -> Seq(Entries)]
  BY DEF EngineInv, EngineOK, METypeOK, CancelInBook, MEIdle
<1>2. /\ Distinct(bids[s]) /\ Distinct(asks[s])
      /\ OrdersOn(bids[s]) \cap OrdersOn(asks[s]) = {}
  BY DEF EngineInv, EngineOK, BooksDistinct, BooksSeen
<1>3. METypeOK'
  BY CancelInBookInv DEF EngineInv, EngineOK
<1>4. /\ Offers("BUY", bids[s]) = OffersOf("BUY", EntriesOn(bids[s]))
      /\ Offers("SELL", asks[s]) = OffersOf("SELL", EntriesOn(asks[s]))
      /\ Offers("BUY", bids'[s]) = OffersOf("BUY", EntriesOn(bids'[s]))
      /\ Offers("SELL", asks'[s]) = OffersOf("SELL", EntriesOn(asks'[s]))
  BY <1>1, <1>3, ListOffers DEF METypeOK
<1>5. ASSUME NEW side, NEW list \in Seq(Entries), Distinct(list)
      PROVE  OffersOf(side, EntriesOn(RemoveOrder(list, o))) =
               { f \in OffersOf(side, EntriesOn(list)) : f.order # o }
  <2>1. EntriesOn(RemoveOrder(list, o)) = { e \in EntriesOn(list) : e.order # o }
    BY <1>5, RemoveEntries
  <2>2. \A e : OfferOf(side, e).order = e.order
    BY DEF OfferOf
  <2> QED
    BY <2>1, <2>2 DEF OffersOf
<1>6. ASSUME NEW side, NEW list \in Seq(Entries), o \notin OrdersOn(list)
      PROVE  { f \in OffersOf(side, EntriesOn(list)) : f.order # o } =
               OffersOf(side, EntriesOn(list))
  <2>1. \A e \in EntriesOn(list) : e.order # o
    BY <1>6 DEF EntriesOn, OrdersOn
  <2>2. \A e : OfferOf(side, e).order = e.order
    BY DEF OfferOf
  <2> QED
    BY <2>1, <2>2 DEF OffersOf
<1>7. /\ Offers("BUY", bids'[s]) \cup Offers("SELL", asks'[s]) =
           { f \in Offers("BUY", bids[s]) \cup Offers("SELL", asks[s]) : f.order # o }
      /\ \A t \in Symbols \ {s} : bids'[t] = bids[t] /\ asks'[t] = asks[t]
  <2>1. CASE Rests(bids[s], o)
    <3>1. bids' = [bids EXCEPT ![s] = RemoveOrder(@, o)] /\ asks' = asks
      BY <2>1 DEF CancelInBook, TakeOffBook
    <3>2. o \notin OrdersOn(asks[s])
      BY <1>1, <1>2, <2>1, LenProperties DEF Rests, OrdersOn
    <3>3. bids'[s] = RemoveOrder(bids[s], o) /\ asks'[s] = asks[s]
      BY <1>1, <3>1
    <3> QED
      BY <1>1, <1>2, <1>4, <1>5, <1>6, <3>1, <3>2, <3>3
  <2>2. CASE ~Rests(bids[s], o)
    <3>1. asks' = [asks EXCEPT ![s] = RemoveOrder(@, o)] /\ bids' = bids
      BY <2>2 DEF CancelInBook, TakeOffBook
    <3>2. o \notin OrdersOn(bids[s])
      BY <1>1, <2>2, LenProperties DEF Rests, OrdersOn
    <3>3. asks'[s] = RemoveOrder(asks[s], o) /\ bids'[s] = bids[s]
      BY <1>1, <3>1
    <3> QED
      BY <1>1, <1>2, <1>4, <1>5, <1>6, <3>1, <3>2, <3>3
  <2> QED
    BY <2>1, <2>2
<1>8. Market!Withdraw(o, s)
  <2>1. [t \in Symbols |-> Offers("BUY", bids'[t]) \cup Offers("SELL", asks'[t])] =
           [[t \in Symbols |-> Offers("BUY", bids[t]) \cup Offers("SELL", asks[t])]
              EXCEPT ![s] = { f \in @ : f.order # o }]
    BY <1>1, <1>7, OneBookChanges
  <2> QED
    BY <1>1, <2>1 DEF Market!Withdraw, Market!Quiet
<1> QED
  BY <1>8 DEF Market!Next

\* No bid of a book that is not crossed meets an ask, at the top or behind it.
LEMMA UncrossedApart ==
  ASSUME METypeOK, BooksSorted, NEW s \in Symbols, ~Crossable(bids[s], asks[s])
  PROVE  \A e \in EntriesOn(bids[s]), g \in EntriesOn(asks[s]) : ~(e.price >= g.price)
<1> SUFFICES ASSUME NEW e \in EntriesOn(bids[s]), NEW g \in EntriesOn(asks[s]),
                    e.price >= g.price
             PROVE  FALSE
  OBVIOUS
<1>1. /\ bids[s] \in Seq(Entries) /\ asks[s] \in Seq(Entries)
      /\ Sorted("BUY", bids[s]) /\ Sorted("SELL", asks[s])
  BY DEF METypeOK, BooksSorted
<1>2. bids[s] # <<>> /\ asks[s] # <<>>
  BY <1>1, EmptySeq DEF EntriesOn
<1>3. /\ e \in Entries /\ Head(bids[s]) \in Entries
      /\ g \in Entries /\ Head(asks[s]) \in Entries
      /\ ~Outranks("BUY", e, Head(bids[s])) /\ ~Outranks("SELL", g, Head(asks[s]))
  BY <1>1, <1>2, HeadIsBest
<1>4. /\ e.price \in Nat /\ g.price \in Nat
      /\ Head(bids[s]).price \in Nat /\ Head(asks[s]).price \in Nat
      /\ e.price <= Head(bids[s]).price /\ g.price >= Head(asks[s]).price
  BY <1>3 DEF Outranks, Entries
<1>5. Head(bids[s]).price >= Head(asks[s]).price
  BY <1>4
<1> QED
  BY <1>2, <1>5 DEF Crossable

\* While the loop runs only the order that was submitted meets anything: the
\* orders that rested before were left apart by the calls before.
OnlyArrivingMeets ==
  submission # NoSubmission =>
    \A e \in EntriesOn(bids[submission.symbol]), g \in EntriesOn(asks[submission.symbol]) :
      e.price >= g.price => submission.order \in {e.order, g.order}

LEMMA SubmitMeets ==
  ASSUME EngineInv, NEW o \in OrderIds, NEW s \in Symbols, NEW side \in Sides,
         NEW price \in Nat, NEW qty \in Nat \ {0}, NEW time \in Nat,
         SubmitOrder(o, s, side, price, qty, time)
  PROVE  OnlyArrivingMeets'
<1>1. METypeOK /\ BooksSorted /\ submission = NoSubmission
  BY DEF EngineInv, EngineOK, SubmitOrder, MEIdle
<1>2. submission' = [order |-> o, symbol |-> s]
  BY DEF SubmitOrder
<1>3. ~Crossable(bids[s], asks[s])
  BY <1>1, EngineInvImplies DEF BooksUncrossed
<1>4. \A e \in EntriesOn(bids[s]), g \in EntriesOn(asks[s]) : ~(e.price >= g.price)
  BY <1>1, <1>3, UncrossedApart
<1>5. /\ \A e \in EntriesOn(bids'[s]) : e \in EntriesOn(bids[s]) \/ e.order = o
      /\ \A g \in EntriesOn(asks'[s]) : g \in EntriesOn(asks[s]) \/ g.order = o
  BY SubmitEntries
<1>6. \A e \in EntriesOn(bids'[s]), g \in EntriesOn(asks'[s]) :
        e.price >= g.price => o \in {e.order, g.order}
  BY <1>4, <1>5
<1> QED
  BY <1>2, <1>6 DEF OnlyArrivingMeets, EntriesOn

LEMMA MatchMeets ==
  ASSUME EngineInv, OnlyArrivingMeets, Match PROVE OnlyArrivingMeets'
<1>1. PICK s \in Symbols : s = submission.symbol
  BY DEF EngineInv, EngineOK, METypeOK, Match
<1>2. submission # NoSubmission /\ submission' = submission
  BY DEF Match
<1>3. /\ \A e \in EntriesOn(bids'[s]) : \E f \in EntriesOn(bids[s]) :
           e.order = f.order /\ e.price = f.price
      /\ \A e \in EntriesOn(asks'[s]) : \E f \in EntriesOn(asks[s]) :
           e.order = f.order /\ e.price = f.price
  BY MatchEntries
<1>4. \A e \in EntriesOn(bids[s]), g \in EntriesOn(asks[s]) :
        e.price >= g.price => submission.order \in {e.order, g.order}
  BY <1>1, <1>2 DEF OnlyArrivingMeets
<1>5. \A e \in EntriesOn(bids'[s]), g \in EntriesOn(asks'[s]) :
        e.price >= g.price => submission.order \in {e.order, g.order}
  BY <1>3, <1>4
<1> QED
  BY <1>1, <1>2, <1>5 DEF OnlyArrivingMeets, EntriesOn

LEMMA NextMeets ==
  ASSUME EngineInv, OnlyArrivingMeets, [MENext]_meVars PROVE OnlyArrivingMeets'
<1>1. ASSUME NEW o \in OrderIds, NEW s \in Symbols, NEW side \in Sides,
             NEW price \in Prices, NEW qty \in Qtys, NEW time \in Times,
             SubmitOrder(o, s, side, price, qty, time)
      PROVE  OnlyArrivingMeets'
  BY <1>1, MatcherAssumption, SubmitMeets
<1>2. ASSUME NEW s \in Symbols, NEW o \in OrderIds, CancelInBook(s, o)
      PROVE  OnlyArrivingMeets'
  BY <1>2 DEF CancelInBook, MEIdle, OnlyArrivingMeets
<1>3. CASE Match
  BY <1>3, MatchMeets
<1>4. CASE EndMatch
  BY <1>4 DEF EndMatch, OnlyArrivingMeets
<1>5. CASE NextTrade
  BY <1>5 DEF NextTrade, OnlyArrivingMeets
<1>6. CASE UNCHANGED meVars
  BY <1>6 DEF meVars, OnlyArrivingMeets, EntriesOn
<1> QED
  BY <1>1, <1>2, <1>3, <1>4, <1>5, <1>6 DEF MENext

\* The loop ends when no two offers of its symbol meet.
LEMMA EndMatchIsClear == ASSUME EngineInv, EndMatch PROVE Market!Next
<1> DEFINE s == submission.symbol
<1>1. /\ METypeOK /\ BooksSorted /\ submission # NoSubmission /\ s \in Symbols
      /\ ~Crossable(bids[s], asks[s])
      /\ submission' = NoSubmission /\ UNCHANGED <<bids, asks, trades>>
  BY DEF EngineInv, EngineOK, METypeOK, EndMatch
<1>2. ~ Market!Meet(s)
  <2> SUFFICES ASSUME NEW b \in Market!Bids(s), NEW a \in Market!Asks(s),
                      b.price >= a.price
               PROVE  FALSE
    BY DEF Market!Meet
  <2> HIDE DEF s
  <2>1. b \in OffersOf("BUY", EntriesOn(bids[s])) /\ a \in OffersOf("SELL", EntriesOn(asks[s]))
    BY <1>1, OffersAreEntries
  <2>2. PICK e \in EntriesOn(bids[s]) : b = OfferOf("BUY", e)
    BY <2>1 DEF OffersOf
  <2>3. PICK g \in EntriesOn(asks[s]) : a = OfferOf("SELL", g)
    BY <2>1 DEF OffersOf
  <2>4. b.price = e.price /\ a.price = g.price
    BY <2>2, <2>3 DEF OfferOf
  <2> QED
    BY <1>1, <2>4, UncrossedApart
<1>3. Market!Clear
  BY <1>1, <1>2 DEF Market!Clear
<1> QED
  BY <1>3 DEF Market!Next

LEMMA NextTradeIsHandOver == ASSUME EngineInv, NextTrade PROVE Market!Next
<1>1. Market!HandOver
  BY DEF NextTrade, Market!HandOver
<1> QED
  BY <1>1 DEF Market!Next

\* What a fill leaves of the top of one side.
LEMMA FillLeaves ==
  ASSUME NEW side, NEW list \in Seq(Entries), list # <<>>, Distinct(list),
         NEW q \in Nat \ {0}
  PROVE  OffersOf(side, EntriesOn(FillTop(list, q))) =
           (OffersOf(side, EntriesOn(list)) \ {OfferOf(side, Head(list))})
             \cup Market!Left(OfferOf(side, Head(list)), q)
<1> DEFINE top == Head(list)
           rest == EntriesOn(list) \ {top}
<1>1. /\ top \in EntriesOn(list) /\ top \in Entries
      /\ \A e \in EntriesOn(list) : e \in Entries
  <2>1. /\ Len(list) \in Nat /\ Len(list) >= 1 /\ top = list[1]
        /\ \A i \in 1..Len(list) : list[i] \in Entries
    BY LenProperties, EmptySeq, ElementOfSeq
  <2> QED
    BY <2>1 DEF EntriesOn
<1>2. EntriesOn(FillTop(list, q)) =
        rest \cup IF top.qty = q THEN {} ELSE { [top EXCEPT !.qty = @ - q] }
  BY FillTopEntries
<1>3. \A e, g \in Entries : OfferOf(side, e) = OfferOf(side, g) => e = g
  BY SMTT(30) DEF OfferOf, Entries
<1>4. OffersOf(side, rest) = OffersOf(side, EntriesOn(list)) \ {OfferOf(side, top)}
  <2> HIDE DEF top
  <2> QED
    BY <1>1, <1>3 DEF OffersOf
<1>5. OfferOf(side, [top EXCEPT !.qty = @ - q]) = [OfferOf(side, top) EXCEPT !.qty = @ - q]
  <2> SUFFICES ASSUME NEW e, e = [top EXCEPT !.qty = @ - q]
               PROVE  OfferOf(side, e) = [OfferOf(side, top) EXCEPT !.qty = @ - q]
    OBVIOUS
  <2>1. /\ e.order = top.order /\ e.price = top.price /\ e.time = top.time
        /\ e.qty = top.qty - q
    BY <1>1 DEF Entries
  <2> HIDE DEF top
  <2> QED
    BY <2>1 DEF OfferOf
<1>6. OfferOf(side, top).qty = top.qty
  BY DEF OfferOf
<1> HIDE DEF top, rest
<1>7. CASE top.qty = q
  BY <1>2, <1>4, <1>6, <1>7 DEF Market!Left, top
<1>8. CASE top.qty # q
  <2>1. OffersOf(side, EntriesOn(FillTop(list, q))) =
          OffersOf(side, rest) \cup { OfferOf(side, [top EXCEPT !.qty = @ - q]) }
    BY <1>2, <1>8 DEF OffersOf
  <2> QED
    BY <1>4, <1>5, <1>6, <1>8, <2>1 DEF Market!Left, top
<1> QED
  BY <1>7, <1>8

\* An iteration of the loop is a trade between the best bid and the best ask.
LEMMA MatchIsTrade ==
  ASSUME EngineInv, OnlyArrivingMeets, StampsFollowArrival, Match PROVE Market!Next
<1>1. PICK s \in Symbols : s = submission.symbol
  BY DEF EngineInv, EngineOK, METypeOK, Match
<1>2. /\ METypeOK /\ submission # NoSubmission /\ submission' = submission
      /\ bids \in [Symbols -> Seq(Entries)] /\ asks \in [Symbols -> Seq(Entries)]
      /\ Sorted("BUY", bids[s]) /\ Sorted("SELL", asks[s])
      /\ Distinct(bids[s]) /\ Distinct(asks[s])
      /\ Crossable(bids[s], asks[s])
      /\ trades' = Append(trades, TopTrade(s))
      /\ bids' = [bids EXCEPT ![s] = FillTop(@, TopTrade(s).qty)]
      /\ asks' = [asks EXCEPT ![s] = FillTop(@, TopTrade(s).qty)]
  BY <1>1 DEF EngineInv, EngineOK, METypeOK, BooksSorted, BooksDistinct, BooksSeen, Match
<1>3. METypeOK'
  BY MatchInv DEF EngineInv, EngineOK
<1> DEFINE bid == Head(bids[s])
           ask == Head(asks[s])
           b == OfferOf("BUY", bid)
           a == OfferOf("SELL", ask)
           q == TopTrade(s).qty
<1>4. /\ bids[s] # <<>> /\ asks[s] # <<>> /\ bid.price >= ask.price
      /\ q \in Nat \ {0}
  BY <1>2, TopTradeType DEF Crossable
<1>5. /\ bid \in EntriesOn(bids[s]) /\ bid \in Entries
      /\ ask \in EntriesOn(asks[s]) /\ ask \in Entries
      /\ \A e \in EntriesOn(bids[s]) : e \in Entries /\ ~Outranks("BUY", e, bid)
      /\ \A e \in EntriesOn(asks[s]) : e \in Entries /\ ~Outranks("SELL", e, ask)
  BY <1>2, <1>4, HeadIsBest
<1>6. /\ b.side = "BUY" /\ b.order = bid.order /\ b.price = bid.price
      /\ b.qty = bid.qty /\ b.time = bid.time
      /\ a.side = "SELL" /\ a.order = ask.order /\ a.price = ask.price
      /\ a.qty = ask.qty /\ a.time = ask.time
  BY DEF OfferOf
<1>7. /\ submission.order \in {b.order, a.order}
       /\ (IF submission.order = b.order THEN a ELSE b) = (IF b.time <= a.time THEN b ELSE a)
  <2>1. submission.order \in {bid.order, ask.order}
    BY <1>1, <1>2, <1>4, <1>5 DEF OnlyArrivingMeets
  <2>2. 1 \in DOMAIN bids[s] /\ 1 \in DOMAIN asks[s] /\ bid = bids[s][1] /\ ask = asks[s][1]
    BY <1>2, <1>4, EmptySeq, LenProperties
  <2> HIDE DEF bid, ask, q
  <2>3. /\ bid.order = submission.order => ask.time < bid.time
        /\ ask.order = submission.order => bid.time < ask.time
    BY <1>1, <1>2, <2>2 DEF StampsFollowArrival
  <2>4. bid.time \in Nat /\ ask.time \in Nat
    BY <1>5 DEF Entries
  <2>5. CASE submission.order = bid.order
    <3>1. ~(b.time <= a.time)
      BY <1>6, <2>3, <2>4, <2>5
    <3> QED
      BY <1>6, <2>5, <3>1
  <2>6. CASE submission.order = ask.order
    <3>1. b.time <= a.time /\ bid.order # ask.order
      BY <1>6, <2>3, <2>4, <2>6
    <3> QED
      BY <1>6, <2>6, <3>1
  <2> QED
    BY <2>1, <2>5, <2>6
<1>8. TopTrade(s) =
        [symbol |-> s, buy |-> b.order, sell |-> a.order,
         price |-> (IF b.time <= a.time THEN b ELSE a).price,
         qty |-> IF b.qty <= a.qty THEN b.qty ELSE a.qty,
         maker |-> (IF b.time <= a.time THEN b ELSE a).side,
         buyLeft |-> b.qty - (IF b.qty <= a.qty THEN b.qty ELSE a.qty),
         sellLeft |-> a.qty - (IF b.qty <= a.qty THEN b.qty ELSE a.qty)]
  BY <1>6 DEF TopTrade
<1>9. q = IF b.qty <= a.qty THEN b.qty ELSE a.qty
  BY <1>8
<1>10. TopTrade(s) =
         [symbol |-> s, buy |-> b.order, sell |-> a.order,
          price |-> (IF submission.order = b.order THEN a ELSE b).price,
          qty |-> q,
          maker |-> (IF submission.order = b.order THEN a ELSE b).side,
          buyLeft |-> b.qty - q, sellLeft |-> a.qty - q]
  <2> HIDE DEF bid, ask, b, a, q
  <2> QED
    BY <1>8, <1>9, <1>7
<1> HIDE DEF bid, ask, b, a, q
<1>11. /\ Offers("BUY", bids[s]) = OffersOf("BUY", EntriesOn(bids[s]))
      /\ Offers("SELL", asks[s]) = OffersOf("SELL", EntriesOn(asks[s]))
      /\ Offers("BUY", bids'[s]) = OffersOf("BUY", EntriesOn(bids'[s]))
      /\ Offers("SELL", asks'[s]) = OffersOf("SELL", EntriesOn(asks'[s]))
  BY <1>2, <1>3, ListOffers DEF METypeOK
<1>12. /\ Market!Bids(s) = OffersOf("BUY", EntriesOn(bids[s]))
       /\ Market!Asks(s) = OffersOf("SELL", EntriesOn(asks[s]))
  BY <1>2, OffersAreEntries
<1>13. Market!BestBid(b, s)
  <2>1. b \in Market!Bids(s)
    BY <1>5, <1>12 DEF OffersOf, b
  <2>2. ASSUME NEW e \in EntriesOn(bids[s])
        PROVE  LET f == OfferOf("BUY", e)
               IN  f.price < b.price \/ (f.price = b.price /\ f.time >= b.time)
    <3>1. /\ e.price \in Nat /\ e.time \in Nat /\ bid.price \in Nat /\ bid.time \in Nat
          /\ ~Outranks("BUY", e, bid)
      BY <1>5 DEF Entries
    <3>2. e.price < bid.price \/ (e.price = bid.price /\ e.time >= bid.time)
      BY <3>1 DEF Outranks
    <3> QED
      BY <1>6, <3>2 DEF OfferOf
  <2> QED
    BY <1>12, <2>1, <2>2 DEF Market!BestBid, OffersOf
<1>14. Market!BestAsk(a, s)
  <2>1. a \in Market!Asks(s)
    BY <1>5, <1>12 DEF OffersOf, a
  <2>2. ASSUME NEW e \in EntriesOn(asks[s])
        PROVE  LET f == OfferOf("SELL", e)
               IN  f.price > a.price \/ (f.price = a.price /\ f.time >= a.time)
    <3>1. /\ e.price \in Nat /\ e.time \in Nat /\ ask.price \in Nat /\ ask.time \in Nat
          /\ ~Outranks("SELL", e, ask)
      BY <1>5 DEF Entries
    <3>2. e.price > ask.price \/ (e.price = ask.price /\ e.time >= ask.time)
      BY <3>1 DEF Outranks
    <3> QED
      BY <1>6, <3>2 DEF OfferOf
  <2> QED
    BY <1>12, <2>1, <2>2 DEF Market!BestAsk, OffersOf
<1>15. /\ Offers("BUY", bids'[s]) \cup Offers("SELL", asks'[s]) =
            ((Offers("BUY", bids[s]) \cup Offers("SELL", asks[s])) \ {b, a})
              \cup Market!Left(b, q) \cup Market!Left(a, q)
       /\ \A t \in Symbols \ {s} : bids'[t] = bids[t] /\ asks'[t] = asks[t]
  <2>1. bids'[s] = FillTop(bids[s], q) /\ asks'[s] = FillTop(asks[s], q)
    BY <1>2 DEF q
  <2>2. /\ Offers("BUY", bids'[s]) = (Offers("BUY", bids[s]) \ {b}) \cup Market!Left(b, q)
        /\ Offers("SELL", asks'[s]) = (Offers("SELL", asks[s]) \ {a}) \cup Market!Left(a, q)
    BY <1>2, <1>4, <1>11, <2>1, FillLeaves DEF b, a, bid, ask
  <2>3. /\ \A f \in Offers("BUY", bids[s]) : f.side = "BUY"
        /\ \A f \in Offers("SELL", asks[s]) : f.side = "SELL"
    BY <1>11 DEF OffersOf, OfferOf
  <2>4. b \notin Offers("SELL", asks[s]) /\ a \notin Offers("BUY", bids[s])
    BY <1>6, <2>3
  <2> QED
    BY <1>2, <2>2, <2>4
<1>16. Market!Trade(b, a)
  <2>1. [t \in Symbols |-> Offers("BUY", bids'[t]) \cup Offers("SELL", asks'[t])] =
           [[t \in Symbols |-> Offers("BUY", bids[t]) \cup Offers("SELL", asks[t])]
              EXCEPT ![s] = (@ \ {b, a}) \cup Market!Left(b, q) \cup Market!Left(a, q)]
    BY <1>2, <1>15, OneBookChanges
  <2>2. b.price >= a.price
    BY <1>4, <1>6
  <2> QED
    BY <1>1, <1>2, <1>7, <1>10, <1>9, <1>13, <1>14, <2>1, <2>2 DEF Market!Trade
<1>17. b \in Market!Bids(s) /\ a \in Market!Asks(s)
  BY <1>13, <1>14 DEF Market!BestBid, Market!BestAsk
<1> QED
  BY <1>1, <1>2, <1>16, <1>17 DEF Market!Next

\* The engine, whose sides are lists kept sorted by bisect, implements the
\* market in which every trade is between a bid and an ask nobody outranks, one
\* of them the order that arrives, at the price of the other one, which was there
\* first - if the time stamps follow the order of arrival.
THEOREM ImplementsPriceTimeMarket ==
  MESpec /\ []StampsFollowArrival => ImplementsMarket
<1>1. MEInit => Market!Init
  <2> SUFFICES ASSUME MEInit PROVE Market!Init
    OBVIOUS
  <2>1. \A s \in Symbols : Offers("BUY", bids[s]) \cup Offers("SELL", asks[s]) = {}
    BY DEF MEInit, Offers
  <2> QED
    BY <2>1 DEF MEInit, Market!Init
<1>2. MEInit => OnlyArrivingMeets
  BY DEF MEInit, OnlyArrivingMeets
<1>3. EngineInv /\ OnlyArrivingMeets /\ [MENext]_meVars => OnlyArrivingMeets'
  BY NextMeets
<1>4. EngineInv /\ OnlyArrivingMeets /\ StampsFollowArrival /\ [MENext]_meVars
        => [Market!Next]_(Market!marketVars)
  <2> SUFFICES ASSUME EngineInv, OnlyArrivingMeets, StampsFollowArrival, [MENext]_meVars
               PROVE  Market!Next \/ UNCHANGED Market!marketVars
    OBVIOUS
  <2>1. UNCHANGED meVars => UNCHANGED Market!marketVars
    BY DEF meVars, Market!marketVars
  <2> QED
    BY <2>1, SubmitIsOffer, CancelIsWithdraw, MatchIsTrade, EndMatchIsClear,
       NextTradeIsHandOver DEF MENext
<1> QED
  BY <1>1, <1>2, <1>3, <1>4, EngineInvariant, PTL
  DEF MESpec, ImplementsMarket, Market!Spec
=============================================================================
