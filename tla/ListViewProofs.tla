--------------------------- MODULE ListViewProofs ---------------------------
(***************************************************************************)
(* What the list operators of ListView return, for any sequence: the facts *)
(* about list.c on which the proofs about the kernel rest.  Each operation *)
(* keeps the sequence one of the same elements, keeps it free of           *)
(* repetitions, and adds or removes exactly the item it is given.          *)
(***************************************************************************)
EXTENDS ListView, SequenceTheorems, NaturalsInduction, WellFoundedInduction,
        TLAPS

(* A set of naturals that is not empty has a least element, and Min is it. *)
LEMMA MinimumOfNaturals ==
  ASSUME NEW T \in SUBSET Nat, T # {}
  PROVE  Min(T) \in T /\ \A y \in T : Min(T) <= y
<1> DEFINE R == {p \in Nat \X Nat : p[1] < p[2]}
<1>1. IsWellFoundedOn(R, Nat)
  BY NatLessThanWellFounded DEF OpToRel
<1>. HIDE DEF R
<1>2. PICK x \in T : \A y \in T : <<y, x>> \notin R
  BY <1>1, WFMin
<1>3. ASSUME NEW y \in T
      PROVE  x <= y
  <2>1. x \in Nat /\ y \in Nat
    OBVIOUS
  <2>2. y < x => <<y, x>> \in R
    BY <2>1 DEF R
  <2>. QED BY <1>2, <2>1, <2>2
<1>. QED BY <1>3 DEF Min

(* RemoveAt shifts what follows the position by one. *)
LEMMA RemoveAtProperties ==
  ASSUME NEW S, NEW s \in Seq(S), NEW k \in 1 .. Len(s)
  PROVE  /\ RemoveAt(s, k) \in Seq(S)
         /\ Len(RemoveAt(s, k)) = Len(s) - 1
         /\ \A i \in 1 .. (Len(s) - 1) :
               RemoveAt(s, k)[i] = IF i < k THEN s[i] ELSE s[i + 1]
<1> DEFINE a == SubSeq(s, 1, k - 1)
           b == SubSeq(s, k + 1, Len(s))
<1>1. /\ a \in Seq(S) /\ Len(a) = k - 1
      /\ \A i \in 1 .. (k - 1) : a[i] = s[i]
  BY ElementOfSeq
<1>2. /\ b \in Seq(S) /\ Len(b) = Len(s) - k
      /\ \A i \in 1 .. (Len(s) - k) : b[i] = s[i + k]
  BY ElementOfSeq
<1>. HIDE DEF a, b
<1>3. /\ a \o b \in Seq(S)
      /\ Len(a \o b) = Len(a) + Len(b)
      /\ \A i \in 1 .. (Len(a) + Len(b)) :
            (a \o b)[i] = IF i <= Len(a) THEN a[i] ELSE b[i - Len(a)]
  BY <1>1, <1>2, ConcatProperties
<1>4. ASSUME NEW i \in 1 .. (Len(s) - 1)
      PROVE  (a \o b)[i] = IF i < k THEN s[i] ELSE s[i + 1]
  <2>1. CASE i < k
    BY <1>1, <1>2, <1>3, <2>1
  <2>2. CASE ~(i < k)
    <3>1. b[i - (k - 1)] = s[i - (k - 1) + k]
      BY <1>2, <2>2
    <3>. QED BY <1>1, <1>2, <1>3, <2>2, <3>1
  <2>. QED BY <2>1, <2>2
<1>5. Len(a \o b) = Len(s) - 1
  BY <1>1, <1>2, <1>3
<1>6. RemoveAt(s, k) = a \o b
  BY DEF RemoveAt, a, b
<1>. QED BY <1>3, <1>4, <1>5, <1>6

(* InsertAt shifts what follows the position the other way. *)
LEMMA InsertAtProperties ==
  ASSUME NEW S, NEW s \in Seq(S), NEW k \in 1 .. (Len(s) + 1), NEW e \in S
  PROVE  /\ InsertAt(s, k, e) \in Seq(S)
         /\ Len(InsertAt(s, k, e)) = Len(s) + 1
         /\ \A i \in 1 .. (Len(s) + 1) :
               InsertAt(s, k, e)[i] = IF i < k THEN s[i]
                                      ELSE IF i = k THEN e ELSE s[i - 1]
<1> DEFINE a == SubSeq(s, 1, k - 1)
           b == SubSeq(s, k, Len(s))
           c == a \o <<e>>
<1>1. /\ a \in Seq(S) /\ Len(a) = k - 1
      /\ \A i \in 1 .. (k - 1) : a[i] = s[i]
  BY ElementOfSeq
<1>2. /\ b \in Seq(S) /\ Len(b) = Len(s) - k + 1
      /\ \A i \in 1 .. (Len(s) - k + 1) : b[i] = s[i + k - 1]
  BY ElementOfSeq
<1>. HIDE DEF a, b
<1>3. /\ c \in Seq(S) /\ Len(c) = k
      /\ \A i \in 1 .. k : c[i] = IF i < k THEN s[i] ELSE e
  BY <1>1
<1>. HIDE DEF c
<1>4. /\ c \o b \in Seq(S)
      /\ Len(c \o b) = Len(c) + Len(b)
      /\ \A i \in 1 .. (Len(c) + Len(b)) :
            (c \o b)[i] = IF i <= Len(c) THEN c[i] ELSE b[i - Len(c)]
  BY <1>2, <1>3, ConcatProperties
<1>5. ASSUME NEW i \in 1 .. (Len(s) + 1)
      PROVE  (c \o b)[i] = IF i < k THEN s[i]
                           ELSE IF i = k THEN e ELSE s[i - 1]
  <2>1. CASE i <= k
    BY <1>2, <1>3, <1>4, <2>1
  <2>2. CASE ~(i <= k)
    <3>1. b[i - k] = s[i - k + k - 1]
      BY <1>2, <2>2
    <3>. QED BY <1>2, <1>3, <1>4, <2>2, <3>1
  <2>. QED BY <2>1, <2>2
<1>6. InsertAt(s, k, e) = c \o b
  BY DEF InsertAt, a, b, c
<1>. QED BY <1>2, <1>3, <1>4, <1>5, <1>6

-----------------------------------------------------------------------------
(* vListRemove takes exactly the item out, once it is in the list once. *)
LEMMA ViewRemoveProperties ==
  ASSUME NEW S, NEW s \in Seq(S), NEW x
  PROVE  /\ ViewRemove(s, x) \in Seq(S)
         /\ IsInjective(s) =>
              /\ IsInjective(ViewRemove(s, x))
              /\ \A y : Contains(ViewRemove(s, x), y)
                          <=> Contains(s, y) /\ y # x
<1>1. CASE ~Contains(s, x)
  <2>1. ViewRemove(s, x) = s
    BY <1>1 DEF ViewRemove, RemoveFirst, Contains
  <2>. QED BY <1>1, <2>1
<1>2. CASE Contains(s, x)
  <2> DEFINE k == SelectInSeq(s, LAMBDA v : v = x)
             r == RemoveAt(s, k)
  <2>1. k \in 1 .. Len(s) /\ s[k] = x
    <3> DEFINE I == {i \in 1 .. Len(s) : s[i] = x}
    <3>1. I \in SUBSET Nat /\ I # {}
      BY <1>2 DEF Contains
    <3>2. Min(I) \in I
      BY <3>1, MinimumOfNaturals
    <3>3. k = Min(I)
      BY <3>1 DEF SelectInSeq
    <3>. QED BY <3>2, <3>3
  <2>2. ViewRemove(s, x) = r
    BY <1>2 DEF ViewRemove, RemoveFirst, Contains
  <2>. HIDE DEF k
  <2>3. /\ r \in Seq(S)
        /\ Len(r) = Len(s) - 1
        /\ \A i \in 1 .. (Len(s) - 1) :
              r[i] = IF i < k THEN s[i] ELSE s[i + 1]
    BY <2>1, RemoveAtProperties
  <2>. HIDE DEF r
  <2>4. DOMAIN r = 1 .. Len(r) /\ DOMAIN s = 1 .. Len(s) /\ Len(s) \in Nat
    BY <2>3, LenProperties
  <2>5. ASSUME IsInjective(s)
        PROVE  /\ IsInjective(r)
               /\ \A y : Contains(r, y) <=> Contains(s, y) /\ y # x
    <3>1. \A a, b \in 1 .. Len(s) : s[a] = s[b] => a = b
      BY <2>4, <2>5 DEF IsInjective
    <3>2. ASSUME NEW a \in 1 .. Len(r), NEW b \in 1 .. Len(r), r[a] = r[b]
          PROVE  a = b
      <4>1. CASE a < k /\ b < k
        BY <2>3, <2>4, <3>1, <3>2, <4>1
      <4>2. CASE a < k /\ ~(b < k)
        <5>1. s[a] = s[b + 1] /\ a \in 1 .. Len(s) /\ b + 1 \in 1 .. Len(s)
          BY <2>3, <2>4, <3>2, <4>2
        <5>. QED BY <2>1, <3>1, <4>2, <5>1
      <4>3. CASE ~(a < k) /\ b < k
        <5>1. s[a + 1] = s[b] /\ a + 1 \in 1 .. Len(s) /\ b \in 1 .. Len(s)
          BY <2>3, <2>4, <3>2, <4>3
        <5>. QED BY <2>1, <3>1, <4>3, <5>1
      <4>4. CASE ~(a < k) /\ ~(b < k)
        <5>1. s[a + 1] = s[b + 1]
          BY <2>3, <3>2, <4>4
        <5>. QED BY <2>3, <2>4, <3>1, <5>1
      <4>. QED BY <4>1, <4>2, <4>3, <4>4
    <3>3. ASSUME NEW y, Contains(r, y)
          PROVE  Contains(s, y) /\ y # x
      <4>1. PICK i \in 1 .. Len(r) : r[i] = y
        BY <3>3 DEF Contains
      <4>2. CASE i < k
        BY <2>1, <2>3, <2>4, <3>1, <4>1, <4>2 DEF Contains
      <4>3. CASE ~(i < k)
        <5>1. s[i + 1] = y /\ i + 1 \in 1 .. Len(s) /\ i + 1 # k
          BY <2>1, <2>3, <2>4, <4>1, <4>3
        <5>. QED BY <2>1, <3>1, <5>1 DEF Contains
      <4>. QED BY <4>2, <4>3
    <3>4. ASSUME NEW y, Contains(s, y), y # x
          PROVE  Contains(r, y)
      <4>1. PICK i \in 1 .. Len(s) : s[i] = y
        BY <3>4 DEF Contains
      <4>2. CASE i < k
        <5>1. i \in 1 .. Len(r) /\ r[i] = y
          BY <2>1, <2>3, <2>4, <4>1, <4>2
        <5>. QED BY <5>1 DEF Contains
      <4>3. CASE i > k
        <5>1. i - 1 \in 1 .. Len(r) /\ r[i - 1] = s[i - 1 + 1]
          BY <2>1, <2>3, <2>4, <4>3
        <5>2. s[i - 1 + 1] = y
          BY <4>1
        <5>. QED BY <5>1, <5>2 DEF Contains
      <4>. QED BY <2>1, <2>4, <3>4, <4>1, <4>2, <4>3
    <3>. QED BY <2>4, <3>2, <3>3, <3>4 DEF IsInjective
  <2>. QED BY <2>2, <2>3, <2>5
<1>. QED BY <1>1, <1>2

(* vListInsertEnd adds exactly the item. *)
LEMMA ViewInsertEndProperties ==
  ASSUME NEW S, NEW s \in Seq(S), NEW x \in S
  PROVE  /\ ViewInsertEnd(s, x) \in Seq(S)
         /\ \A y : Contains(ViewInsertEnd(s, x), y)
                     <=> Contains(s, y) \/ y = x
         /\ IsInjective(s) /\ ~Contains(s, x)
              => IsInjective(ViewInsertEnd(s, x))
<1> DEFINE r == Append(s, x)
<1>1. /\ r \in Seq(S)
      /\ Len(r) = Len(s) + 1
      /\ \A i \in 1 .. Len(s) : r[i] = s[i]
      /\ r[Len(s) + 1] = x
  BY AppendProperties
<1>. HIDE DEF r
<1>2. DOMAIN r = 1 .. Len(r) /\ DOMAIN s = 1 .. Len(s) /\ Len(s) \in Nat
  BY <1>1, LenProperties
<1>3. \A y : Contains(r, y) <=> Contains(s, y) \/ y = x
  BY <1>1, <1>2 DEF Contains
<1>4. IsInjective(s) /\ ~Contains(s, x) => IsInjective(r)
  BY <1>1, <1>2 DEF Contains, IsInjective
<1>. QED BY <1>1, <1>3, <1>4 DEF ViewInsertEnd, r

(* The loop of vListInsert stops inside the list or at its end. *)
LEMMA InsertPositionType ==
  ASSUME NEW S, NEW s \in Seq(S), NEW value, NEW v
  PROVE  InsertPosition(s, value, v) \in 1 .. (Len(s) + 1)
<1> DEFINE I == {i \in 1 .. Len(s) + 1 : i = Len(s) + 1 \/ value[s[i]] > v}
<1>1. I \in SUBSET Nat /\ Len(s) + 1 \in I
  BY LenProperties
<1>2. Min(I) \in I
  BY <1>1, MinimumOfNaturals
<1>. QED BY <1>2 DEF InsertPosition

(* vListInsert adds exactly the item, wherever its value puts it. *)
LEMMA ViewInsertProperties ==
  ASSUME NEW S, NEW s \in Seq(S), NEW x \in S, NEW value
  PROVE  /\ ViewInsert(s, value, x) \in Seq(S)
         /\ \A y : Contains(ViewInsert(s, value, x), y)
                     <=> Contains(s, y) \/ y = x
         /\ IsInjective(s) /\ ~Contains(s, x)
              => IsInjective(ViewInsert(s, value, x))
<1> DEFINE k == InsertPosition(s, value, value[x])
           r == InsertAt(s, k, x)
<1>1. k \in 1 .. (Len(s) + 1)
  BY InsertPositionType
<1>. HIDE DEF k
<1>2. /\ r \in Seq(S)
      /\ Len(r) = Len(s) + 1
      /\ \A i \in 1 .. (Len(s) + 1) :
            r[i] = IF i < k THEN s[i] ELSE IF i = k THEN x ELSE s[i - 1]
  BY <1>1, InsertAtProperties
<1>. HIDE DEF r
<1>3. DOMAIN r = 1 .. Len(r) /\ DOMAIN s = 1 .. Len(s) /\ Len(s) \in Nat
  BY <1>2, LenProperties
<1>4. ASSUME NEW y
      PROVE  Contains(r, y) <=> Contains(s, y) \/ y = x
  <2>1. ASSUME Contains(r, y), y # x PROVE Contains(s, y)
    <3>1. PICK i \in 1 .. Len(r) : r[i] = y
      BY <2>1 DEF Contains
    <3>2. CASE i < k
      BY <1>1, <1>2, <1>3, <3>1, <3>2 DEF Contains
    <3>3. CASE i > k
      <4>1. i - 1 \in 1 .. Len(s) /\ s[i - 1] = y
        BY <1>1, <1>2, <1>3, <3>1, <3>3
      <4>. QED BY <4>1 DEF Contains
    <3>. QED BY <1>1, <1>2, <1>3, <2>1, <3>1, <3>2, <3>3
  <2>2. ASSUME Contains(s, y) PROVE Contains(r, y)
    <3>1. PICK i \in 1 .. Len(s) : s[i] = y
      BY <2>2 DEF Contains
    <3>2. CASE i < k
      <4>1. i \in 1 .. Len(r) /\ r[i] = y
        BY <1>2, <1>3, <3>1, <3>2
      <4>. QED BY <4>1 DEF Contains
    <3>3. CASE ~(i < k)
      <4>1. i + 1 \in 1 .. Len(r) /\ r[i + 1] = s[i + 1 - 1]
        BY <1>1, <1>2, <1>3, <3>3
      <4>. QED BY <3>1, <4>1 DEF Contains
    <3>. QED BY <3>2, <3>3
  <2>3. Contains(r, x)
    BY <1>1, <1>2, <1>3 DEF Contains
  <2>. QED BY <2>1, <2>2, <2>3
<1>5. ASSUME IsInjective(s), ~Contains(s, x)
      PROVE  IsInjective(r)
  <2>1. \A a, b \in 1 .. Len(s) : s[a] = s[b] => a = b
    BY <1>3, <1>5 DEF IsInjective
  <2>2. \A a \in 1 .. Len(s) : s[a] # x
    BY <1>5 DEF Contains
  <2> DEFINE from(a) == IF a < k THEN a ELSE a - 1
  <2>3. ASSUME NEW a \in 1 .. Len(r), a # k
        PROVE  from(a) \in 1 .. Len(s) /\ r[a] = s[from(a)]
    BY <1>1, <1>2, <1>3, <2>3
  <2>4. r[k] = x /\ k \in 1 .. Len(r)
    BY <1>1, <1>2, <1>3
  <2>5. ASSUME NEW a \in 1 .. Len(r), NEW b \in 1 .. Len(r), r[a] = r[b]
        PROVE  a = b
    <3>1. CASE a = k \/ b = k
      BY <2>2, <2>3, <2>4, <2>5, <3>1
    <3>2. CASE a # k /\ b # k
      <4>1. from(a) = from(b)
        BY <2>1, <2>3, <2>5, <3>2
      <4>. QED BY <1>1, <1>3, <3>2, <4>1
    <3>. QED BY <3>1, <3>2
  <2>. QED BY <1>3, <2>5 DEF IsInjective
<1>. QED BY <1>2, <1>4, <1>5 DEF ViewInsert, k, r

(* listGET_OWNER_OF_NEXT_ENTRY leaves the items of the list as they are. *)
LEMMA ViewNextProperties ==
  ASSUME NEW S, NEW s \in Seq(S), s # <<>>
  PROVE  /\ ViewNext(s) \in Seq(S)
         /\ \A y : Contains(ViewNext(s), y) <=> Contains(s, y)
         /\ IsInjective(s) => IsInjective(ViewNext(s))
<1> DEFINE h == Head(s)
           t == Tail(s)
           r == Append(t, h)
<1>1. /\ Len(s) \in Nat /\ Len(s) >= 1
      /\ h = s[1] /\ h \in S
      /\ t \in Seq(S) /\ Len(t) = Len(s) - 1
      /\ \A i \in 1 .. Len(t) : t[i] = s[i + 1]
  BY HeadTailProperties, EmptySeq, LenProperties
<1>. HIDE DEF h, t
<1>2. /\ r \in Seq(S)
      /\ Len(r) = Len(s)
      /\ \A i \in 1 .. (Len(s) - 1) : r[i] = s[i + 1]
      /\ r[Len(s)] = s[1]
  BY <1>1, AppendProperties
<1>. HIDE DEF r
<1>3. DOMAIN r = 1 .. Len(s) /\ DOMAIN s = 1 .. Len(s)
  BY <1>2, LenProperties
<1> DEFINE from(i) == IF i = Len(s) THEN 1 ELSE i + 1
<1>4. \A i \in 1 .. Len(s) : from(i) \in 1 .. Len(s) /\ r[i] = s[from(i)]
  BY <1>1, <1>2
<1>5. ASSUME NEW y
      PROVE  Contains(r, y) <=> Contains(s, y)
  <2>1. ASSUME Contains(r, y) PROVE Contains(s, y)
    BY <1>2, <1>4, <2>1 DEF Contains
  <2>2. ASSUME Contains(s, y) PROVE Contains(r, y)
    <3>1. PICK i \in 1 .. Len(s) : s[i] = y
      BY <2>2 DEF Contains
    <3>2. CASE i = 1
      BY <1>1, <1>2, <3>1, <3>2 DEF Contains
    <3>3. CASE i # 1
      <4>1. i - 1 \in 1 .. Len(r) /\ r[i - 1] = s[i - 1 + 1]
        BY <1>1, <1>2, <3>3
      <4>. QED BY <3>1, <4>1 DEF Contains
    <3>. QED BY <3>2, <3>3
  <2>. QED BY <2>1, <2>2
<1>6. ASSUME IsInjective(s)
      PROVE  IsInjective(r)
  <2>1. ASSUME NEW a \in 1 .. Len(s), NEW b \in 1 .. Len(s), r[a] = r[b]
        PROVE  a = b
    <3>1. from(a) = from(b)
      <4>. HIDE DEF from
      <4>1. s[from(a)] = s[from(b)]
        BY <1>4, <2>1
      <4>2. from(a) \in DOMAIN s /\ from(b) \in DOMAIN s
        BY <1>3, <1>4
      <4>. QED BY <1>6, <4>1, <4>2 DEF IsInjective
    <3>. QED BY <1>1, <3>1, SMTT(30)
  <2>. QED BY <1>3, <2>1 DEF IsInjective
<1>. QED BY <1>2, <1>5, <1>6 DEF ViewNext, r, h, t

-----------------------------------------------------------------------------
(* The order that vListInsert makes. *)

(* The values of the items do not decrease from the head on. *)
Ordered(s, value) ==
  \A i, j \in 1 .. Len(s) : i < j => value[s[i]] <= value[s[j]]

(* vListRemove keeps the order of the items that stay. *)
LEMMA ViewRemoveOrdered ==
  ASSUME NEW S, NEW s \in Seq(S), NEW x, NEW value, Ordered(s, value)
  PROVE  Ordered(ViewRemove(s, x), value)
<1>1. CASE ~Contains(s, x)
  <2>1. ViewRemove(s, x) = s
    BY <1>1 DEF ViewRemove, RemoveFirst, Contains
  <2>. QED BY <2>1
<1>2. CASE Contains(s, x)
  <2> DEFINE k == SelectInSeq(s, LAMBDA v : v = x)
             r == RemoveAt(s, k)
  <2>1. k \in 1 .. Len(s)
    <3> DEFINE I == {i \in 1 .. Len(s) : s[i] = x}
    <3>1. I \in SUBSET Nat /\ I # {}
      BY <1>2 DEF Contains
    <3>2. Min(I) \in I
      BY <3>1, MinimumOfNaturals
    <3>3. k = Min(I)
      BY <3>1 DEF SelectInSeq
    <3>. QED BY <3>2, <3>3
  <2>2. ViewRemove(s, x) = r
    BY <1>2 DEF ViewRemove, RemoveFirst, Contains
  <2>. HIDE DEF k
  <2>3. /\ Len(s) \in Nat
        /\ Len(r) = Len(s) - 1
        /\ \A i \in 1 .. (Len(s) - 1) :
              r[i] = IF i < k THEN s[i] ELSE s[i + 1]
    BY <2>1, RemoveAtProperties, LenProperties
  <2>. HIDE DEF r
  <2> DEFINE from(i) == IF i < k THEN i ELSE i + 1
  <2>4. \A i \in 1 .. Len(r) : from(i) \in 1 .. Len(s) /\ r[i] = s[from(i)]
    BY <2>1, <2>3
  <2>5. \A i, j \in 1 .. Len(r) : i < j => from(i) < from(j)
    BY <2>1, <2>3
  <2>. HIDE DEF from
  <2>6. Ordered(r, value)
    BY <2>4, <2>5 DEF Ordered
  <2>. QED BY <2>2, <2>6
<1>. QED BY <1>1, <1>2

(* vListInsert puts the item where the order wants it. *)
LEMMA ViewInsertOrdered ==
  ASSUME NEW S, NEW s \in Seq(S), NEW x \in S, NEW value \in [S -> Int],
         Ordered(s, value)
  PROVE  Ordered(ViewInsert(s, value, x), value)
<1> DEFINE v == value[x]
           k == InsertPosition(s, value, v)
           r == InsertAt(s, k, x)
           I == {i \in 1 .. Len(s) + 1 : i = Len(s) + 1 \/ value[s[i]] > v}
<1>1. /\ Len(s) \in Nat /\ v \in Int
      /\ \A i \in 1 .. Len(s) : s[i] \in S /\ value[s[i]] \in Int
  BY LenProperties, ElementOfSeq
<1>. HIDE DEF v
<1>2. I \in SUBSET Nat /\ Len(s) + 1 \in I
  BY <1>1
<1>3. k \in I /\ \A i \in I : k <= i
  BY <1>2, MinimumOfNaturals DEF InsertPosition
<1>4. k \in 1 .. (Len(s) + 1)
  BY <1>3
<1>5. \A i \in 1 .. Len(s) : i < k => value[s[i]] <= v
  <2>. SUFFICES ASSUME NEW i \in 1 .. Len(s), i < k
                PROVE  value[s[i]] <= v
    OBVIOUS
  <2>1. i \notin I
    BY <1>3, <1>4
  <2>2. ~(value[s[i]] > v)
    BY <2>1
  <2>. QED BY <1>1, <2>2
<1>6. \A i \in 1 .. Len(s) : k <= i => v <= value[s[i]]
  <2>. SUFFICES ASSUME NEW i \in 1 .. Len(s), k <= i
                PROVE  v <= value[s[i]]
    OBVIOUS
  <2>1. k \in 1 .. Len(s) /\ value[s[k]] > v
    BY <1>1, <1>3, <1>4
  <2>2. value[s[k]] <= value[s[i]]
    BY <1>1, <1>4, <2>1 DEF Ordered
  <2>. QED BY <1>1, <2>1, <2>2
<1>. HIDE DEF k
<1>7. /\ Len(r) = Len(s) + 1
      /\ \A i \in 1 .. (Len(s) + 1) :
            r[i] = IF i < k THEN s[i] ELSE IF i = k THEN x ELSE s[i - 1]
  BY <1>4, InsertAtProperties
<1>. HIDE DEF r
<1>8. ASSUME NEW i \in 1 .. Len(r), NEW j \in 1 .. Len(r), i < j
      PROVE  value[r[i]] <= value[r[j]]
  <2>1. CASE j < k
    <3>1. /\ i \in 1 .. Len(s) /\ r[i] = s[i]
          /\ j \in 1 .. Len(s) /\ r[j] = s[j]
      BY <1>1, <1>4, <1>7, <1>8, <2>1
    <3>. QED BY <1>8, <3>1 DEF Ordered
  <2>2. CASE j = k
    <3>1. i \in 1 .. Len(s) /\ r[i] = s[i] /\ r[j] = x
      BY <1>1, <1>4, <1>7, <1>8, <2>2
    <3>. QED BY <1>5, <1>8, <2>2, <3>1 DEF v
  <2>3. CASE i < k /\ k < j
    <3>1. /\ i \in 1 .. Len(s) /\ r[i] = s[i]
          /\ j - 1 \in 1 .. Len(s) /\ r[j] = s[j - 1] /\ k <= j - 1
      BY <1>1, <1>4, <1>7, <1>8, <2>3
    <3>2. value[s[i]] <= v /\ v <= value[s[j - 1]]
      BY <1>5, <1>6, <2>3, <3>1
    <3>. QED BY <1>1, <3>1, <3>2
  <2>4. CASE i = k
    <3>1. j - 1 \in 1 .. Len(s) /\ r[j] = s[j - 1] /\ k <= j - 1 /\ r[i] = x
      BY <1>1, <1>4, <1>7, <1>8, <2>4
    <3>. QED BY <1>6, <3>1 DEF v
  <2>5. CASE k < i
    <3>1. /\ i - 1 \in 1 .. Len(s) /\ r[i] = s[i - 1]
          /\ j - 1 \in 1 .. Len(s) /\ r[j] = s[j - 1]
          /\ i - 1 < j - 1
      BY <1>1, <1>4, <1>7, <1>8, <2>5
    <3>. QED BY <3>1 DEF Ordered
  <2>. QED BY <1>1, <1>4, <1>7, <1>8, <2>1, <2>2, <2>3, <2>4, <2>5
<1>. QED BY <1>8 DEF Ordered, ViewInsert, k, r, v

(* The order depends on the values of the items in the list only. *)
LEMMA OrderedSame ==
  ASSUME NEW S, NEW s \in Seq(S), NEW value, NEW other, Ordered(s, value),
         \A y \in S : Contains(s, y) => other[y] = value[y]
  PROVE  Ordered(s, other)
<1>1. \A i \in 1 .. Len(s) : s[i] \in S /\ Contains(s, s[i])
  BY ElementOfSeq, LenProperties DEF Contains
<1>. QED BY <1>1 DEF Ordered

(* The head of an ordered list has the least value. *)
LEMMA OrderedHead ==
  ASSUME NEW S, NEW s \in Seq(S), NEW value \in [S -> Int],
         Ordered(s, value), NEW y, Contains(s, y)
  PROVE  s # <<>> /\ value[Head(s)] <= value[y]
<1>1. PICK i \in 1 .. Len(s) : s[i] = y
  BY DEF Contains
<1>2. Len(s) \in Nat /\ s[1] \in S /\ Head(s) = s[1] /\ s # <<>>
  BY <1>1, LenProperties, ElementOfSeq, HeadTailProperties, EmptySeq
<1>3. CASE i = 1
  BY <1>1, <1>2, <1>3
<1>4. CASE i # 1
  BY <1>1, <1>2, <1>4 DEF Ordered
<1>. QED BY <1>3, <1>4

-----------------------------------------------------------------------------
(* The order of turns: what a list keeps of who comes before whom. *)

(* x has its turn before y. *)
Before(s, x, y) ==
  \E i, j \in 1 .. Len(s) : i < j /\ s[i] = x /\ s[j] = y

(* From s to r, a member that stays is overtaken by none that stays or joins. *)
KeepsTurn(s, r, x) ==
  \A y : /\ x # y
         /\ Contains(s, x) /\ Contains(r, x) /\ Contains(r, y)
         /\ Contains(s, y) => Before(s, x, y)
         => Before(r, x, y)

LEMMA SameKeepsTurns ==
  ASSUME NEW s, NEW x
  PROVE  KeepsTurn(s, s, x)
  BY DEF KeepsTurn

(* vListInsertEnd: whoever joins comes last. *)
LEMMA ViewInsertEndKeepsTurns ==
  ASSUME NEW S, NEW s \in Seq(S), NEW z \in S, NEW x
  PROVE  KeepsTurn(s, ViewInsertEnd(s, z), x)
<1> DEFINE r == ViewInsertEnd(s, z)
<1>1. /\ Len(r) = Len(s) + 1 /\ Len(s) \in Nat
      /\ \A i \in 1 .. Len(s) : r[i] = s[i]
      /\ r[Len(s) + 1] = z
  BY AppendProperties, LenProperties DEF ViewInsertEnd
<1>2. \A y : Contains(r, y) <=> Contains(s, y) \/ y = z
  BY ViewInsertEndProperties
<1>. HIDE DEF r
<1>3. ASSUME NEW y, x # y, Contains(s, x), Contains(r, y),
             Contains(s, y) => Before(s, x, y)
      PROVE  Before(r, x, y)
  <2>1. CASE Contains(s, y)
    <3>1. PICK i \in 1 .. Len(s), j \in 1 .. Len(s) :
            i < j /\ s[i] = x /\ s[j] = y
      BY <1>3, <2>1 DEF Before
    <3>2. /\ i \in 1 .. Len(r) /\ r[i] = x
          /\ j \in 1 .. Len(r) /\ r[j] = y
      BY <1>1, <3>1
    <3>. QED BY <3>1, <3>2 DEF Before
  <2>2. CASE ~Contains(s, y)
    <3>1. PICK i \in 1 .. Len(s) : s[i] = x
      BY <1>3 DEF Contains
    <3>2. y = z
      BY <1>2, <1>3, <2>2
    <3>3. /\ i \in 1 .. Len(r) /\ r[i] = x
          /\ Len(s) + 1 \in 1 .. Len(r) /\ i < Len(s) + 1
      BY <1>1, <3>1
    <3>. QED BY <1>1, <3>2, <3>3 DEF Before
  <2>. QED BY <2>1, <2>2
<1>. QED BY <1>3 DEF KeepsTurn, r

(* vListRemove: those that stay keep their order. *)
LEMMA ViewRemoveKeepsTurns ==
  ASSUME NEW S, NEW s \in Seq(S), IsInjective(s), NEW z, NEW x
  PROVE  KeepsTurn(s, ViewRemove(s, z), x)
<1>1. CASE ~Contains(s, z)
  <2>1. ViewRemove(s, z) = s
    BY <1>1 DEF ViewRemove, RemoveFirst, Contains
  <2>. QED BY <2>1, SameKeepsTurns
<1>2. CASE Contains(s, z)
  <2> DEFINE k == SelectInSeq(s, LAMBDA v : v = z)
             r == RemoveAt(s, k)
  <2>1. k \in 1 .. Len(s) /\ s[k] = z
    <3> DEFINE I == {i \in 1 .. Len(s) : s[i] = z}
    <3>1. I \in SUBSET Nat /\ I # {}
      BY <1>2 DEF Contains
    <3>2. Min(I) \in I
      BY <3>1, MinimumOfNaturals
    <3>3. k = Min(I)
      BY <3>1 DEF SelectInSeq
    <3>. QED BY <3>2, <3>3
  <2>2. ViewRemove(s, z) = r
    BY <1>2 DEF ViewRemove, RemoveFirst, Contains
  <2>3. \A y : Contains(r, y) => Contains(s, y) /\ y # z
    BY <2>2, ViewRemoveProperties
  <2>. HIDE DEF k
  <2>4. /\ Len(s) \in Nat
        /\ Len(r) = Len(s) - 1
        /\ \A i \in 1 .. (Len(s) - 1) :
              r[i] = IF i < k THEN s[i] ELSE s[i + 1]
    BY <2>1, RemoveAtProperties, LenProperties
  <2>. HIDE DEF r
  <2> DEFINE to(i) == IF i < k THEN i ELSE i - 1
  <2>5. ASSUME NEW i \in 1 .. Len(s), i # k
        PROVE  to(i) \in 1 .. Len(r) /\ r[to(i)] = s[i]
    <3>1. CASE i < k
      BY <2>1, <2>4, <3>1
    <3>2. CASE i > k
      <4>1. i - 1 \in 1 .. Len(r) /\ ~(i - 1 < k)
        BY <2>1, <2>4, <3>2
      <4>2. r[i - 1] = s[i - 1 + 1]
        BY <2>4, <4>1
      <4>3. i - 1 + 1 = i
        OBVIOUS
      <4>4. to(i) = i - 1
        BY <2>1, <3>2
      <4>. QED BY <4>1, <4>2, <4>3, <4>4
    <3>. QED BY <2>1, <2>5, <3>1, <3>2
  <2>6. \A i, j \in 1 .. Len(s) :
           i < j /\ i # k /\ j # k => to(i) < to(j)
    BY <2>1
  <2>. HIDE DEF to
  <2>7. ASSUME NEW y, Contains(r, x), Contains(r, y), Before(s, x, y)
        PROVE  Before(r, x, y)
    <3>1. PICK i \in 1 .. Len(s), j \in 1 .. Len(s) :
            i < j /\ s[i] = x /\ s[j] = y
      BY <2>7 DEF Before
    <3>2. i # k /\ j # k
      BY <2>1, <2>3, <2>7, <3>1
    <3>3. /\ to(i) \in 1 .. Len(r) /\ r[to(i)] = x
          /\ to(j) \in 1 .. Len(r) /\ r[to(j)] = y
      BY <2>5, <3>1, <3>2
    <3>4. to(i) < to(j)
      BY <2>6, <3>1, <3>2
    <3>. QED BY <3>3, <3>4 DEF Before
  <2>8. KeepsTurn(s, r, x)
    BY <2>3, <2>7 DEF KeepsTurn
  <2>. QED BY <2>2, <2>8
<1>. QED BY <1>1, <1>2

(* listGET_OWNER_OF_NEXT_ENTRY: all but the owner that has its turn. *)
LEMMA ViewNextKeepsTurns ==
  ASSUME NEW S, NEW s \in Seq(S), s # <<>>, NEW x, x # Head(s)
  PROVE  KeepsTurn(s, ViewNext(s), x)
<1> DEFINE r == ViewNext(s)
<1>1. /\ Len(s) \in Nat /\ Len(s) >= 1
      /\ Head(s) = s[1] /\ Head(s) \in S
      /\ Tail(s) \in Seq(S) /\ Len(Tail(s)) = Len(s) - 1
      /\ \A i \in 1 .. (Len(s) - 1) : Tail(s)[i] = s[i + 1]
  BY HeadTailProperties, EmptySeq, LenProperties
<1>2. /\ Len(r) = Len(s)
      /\ \A i \in 1 .. (Len(s) - 1) : r[i] = s[i + 1]
  BY <1>1, AppendProperties DEF ViewNext
<1>3. \A y : Contains(r, y) => Contains(s, y)
  BY ViewNextProperties
<1>. HIDE DEF r
<1>4. ASSUME NEW y, Before(s, x, y)
      PROVE  Before(r, x, y)
  <2>1. PICK i \in 1 .. Len(s), j \in 1 .. Len(s) :
          i < j /\ s[i] = x /\ s[j] = y
    BY <1>4 DEF Before
  <2>2. i # 1
    BY <1>1, <2>1
  <2>3. /\ i - 1 \in 1 .. (Len(s) - 1) /\ j - 1 \in 1 .. (Len(s) - 1)
        /\ i - 1 < j - 1 /\ i - 1 + 1 = i /\ j - 1 + 1 = j
    BY <1>1, <2>1, <2>2
  <2>4. r[i - 1] = x /\ r[j - 1] = y
    BY <1>2, <2>1, <2>3
  <2>5. i - 1 \in 1 .. Len(r) /\ j - 1 \in 1 .. Len(r)
    BY <1>1, <1>2, <2>3
  <2>. QED BY <2>3, <2>4, <2>5 DEF Before
<1>. QED BY <1>3, <1>4 DEF KeepsTurn, r

(* Two operations one after the other, between which the task stays. *)
LEMMA KeepsTurnTransitive ==
  ASSUME NEW s, NEW r, NEW q, NEW x, KeepsTurn(s, r, x), KeepsTurn(r, q, x),
         Contains(r, x)
  PROVE  KeepsTurn(s, q, x)
  BY DEF KeepsTurn

-----------------------------------------------------------------------------
(* A function on an initial segment of the numbers is a sequence. *)
LEMMA FunctionIsSeq ==
  ASSUME NEW n \in Nat, NEW S, NEW f \in [1 .. n -> S]
  PROVE  f \in Seq(S) /\ Len(f) = n
<1>1. f \in Seq(S)
  BY SeqDef
<1>2. Len(f) \in Nat /\ 1 .. Len(f) = 1 .. n
  BY <1>1, LenProperties
<1>. QED BY <1>1, <1>2

=============================================================================
