---------------------------- MODULE XListProofs ----------------------------
(***************************************************************************)
(* Proofs about XList for any lists, items and item values: every list is  *)
(* one intact ring, and the pointers of list.c implement the sequences of  *)
(* ListSpec, which are those the Kernel module is built from.  A ring is   *)
(* described by the sequence of its nodes that ends with pxIndex; what the *)
(* functions of list.c do to the pointers is first shown to insert into,   *)
(* remove from or rotate that sequence, for links that are any functions.  *)
(***************************************************************************)
EXTENDS XList, ListViewProofs, FiniteSetTheorems

(* The ways the functions of ListSpec act on a sequence are those of
   ListView. *)
LEMMA SameViews ==
  ASSUME NEW s, NEW x, NEW value
  PROVE  /\ Views!ViewInsertEnd(s, x) = ViewInsertEnd(s, x)
         /\ Views!ViewRemove(s, x) = ViewRemove(s, x)
         /\ Views!ViewInsert(s, value, x) = ViewInsert(s, value, x)
         /\ Views!ViewNext(s) = ViewNext(s)
         /\ Views!Contains(s, x) <=> Contains(s, x)
<1>1. Views!ViewInsertEnd(s, x) = ViewInsertEnd(s, x)
  BY DEF Views!ViewInsertEnd, ViewInsertEnd
<1>2. Views!ViewRemove(s, x) = ViewRemove(s, x)
  BY DEF Views!ViewRemove, ViewRemove, Views!RemoveFirst, RemoveFirst,
         Views!RemoveAt, RemoveAt, Views!SelectInSeq, SelectInSeq,
         Views!Contains, Contains, Views!Min, Min
<1>3. Views!ViewInsert(s, value, x) = ViewInsert(s, value, x)
  BY DEF Views!ViewInsert, ViewInsert, Views!InsertAt, InsertAt,
         Views!InsertPosition, InsertPosition, Views!Min, Min
<1>4. Views!ViewNext(s) = ViewNext(s)
  BY DEF Views!ViewNext, ViewNext
<1>5. Views!Contains(s, x) <=> Contains(s, x)
  BY DEF Views!Contains, Contains
<1>. QED BY <1>1, <1>2, <1>3, <1>4, <1>5

-----------------------------------------------------------------------------
(* Walks *)

(* The steps of a walk are determined by their recursion. *)
LEMMA WalkIs ==
  ASSUME NEW next, NEW n, NEW length \in Nat,
         NEW f, f = [k \in 0 .. length |-> IF k = 0 THEN n ELSE next[f[k - 1]]]
  PROVE  Walk(next, n, length) = f
<1> DEFINE P(g) == g = [k \in 0 .. length |->
                          IF k = 0 THEN n ELSE next[g[k - 1]]]
           w == Walk(next, n, length)
           Bad == {k \in 0 .. length : w[k] # f[k]}
<1>1. P(w)
  <2>1. w = CHOOSE g : P(g)
    BY DEF Walk
  <2>2. P(f)
    OBVIOUS
  <2>. HIDE DEF P, w
  <2>. QED BY ONLY <2>1, <2>2, Zenon
<1>2. /\ w[0] = n /\ f[0] = n
      /\ \A k \in 1 .. length : w[k] = next[w[k - 1]] /\ f[k] = next[f[k - 1]]
  <2>. HIDE DEF w
  <2>. QED BY <1>1
<1>3. Bad = {}
  <2>. SUFFICES ASSUME Bad # {} PROVE FALSE
    OBVIOUS
  <2>1. Bad \in SUBSET Nat
    OBVIOUS
  <2>. HIDE DEF w
  <2>2. Min(Bad) \in Bad /\ \A k \in Bad : Min(Bad) <= k
    <3>. HIDE DEF Bad
    <3>. QED BY <2>1, MinimumOfNaturals
  <2>3. PICK m \in 0 .. length : m = Min(Bad) /\ w[m] # f[m]
    BY <2>2
  <2>4. m \in 1 .. length /\ m - 1 \in 0 .. length
    BY <1>2, <2>3
  <2>5. m - 1 \notin Bad
    <3>1. m - 1 < m
      BY <2>3
    <3>. HIDE DEF Bad
    <3>. QED BY <2>2, <2>3, <2>4, <3>1
  <2>6. w[m - 1] = f[m - 1]
    BY <2>4, <2>5
  <2>7. w[m] = next[w[m - 1]] /\ f[m] = next[f[m - 1]]
    BY ONLY <1>2, <2>4
  <2>. QED BY ONLY <2>3, <2>6, <2>7
<1>4. \A k \in 0 .. length : w[k] = f[k]
  <2>. HIDE DEF w
  <2>. QED BY <1>3
<1>5. w = [k \in 0 .. length |-> w[k]]
  <2>. HIDE DEF w
  <2>. QED BY <1>1
<1>6. f = [k \in 0 .. length |-> f[k]]
  OBVIOUS
<1>. HIDE DEF w
<1>7. w = f
  BY <1>4, <1>5, <1>6
<1>. QED BY <1>7 DEF w

-----------------------------------------------------------------------------
(* Rings *)

NextPlace(r, i) == IF i = Len(r) THEN 1 ELSE i + 1

(* The nodes of r, none of them twice, are linked both ways in a circle. *)
IsRing(next, previous, r) ==
  /\ r # <<>>
  /\ IsInjective(r)
  /\ \A i \in 1 .. Len(r) : /\ next[r[i]] = r[NextPlace(r, i)]
                            /\ previous[r[NextPlace(r, i)]] = r[i]

LEMMA RingPlaces ==
  ASSUME NEW S, NEW r \in Seq(S), r # <<>>
  PROVE  /\ Len(r) \in Nat /\ Len(r) >= 1
         /\ \A i \in 1 .. Len(r) : r[i] \in S /\ NextPlace(r, i) \in 1 .. Len(r)
         /\ \A i, j \in 1 .. Len(r) :
               IsInjective(r) /\ r[i] = r[j] => i = j
<1>1. Len(r) \in Nat /\ Len(r) >= 1 /\ DOMAIN r = 1 .. Len(r)
  BY EmptySeq, LenProperties
<1>2. \A i \in 1 .. Len(r) : r[i] \in S
  BY ElementOfSeq
<1>3. ASSUME NEW i \in 1 .. Len(r)
      PROVE  NextPlace(r, i) \in 1 .. Len(r)
  <2>1. PICK n \in Nat : n = Len(r) /\ i \in 1 .. n
    BY <1>1
  <2>2. (IF i = n THEN 1 ELSE i + 1) \in 1 .. n
    BY <2>1
  <2>. QED BY <2>1, <2>2, SMTT(30) DEF NextPlace
<1>4. ASSUME IsInjective(r), NEW i \in 1 .. Len(r), NEW j \in 1 .. Len(r),
             r[i] = r[j]
      PROVE  i = j
  BY <1>1, <1>4 DEF IsInjective
<1>. QED BY <1>1, <1>2, <1>3, <1>4

(* A walk along the links of a ring meets its nodes in their order. *)
LEMMA RingWalk ==
  ASSUME NEW S, NEW r \in Seq(S), NEW next, NEW previous,
         IsRing(next, previous, r)
  PROVE  /\ Walk(next, r[1], Len(r) - 1) = [k \in 0 .. Len(r) - 1 |-> r[k + 1]]
         /\ Walk(next, r[Len(r)], Len(r) - 1)
              = [k \in 0 .. Len(r) - 1 |-> IF k = 0 THEN r[Len(r)] ELSE r[k]]
<1> DEFINE n == Len(r) - 1
           f == [k \in 0 .. n |-> r[k + 1]]
           g == [k \in 0 .. n |-> IF k = 0 THEN r[Len(r)] ELSE r[k]]
<1>1. Len(r) \in Nat /\ Len(r) >= 1 /\ n \in Nat
  BY RingPlaces DEF IsRing
<1>2. \A i \in 1 .. Len(r) : next[r[i]] = IF i = Len(r) THEN r[1] ELSE r[i + 1]
  BY DEF IsRing, NextPlace
<1>3. f = [k \in 0 .. n |-> IF k = 0 THEN r[1] ELSE next[f[k - 1]]]
  <2>1. ASSUME NEW k \in 0 .. n, k # 0
        PROVE  f[k] = next[f[k - 1]]
    <3>1. k \in 1 .. Len(r) /\ k # Len(r) /\ k - 1 \in 0 .. n
      BY <1>1, <2>1
    <3>2. f[k - 1] = r[k] /\ f[k] = r[k + 1]
      BY <3>1
    <3>. QED BY <1>2, <3>1, <3>2
  <2>2. f[0] = r[1]
    BY <1>1
  <2>3. \A k \in 0 .. n : f[k] = IF k = 0 THEN r[1] ELSE next[f[k - 1]]
    <3>. HIDE DEF f
    <3>. QED BY <2>1, <2>2
  <2>4. f = [k \in 0 .. n |-> f[k]]
    OBVIOUS
  <2>. HIDE DEF f
  <2>. QED BY <2>3, <2>4
<1>4. g = [k \in 0 .. n |-> IF k = 0 THEN r[Len(r)] ELSE next[g[k - 1]]]
  <2>1. ASSUME NEW k \in 0 .. n, k # 0
        PROVE  g[k] = next[g[k - 1]]
    <3>1. /\ k \in 1 .. Len(r) /\ k - 1 \in 0 .. n
          /\ k # 1 => k - 1 \in 1 .. Len(r) /\ k - 1 # Len(r)
                        /\ (k - 1) + 1 = k
          /\ Len(r) \in 1 .. Len(r)
      BY <1>1, <2>1
    <3>2. g[k] = r[k] /\ g[k - 1] = IF k = 1 THEN r[Len(r)] ELSE r[k - 1]
      BY <2>1, <3>1
    <3>3. next[r[Len(r)]] = r[1]
      BY <1>2, <3>1
    <3>4. k # 1 => next[r[k - 1]] = r[k]
      BY <1>2, <3>1
    <3>. QED BY <3>2, <3>3, <3>4
  <2>2. g[0] = r[Len(r)]
    BY <1>1
  <2>3. \A k \in 0 .. n : g[k] = IF k = 0 THEN r[Len(r)] ELSE next[g[k - 1]]
    <3>. HIDE DEF g
    <3>. QED BY <2>1, <2>2
  <2>4. g = [k \in 0 .. n |-> g[k]]
    OBVIOUS
  <2>. HIDE DEF g
  <2>. QED BY <2>3, <2>4
<1>. HIDE DEF f, g, n
<1>5. Walk(next, r[1], n) = f
  BY <1>1, <1>3, WalkIs, SMTT(30)
<1>6. Walk(next, r[Len(r)], n) = g
  <2>1. PICK last : last = r[Len(r)]
    OBVIOUS
  <2>2. g = [k \in 0 .. n |-> IF k = 0 THEN last ELSE next[g[k - 1]]]
    BY <1>4, <2>1
  <2>3. Walk(next, last, n) = g
    BY <1>1, <2>2, WalkIs
  <2>. QED BY <2>1, <2>3
<1>. QED BY <1>5, <1>6 DEF f, g, n

(* A ring may be looked at from any of its nodes. *)
Rotated(r, e) ==
  [i \in 1 .. Len(r) |->
     IF e + i <= Len(r) THEN r[e + i] ELSE r[e + i - Len(r)]]

LEMMA RingRotated ==
  ASSUME NEW S, NEW r \in Seq(S), NEW next, NEW previous,
         IsRing(next, previous, r), NEW e \in 1 .. Len(r)
  PROVE  /\ Rotated(r, e) \in Seq(S)
         /\ Len(Rotated(r, e)) = Len(r)
         /\ Rotated(r, e)[Len(r)] = r[e]
         /\ IsRing(next, previous, Rotated(r, e))
         /\ \A y : Contains(Rotated(r, e), y) <=> Contains(r, y)
<1> DEFINE n == Len(r)
           s == Rotated(r, e)
           place(i) == IF e + i <= n THEN e + i ELSE e + i - n
<1>1. /\ n \in Nat /\ n >= 1 /\ e \in 1 .. n
      /\ \A i \in 1 .. n : r[i] \in S
      /\ \A i, j \in 1 .. n : r[i] = r[j] => i = j
      /\ \A i \in 1 .. n : /\ next[r[i]] = r[IF i = n THEN 1 ELSE i + 1]
                           /\ previous[r[IF i = n THEN 1 ELSE i + 1]] = r[i]
  BY RingPlaces DEF IsRing, NextPlace
<1>2. s = [i \in 1 .. n |-> r[place(i)]]
  BY DEF Rotated
<1>. HIDE DEF s, n
<1>3. \A i \in 1 .. n : place(i) \in 1 .. n
  BY <1>1
<1>4. s \in Seq(S) /\ Len(s) = n /\ DOMAIN s = 1 .. n
  <2>1. s \in [1 .. n -> S]
    BY <1>1, <1>2, <1>3
  <2>2. s \in Seq(S)
    BY <1>1, <2>1, IsASeq, SMTT(30)
  <2>. QED BY <1>1, <2>1, <2>2, LenProperties
<1>5. s[n] = r[e]
  BY <1>1, <1>2
<1>6. \A i, j \in 1 .. n : s[i] = s[j] => i = j
  <2>. SUFFICES ASSUME NEW i \in 1 .. n, NEW j \in 1 .. n, s[i] = s[j]
                PROVE  i = j
    OBVIOUS
  <2>1. place(i) = place(j)
    BY <1>1, <1>2, <1>3
  <2>. QED BY <1>1, <2>1
<1>7. ASSUME NEW i \in 1 .. n
      PROVE  /\ next[s[i]] = s[IF i = n THEN 1 ELSE i + 1]
             /\ previous[s[IF i = n THEN 1 ELSE i + 1]] = s[i]
  <2>1. PICK k \in 1 .. n : k = (IF i = n THEN 1 ELSE i + 1)
    BY <1>1
  <2>2. PICK p \in 1 .. n : p = place(i)
    BY <1>3
  <2>3. place(k) = IF p = n THEN 1 ELSE p + 1
    BY <1>1, <2>1, <2>2
  <2>4. s[i] = r[p] /\ s[k] = r[place(k)]
    BY <1>2, <2>1, <2>2
  <2>. QED BY <1>1, <2>1, <2>3, <2>4
<1>8. \A y : Contains(s, y) <=> Contains(r, y)
  <2>1. ASSUME NEW i \in 1 .. n
        PROVE  \E k \in 1 .. n : place(k) = i
    <3>1. CASE i > e
      <4>1. i - e \in 1 .. n /\ place(i - e) = i
        BY <1>1, <3>1
      <4>. QED BY <4>1
    <3>2. CASE i <= e
      <4>1. i - e + n \in 1 .. n /\ place(i - e + n) = i
        BY <1>1, <3>2
      <4>. QED BY <4>1
    <3>. QED BY <1>1, <3>1, <3>2
  <2>2. ASSUME NEW y, Contains(r, y)
        PROVE  Contains(s, y)
    <3>1. PICK i \in 1 .. n : r[i] = y
      BY <2>2 DEF Contains, n
    <3>2. PICK k \in 1 .. n : place(k) = i
      BY <2>1
    <3>. QED BY <1>2, <1>4, <3>1, <3>2 DEF Contains
  <2>3. ASSUME NEW y, Contains(s, y)
        PROVE  Contains(r, y)
    <3>1. PICK k \in 1 .. n : s[k] = y
      BY <1>4, <2>3 DEF Contains
    <3>. QED BY <1>2, <1>3, <3>1 DEF Contains, n
  <2>. QED BY <2>2, <2>3
<1>9. IsRing(next, previous, s)
  <2>1. s # <<>>
    BY <1>1, <1>4, EmptySeq
  <2>2. IsInjective(s)
    BY <1>4, <1>6 DEF IsInjective
  <2>. QED BY <1>4, <1>7, <2>1, <2>2 DEF IsRing, NextPlace
<1>. QED BY <1>4, <1>5, <1>8, <1>9 DEF s, n

(* A node is linked in between two neighbours: before place p of r, or after
   the last where p is beyond it. *)
LEMMA RingInserted ==
  ASSUME NEW S, NEW r \in Seq(S), NEW next, NEW previous,
         IsRing(next, previous, r),
         NEW x \in S, ~Contains(r, x), NEW p \in 1 .. (Len(r) + 1),
         NEW y, y = IF p = 1 THEN r[Len(r)] ELSE r[p - 1],
         NEW next2, NEW previous2,
         next2[y] = x, next2[x] = next[y],
         \A n \in S : n # x /\ n # y => next2[n] = next[n],
         previous2[next[y]] = x, previous2[x] = y,
         \A n \in S : n # x /\ n # next[y] => previous2[n] = previous[n]
  PROVE  IsRing(next2, previous2, InsertAt(r, p, x))
<1> DEFINE n == Len(r)
           s == InsertAt(r, p, x)
           q == IF p = 1 THEN n ELSE p - 1
           t == IF q = n THEN 1 ELSE q + 1
<1>1. /\ n \in Nat /\ n >= 1 /\ p \in 1 .. n + 1
      /\ \A i \in 1 .. n : r[i] \in S /\ r[i] # x
      /\ \A i, j \in 1 .. n : r[i] = r[j] => i = j
      /\ \A i \in 1 .. n : /\ next[r[i]] = r[IF i = n THEN 1 ELSE i + 1]
                           /\ previous[r[IF i = n THEN 1 ELSE i + 1]] = r[i]
  BY RingPlaces DEF IsRing, NextPlace, Contains
<1>2. /\ s \in Seq(S) /\ Len(s) = n + 1
      /\ \A i \in 1 .. n + 1 :
            s[i] = IF i < p THEN r[i] ELSE IF i = p THEN x ELSE r[i - 1]
  <2>1. p \in 1 .. (Len(r) + 1)
    OBVIOUS
  <2>. HIDE DEF n
  <2>2. /\ s \in Seq(S) /\ Len(s) = Len(r) + 1
        /\ \A i \in 1 .. (Len(r) + 1) :
              s[i] = IF i < p THEN r[i] ELSE IF i = p THEN x ELSE r[i - 1]
    BY <2>1, InsertAtProperties
  <2>. QED BY <2>2 DEF n
<1>3. DOMAIN s = 1 .. n + 1 /\ s # <<>>
  BY <1>1, <1>2, LenProperties, EmptySeq
<1>4. q \in 1 .. n /\ t \in 1 .. n /\ y = r[q] /\ next[y] = r[t]
  BY <1>1
<1>. HIDE DEF n, s
<1>5. IsInjective(s)
  <2>1. ASSUME NEW i \in 1 .. n + 1, i # p
        PROVE  \E k \in 1 .. n : /\ k = IF i < p THEN i ELSE i - 1
                                 /\ s[i] = r[k] /\ s[i] # x
    <3>1. PICK k \in 1 .. n : k = IF i < p THEN i ELSE i - 1
      BY <1>1, <2>1
    <3>2. s[i] = r[k]
      BY <1>1, <1>2, <2>1, <3>1
    <3>. QED BY <1>1, <3>1, <3>2
  <2>2. s[p] = x
    BY <1>1, <1>2
  <2>3. ASSUME NEW i \in 1 .. n + 1, NEW j \in 1 .. n + 1, s[i] = s[j]
        PROVE  i = j
    <3>1. CASE i # p /\ j # p
      <4>1. PICK k \in 1 .. n :
            /\ k = IF i < p THEN i ELSE i - 1
            /\ s[i] = r[k]
        BY <2>1, <3>1
      <4>2. PICK m \in 1 .. n :
            /\ m = IF j < p THEN j ELSE j - 1
            /\ s[j] = r[m]
        BY <2>1, <3>1
      <4>3. r[k] = r[m]
        BY <2>3, <4>1, <4>2
      <4>4. k = m
        BY <1>1, <4>3
      <4>. QED BY <1>1, <3>1, <4>1, <4>2, <4>4
    <3>2. CASE i = p \/ j = p
      BY <2>1, <2>2, <2>3, <3>2
    <3>. QED BY <3>1, <3>2
  <2>. QED BY <1>3, <2>3 DEF IsInjective
<1>6. ASSUME NEW i \in 1 .. n + 1
      PROVE  /\ next2[s[i]] = s[IF i = n + 1 THEN 1 ELSE i + 1]
             /\ previous2[s[IF i = n + 1 THEN 1 ELSE i + 1]] = s[i]
  <2>1. PICK k \in 1 .. n + 1 : k = (IF i = n + 1 THEN 1 ELSE i + 1)
    BY <1>1
  <2>2. CASE i = p
    <3>1. s[i] = x
      BY <1>2, <2>2
    <3>2. s[k] = r[t]
      BY <1>1, <1>2, <2>1, <2>2
    <3>. QED BY <1>4, <2>1, <3>1, <3>2
  <2>3. CASE i = IF p = 1 THEN n + 1 ELSE p - 1
    <3>1. k = p /\ s[k] = x
      BY <1>1, <1>2, <2>1, <2>3
    <3>2. s[i] = r[q]
      BY <1>1, <1>2, <2>3
    <3>. QED BY <1>4, <2>1, <3>1, <3>2
  <2>4. CASE i # p /\ i # IF p = 1 THEN n + 1 ELSE p - 1
    <3>1. PICK j \in 1 .. n : j = IF i < p THEN i ELSE i - 1
      BY <1>1, <2>4
    <3>2. PICK u \in 1 .. n : u = IF j = n THEN 1 ELSE j + 1
      BY <1>1
    <3>3. j # q /\ u # t
      BY <1>1, <2>4, <3>1, <3>2
    <3>4. s[i] = r[j] /\ s[k] = r[u]
      <4>1. s[i] = r[j]
        BY <1>1, <1>2, <2>4, <3>1
      <4>2. IF k < p THEN u = k ELSE k # p /\ u = k - 1
        BY <1>1, <2>1, <2>4, <3>1, <3>2
      <4>3. CASE k < p
        BY <1>2, <4>1, <4>2, <4>3
      <4>4. CASE ~(k < p)
        BY <1>2, <4>1, <4>2, <4>4
      <4>. QED BY <4>3, <4>4
    <3>5. r[j] # r[q] /\ r[u] # r[t] /\ r[j] # x /\ r[u] # x
      BY <1>1, <1>4, <3>3
    <3>6. r[j] \in S /\ r[u] \in S /\ next[r[j]] = r[u] /\ previous[r[u]] = r[j]
      BY <1>1, <3>2
    <3>7. next2[r[j]] = r[u] /\ previous2[r[u]] = r[j]
      BY <1>4, <3>5, <3>6
    <3>. QED BY <2>1, <3>4, <3>7
  <2>. QED BY <2>2, <2>3, <2>4
<1>. QED BY <1>2, <1>3, <1>5, <1>6 DEF IsRing, NextPlace, s

(* The node at place q is taken out; its neighbours are linked. *)
LEMMA RingRemoved ==
  ASSUME NEW S, NEW r \in Seq(S), NEW next, NEW previous,
         IsRing(next, previous, r), Len(r) > 1, NEW q \in 1 .. Len(r),
         NEW next2, NEW previous2,
         next2[previous[r[q]]] = next[r[q]],
         \A n \in S : n # previous[r[q]] => next2[n] = next[n],
         previous2[next[r[q]]] = previous[r[q]],
         \A n \in S : n # next[r[q]] => previous2[n] = previous[n]
  PROVE  IsRing(next2, previous2, RemoveAt(r, q))
<1> DEFINE n == Len(r)
           s == RemoveAt(r, q)
           b == IF q = 1 THEN n ELSE q - 1
           a == IF q = n THEN 1 ELSE q + 1
<1>1. /\ n \in Nat /\ n > 1 /\ q \in 1 .. n
      /\ \A i \in 1 .. n : r[i] \in S
      /\ \A i, j \in 1 .. n : r[i] = r[j] => i = j
      /\ \A i \in 1 .. n : /\ next[r[i]] = r[IF i = n THEN 1 ELSE i + 1]
                           /\ previous[r[IF i = n THEN 1 ELSE i + 1]] = r[i]
  BY RingPlaces DEF IsRing, NextPlace
<1>2. /\ s \in Seq(S) /\ Len(s) = n - 1
      /\ \A i \in 1 .. n - 1 : s[i] = IF i < q THEN r[i] ELSE r[i + 1]
  BY RemoveAtProperties
<1>3. DOMAIN s = 1 .. n - 1 /\ s # <<>>
  BY <1>1, <1>2, LenProperties, EmptySeq
<1>. HIDE DEF n, s
<1>4. /\ a \in 1 .. n /\ b \in 1 .. n
      /\ next[r[q]] = r[a] /\ previous[r[q]] = r[b]
  <2>1. b \in 1 .. n /\ (IF b = n THEN 1 ELSE b + 1) = q
    BY <1>1
  <2>. HIDE DEF b
  <2>. QED BY <1>1, <2>1
<1>5. IsInjective(s)
  <2>1. ASSUME NEW i \in 1 .. n - 1, NEW j \in 1 .. n - 1, s[i] = s[j]
        PROVE  i = j
    <3>1. PICK k \in 1 .. n : k = IF i < q THEN i ELSE i + 1
      BY <1>1
    <3>2. PICK m \in 1 .. n : m = IF j < q THEN j ELSE j + 1
      BY <1>1
    <3>3. r[k] = r[m]
      BY <1>2, <2>1, <3>1, <3>2
    <3>4. k = m
      BY <1>1, <3>3
    <3>. QED BY <3>1, <3>2, <3>4
  <2>. QED BY <1>3, <2>1 DEF IsInjective
<1>6. ASSUME NEW i \in 1 .. n - 1
      PROVE  /\ next2[s[i]] = s[IF i = n - 1 THEN 1 ELSE i + 1]
             /\ previous2[s[IF i = n - 1 THEN 1 ELSE i + 1]] = s[i]
  <2>1. PICK k \in 1 .. n - 1 : k = (IF i = n - 1 THEN 1 ELSE i + 1)
    BY <1>1
  <2>2. PICK j \in 1 .. n : j = IF i < q THEN i ELSE i + 1
    BY <1>1
  <2>3. PICK u \in 1 .. n : u = IF k < q THEN k ELSE k + 1
    BY <1>1
  <2>4. s[i] = r[j] /\ s[k] = r[u]
    BY <1>2, <2>1, <2>2, <2>3
  <2>5. j # q /\ u # q
    BY <2>2, <2>3
  <2>6. CASE j = b
    <3>1. u = a
      BY <1>1, <2>1, <2>2, <2>3, <2>6
    <3>. QED BY <1>4, <2>1, <2>4, <2>6, <3>1
  <2>7. CASE j # b
    <3>1. u = (IF j = n THEN 1 ELSE j + 1) /\ u # a
      BY <1>1, <2>1, <2>2, <2>3, <2>7
    <3>2. r[j] # r[b] /\ r[u] # r[a] /\ r[j] \in S /\ r[u] \in S
      BY <1>1, <1>4, <2>7, <3>1
    <3>3. next[r[j]] = r[u] /\ previous[r[u]] = r[j]
      BY <1>1, <3>1
    <3>4. next2[r[j]] = r[u] /\ previous2[r[u]] = r[j]
      BY <1>4, <3>2, <3>3
    <3>. QED BY <2>1, <2>4, <3>4
  <2>. QED BY <2>6, <2>7
<1>. QED BY <1>2, <1>3, <1>5, <1>6 DEF IsRing, NextPlace, s

-----------------------------------------------------------------------------
(* Rings without their marker, which is at place q: the views. *)

LEMMA RemoveAtPlace ==
  ASSUME NEW S, NEW r \in Seq(S), IsInjective(r), NEW q \in 1 .. Len(r)
  PROVE  ViewRemove(r, r[q]) = RemoveAt(r, q)
<1> DEFINE I == {i \in 1 .. Len(r) : r[i] = r[q]}
<1>1. I = {q}
  <2>1. DOMAIN r = 1 .. Len(r)
    BY LenProperties
  <2>. QED BY <2>1 DEF IsInjective
<1>2. Min(I) = q
  BY <1>1 DEF Min
<1>3. SelectInSeq(r, LAMBDA v : v = r[q]) = q
  BY <1>1, <1>2 DEF SelectInSeq
<1>4. Contains(r, r[q])
  BY DEF Contains
<1>. QED BY <1>3, <1>4 DEF ViewRemove, RemoveFirst, Contains

(* A node linked in after the last place, where pxIndex moves to it. *)
LEMMA InsertEndView ==
  ASSUME NEW S, NEW r \in Seq(S), NEW q \in 1 .. Len(r), NEW x \in S
  PROVE  /\ InsertAt(r, Len(r) + 1, x)[q] = r[q]
         /\ InsertAt(r, Len(r) + 1, x)[Len(r) + 1] = x
         /\ RemoveAt(InsertAt(r, Len(r) + 1, x), q)
              = Append(RemoveAt(r, q), x)
<1>0. PICK n \in Nat : n = Len(r)
  BY LenProperties
<1>1. PICK s : s = InsertAt(r, n + 1, x)
  BY <1>0
<1>2. PICK v : v = RemoveAt(r, q)
  OBVIOUS
<1>3. PICK w : w = RemoveAt(s, q)
  OBVIOUS
<1>4. PICK u : u = Append(v, x)
  OBVIOUS
<1>5. /\ s \in Seq(S) /\ Len(s) = n + 1
      /\ \A i \in 1 .. n : s[i] = r[i]
      /\ s[n + 1] = x
  <2>1. n + 1 \in 1 .. n + 1 /\ n + 1 \in Nat
    BY <1>0
  <2>2. PICK k \in 1 .. (Len(r) + 1) : k = n + 1
    BY <1>0, <2>1
  <2>3. /\ InsertAt(r, k, x) \in Seq(S)
        /\ Len(InsertAt(r, k, x)) = Len(r) + 1
        /\ \A i \in 1 .. (Len(r) + 1) :
              InsertAt(r, k, x)[i] = IF i < k THEN r[i]
                                     ELSE IF i = k THEN x ELSE r[i - 1]
    BY InsertAtProperties
  <2>4. s = InsertAt(r, k, x)
    BY <1>0, <1>1, <2>2
  <2>. QED BY <1>0, <2>1, <2>2, <2>3, <2>4
<1>6. /\ v \in Seq(S) /\ Len(v) = n - 1
      /\ \A i \in 1 .. n - 1 : v[i] = IF i < q THEN r[i] ELSE r[i + 1]
  <2>1. /\ v \in Seq(S) /\ Len(v) = Len(r) - 1
        /\ \A i \in 1 .. (Len(r) - 1) : v[i] = IF i < q THEN r[i] ELSE r[i + 1]
    BY <1>0, <1>2, RemoveAtProperties
  <2>. QED BY <1>0, <2>1
<1>7. /\ w \in Seq(S) /\ Len(w) = n
      /\ \A i \in 1 .. n : w[i] = IF i < q THEN s[i] ELSE s[i + 1]
  <2>1. q \in 1 .. Len(s)
    BY <1>0, <1>5
  <2>2. /\ w \in Seq(S) /\ Len(w) = Len(s) - 1
        /\ \A i \in 1 .. (Len(s) - 1) : w[i] = IF i < q THEN s[i] ELSE s[i + 1]
    BY <1>0, <1>3, <1>5, <2>1, RemoveAtProperties
  <2>. QED BY <1>0, <1>5, <2>2
<1>8. /\ u \in Seq(S) /\ Len(u) = n
      /\ \A i \in 1 .. n : u[i] = IF i = n THEN x ELSE v[i]
  BY <1>0, <1>4, <1>6, AppendProperties
<1>9. ASSUME NEW i \in 1 .. n
      PROVE  w[i] = u[i]
  <2>1. CASE i = n
    BY <1>0, <1>5, <1>7, <1>8, <2>1
  <2>2. CASE i < q
    <3>1. w[i] = r[i]
      BY <1>0, <1>5, <1>7, <2>2
    <3>2. i \in 1 .. n - 1
      BY <1>0, <2>2
    <3>. QED BY <1>0, <1>6, <1>8, <2>2, <3>1, <3>2
  <2>3. CASE i # n /\ ~(i < q)
    <3>1. i + 1 \in 1 .. n /\ i \in 1 .. n - 1
      BY <1>0, <2>3
    <3>2. w[i] = r[i + 1]
      BY <1>0, <1>5, <1>7, <2>3, <3>1
    <3>. QED BY <1>0, <1>6, <1>8, <2>3, <3>1, <3>2
  <2>. QED BY <1>0, <2>1, <2>2, <2>3
<1>10. w = u
  BY <1>0, <1>7, <1>8, <1>9, SeqEqual
<1>. QED BY <1>0, <1>1, <1>2, <1>3, <1>4, <1>5, <1>10

(* A node linked in before place p, where the marker is the last. *)
LEMMA InsertView ==
  ASSUME NEW S, NEW r \in Seq(S), NEW p \in 1 .. Len(r), NEW x \in S
  PROVE  /\ InsertAt(r, p, x)[Len(r) + 1] = r[Len(r)]
         /\ RemoveAt(InsertAt(r, p, x), Len(r) + 1)
              = InsertAt(RemoveAt(r, Len(r)), p, x)
<1>0. PICK n \in Nat : n = Len(r)
  BY LenProperties
<1>1. PICK s : s = InsertAt(r, p, x)
  BY <1>0
<1>2. PICK v : v = RemoveAt(r, n)
  OBVIOUS
<1>3. PICK w : w = RemoveAt(s, n + 1)
  OBVIOUS
<1>4. PICK u : u = InsertAt(v, p, x)
  OBVIOUS
<1>5. PICK m \in Nat : m = n - 1
  BY <1>0
<1>6. PICK k \in Nat : k = n + 1
  BY <1>0
<1>7. /\ s \in Seq(S) /\ Len(s) = n + 1
      /\ \A i \in 1 .. n + 1 :
            s[i] = IF i < p THEN r[i] ELSE IF i = p THEN x ELSE r[i - 1]
  <2>1. p \in 1 .. (Len(r) + 1)
    BY <1>0
  <2>2. /\ InsertAt(r, p, x) \in Seq(S)
        /\ Len(InsertAt(r, p, x)) = Len(r) + 1
        /\ \A i \in 1 .. (Len(r) + 1) :
              InsertAt(r, p, x)[i] = IF i < p THEN r[i]
                                     ELSE IF i = p THEN x ELSE r[i - 1]
    BY <2>1, InsertAtProperties, SMTT(30)
  <2>. QED BY <1>0, <1>1, <2>2
<1>8. /\ v \in Seq(S) /\ Len(v) = m
      /\ \A i \in 1 .. m : v[i] = r[i]
  <2>1. n \in 1 .. Len(r)
    BY <1>0
  <2>2. /\ v \in Seq(S) /\ Len(v) = Len(r) - 1
        /\ \A i \in 1 .. (Len(r) - 1) : v[i] = IF i < n THEN r[i] ELSE r[i + 1]
    BY <1>0, <1>2, <2>1, RemoveAtProperties
  <2>. QED BY <1>0, <1>5, <2>2
<1>9. /\ w \in Seq(S) /\ Len(w) = n
      /\ \A i \in 1 .. n : w[i] = s[i]
  <2>1. k \in 1 .. Len(s) /\ w = RemoveAt(s, k)
    BY <1>0, <1>3, <1>6, <1>7
  <2>2. /\ w \in Seq(S) /\ Len(w) = Len(s) - 1
        /\ \A i \in 1 .. (Len(s) - 1) : w[i] = IF i < k THEN s[i] ELSE s[i + 1]
    BY <1>0, <1>7, <2>1, RemoveAtProperties
  <2>. QED BY <1>0, <1>6, <1>7, <2>2
<1>10. /\ u \in Seq(S) /\ Len(u) = n
       /\ \A i \in 1 .. n :
             u[i] = IF i < p THEN v[i] ELSE IF i = p THEN x ELSE v[i - 1]
  <2>1. p \in 1 .. (Len(v) + 1)
    BY <1>0, <1>5, <1>8
  <2>2. v \in Seq(S)
    BY <1>0, <1>8
  <2>3. /\ InsertAt(v, p, x) \in Seq(S)
        /\ Len(InsertAt(v, p, x)) = Len(v) + 1
        /\ \A i \in 1 .. (Len(v) + 1) :
              InsertAt(v, p, x)[i] = IF i < p THEN v[i]
                                     ELSE IF i = p THEN x ELSE v[i - 1]
    BY <2>1, <2>2, InsertAtProperties
  <2>4. Len(v) + 1 = n
    BY <1>0, <1>5, <1>8
  <2>. QED BY <1>4, <2>3, <2>4
<1>11. ASSUME NEW i \in 1 .. n
       PROVE  w[i] = u[i]
  <2>1. i \in 1 .. n + 1
    BY <1>0
  <2>2. w[i] = IF i < p THEN r[i] ELSE IF i = p THEN x ELSE r[i - 1]
    BY <1>0, <1>7, <1>9, <2>1
  <2>3. i < p => i \in 1 .. m
    BY <1>0, <1>5
  <2>4. i > p => i - 1 \in 1 .. m
    BY <1>0, <1>5
  <2>5. ~(i < p) /\ i # p => i > p
    BY <1>0
  <2>. QED BY <1>0, <1>8, <1>10, <2>2, <2>3, <2>4, <2>5
<1>12. w = u
  BY <1>0, <1>9, <1>10, <1>11, SeqEqual
<1>13. s[n + 1] = r[n]
  BY <1>0, <1>7
<1>. QED BY <1>0, <1>1, <1>2, <1>3, <1>4, <1>12, <1>13

(* Two nodes are taken out, in either order. *)
LEMMA RemoveTwice ==
  ASSUME NEW S, NEW r \in Seq(S), NEW a \in 1 .. Len(r), NEW b \in 1 .. Len(r),
         a < b
  PROVE  RemoveAt(RemoveAt(r, b), a) = RemoveAt(RemoveAt(r, a), b - 1)
<1>1. PICK s : s = RemoveAt(r, b)
  OBVIOUS
<1>2. PICK t : t = RemoveAt(r, a)
  OBVIOUS
<1>3. PICK c \in Int : c = b - 1
  OBVIOUS
<1>4. PICK v : v = RemoveAt(s, a)
  OBVIOUS
<1>5. PICK w : w = RemoveAt(t, c)
  OBVIOUS
<1>6. PICK n \in Nat : n = Len(r) /\ a \in 1 .. n /\ b \in 1 .. n
  BY LenProperties
<1>7. /\ s \in Seq(S) /\ Len(s) = n - 1
      /\ \A i \in 1 .. n - 1 : s[i] = IF i < b THEN r[i] ELSE r[i + 1]
  <2>1. /\ s \in Seq(S) /\ Len(s) = Len(r) - 1
        /\ \A i \in 1 .. (Len(r) - 1) : s[i] = IF i < b THEN r[i] ELSE r[i + 1]
    BY <1>1, RemoveAtProperties
  <2>. QED BY <1>6, <2>1
<1>8. /\ t \in Seq(S) /\ Len(t) = n - 1
      /\ \A i \in 1 .. n - 1 : t[i] = IF i < a THEN r[i] ELSE r[i + 1]
  <2>1. /\ t \in Seq(S) /\ Len(t) = Len(r) - 1
        /\ \A i \in 1 .. (Len(r) - 1) : t[i] = IF i < a THEN r[i] ELSE r[i + 1]
    BY <1>2, RemoveAtProperties
  <2>. QED BY <1>6, <2>1
<1>9. /\ v \in Seq(S) /\ Len(v) = n - 2
      /\ \A i \in 1 .. n - 2 : v[i] = IF i < a THEN s[i] ELSE s[i + 1]
  <2>1. a \in 1 .. Len(s)
    BY <1>6, <1>7
  <2>2. /\ v \in Seq(S) /\ Len(v) = Len(s) - 1
        /\ \A i \in 1 .. (Len(s) - 1) : v[i] = IF i < a THEN s[i] ELSE s[i + 1]
    BY <1>4, <1>7, <2>1, RemoveAtProperties
  <2>. QED BY <1>6, <1>7, <2>2
<1>10. /\ w \in Seq(S) /\ Len(w) = n - 2
       /\ \A i \in 1 .. n - 2 : w[i] = IF i < c THEN t[i] ELSE t[i + 1]
  <2>1. c \in 1 .. Len(t)
    BY <1>3, <1>6, <1>8
  <2>2. /\ w \in Seq(S) /\ Len(w) = Len(t) - 1
        /\ \A i \in 1 .. (Len(t) - 1) : w[i] = IF i < c THEN t[i] ELSE t[i + 1]
    BY <1>5, <1>8, <2>1, RemoveAtProperties
  <2>. QED BY <1>6, <1>8, <2>2
<1>11. ASSUME NEW i \in 1 .. n - 2
       PROVE  v[i] = w[i]
  <2>1. PICK j \in 1 .. n - 1 : j = i + 1
    BY <1>6
  <2>2. i \in 1 .. n - 1
    BY <1>6
  <2>3. CASE i < a
    BY <1>3, <1>7, <1>8, <1>9, <1>10, <2>2, <2>3
  <2>4. CASE ~(i < a) /\ i < c
    BY <1>3, <1>7, <1>8, <1>9, <1>10, <2>1, <2>2, <2>4
  <2>5. CASE ~(i < c)
    <3>1. v[i] = s[j] /\ w[i] = t[j] /\ ~(j < a) /\ ~(j < b)
      BY <1>3, <1>9, <1>10, <2>1, <2>5
    <3>. QED BY <1>7, <1>8, <3>1
  <2>. QED BY <2>3, <2>4, <2>5
<1>12. v = w
  BY <1>9, <1>10, <1>11, SeqEqual
<1>. QED BY <1>1, <1>2, <1>3, <1>4, <1>5, <1>12

(* A node other than the marker is taken out. *)
LEMMA RemoveView ==
  ASSUME NEW S, NEW r \in Seq(S), IsInjective(r),
         NEW q \in 1 .. Len(r), NEW i \in 1 .. Len(r), i # q,
         NEW m, m = IF q < i THEN q ELSE q - 1
  PROVE  /\ m \in 1 .. Len(RemoveAt(r, i))
         /\ RemoveAt(r, i)[m] = r[q]
         /\ ViewRemove(RemoveAt(r, q), r[i]) = RemoveAt(RemoveAt(r, i), m)
<1>1. PICK n \in Nat : n = Len(r) /\ i \in 1 .. n /\ q \in 1 .. n
  BY LenProperties
<1>2. PICK s : s = RemoveAt(r, i)
  OBVIOUS
<1>3. PICK v : v = RemoveAt(r, q)
  OBVIOUS
<1>4. PICK j \in 1 .. n - 1 : j = IF i < q THEN i ELSE i - 1
  BY <1>1
<1>5. /\ s \in Seq(S) /\ Len(s) = n - 1
      /\ \A k \in 1 .. n - 1 : s[k] = IF k < i THEN r[k] ELSE r[k + 1]
  <2>1. /\ s \in Seq(S) /\ Len(s) = Len(r) - 1
        /\ \A k \in 1 .. (Len(r) - 1) : s[k] = IF k < i THEN r[k] ELSE r[k + 1]
    BY <1>2, RemoveAtProperties
  <2>. QED BY <1>1, <2>1
<1>6. /\ v \in Seq(S) /\ Len(v) = n - 1
      /\ \A k \in 1 .. n - 1 : v[k] = IF k < q THEN r[k] ELSE r[k + 1]
  <2>1. /\ v \in Seq(S) /\ Len(v) = Len(r) - 1
        /\ \A k \in 1 .. (Len(r) - 1) : v[k] = IF k < q THEN r[k] ELSE r[k + 1]
    BY <1>3, RemoveAtProperties
  <2>. QED BY <1>1, <2>1
<1>7. m \in 1 .. n - 1 /\ s[m] = r[q]
  <2>1. m \in 1 .. n - 1
    BY <1>1
  <2>. QED BY <1>1, <1>5, <2>1
<1>8. v[j] = r[i]
  BY <1>1, <1>4, <1>6
<1>9. IsInjective(v)
  <2>1. \A k, l \in 1 .. n : r[k] = r[l] => k = l
    BY <1>1, LenProperties DEF IsInjective
  <2>2. ASSUME NEW k \in 1 .. n - 1, NEW l \in 1 .. n - 1, v[k] = v[l]
        PROVE  k = l
    <3>1. PICK a \in 1 .. n : a = IF k < q THEN k ELSE k + 1
      BY <1>1
    <3>2. PICK b \in 1 .. n : b = IF l < q THEN l ELSE l + 1
      BY <1>1
    <3>3. r[a] = r[b]
      BY <1>6, <2>2, <3>1, <3>2
    <3>4. a = b
      BY <2>1, <3>3
    <3>. QED BY <3>1, <3>2, <3>4
  <2>3. DOMAIN v = 1 .. n - 1
    BY <1>6, LenProperties
  <2>. QED BY <2>2, <2>3 DEF IsInjective
<1>10. ViewRemove(v, v[j]) = RemoveAt(v, j)
  <2>1. j \in 1 .. Len(v) /\ v \in Seq(S)
    BY <1>1, <1>6
  <2>. QED BY <1>9, <2>1, RemoveAtPlace
<1>11. RemoveAt(v, j) = RemoveAt(s, m)
  <2>1. CASE i < q
    <3>1. RemoveAt(RemoveAt(r, q), i) = RemoveAt(RemoveAt(r, i), q - 1)
      BY <2>1, RemoveTwice
    <3>2. j = i /\ m = q - 1
      BY <1>1, <1>4, <2>1
    <3>. QED BY <1>2, <1>3, <3>1, <3>2
  <2>2. CASE q < i
    <3>1. RemoveAt(RemoveAt(r, i), q) = RemoveAt(RemoveAt(r, q), i - 1)
      BY <2>2, RemoveTwice
    <3>2. j = i - 1 /\ m = q
      BY <1>1, <1>4, <2>2
    <3>. QED BY <1>2, <1>3, <3>1, <3>2
  <2>. QED BY <1>1, <2>1, <2>2
<1>. QED BY <1>2, <1>3, <1>5, <1>7, <1>8, <1>10, <1>11

(* The index steps to the next node, the marker skipped. *)
LEMMA NextView ==
  ASSUME NEW S, NEW r \in Seq(S), Len(r) > 1, NEW q \in 1 .. Len(r),
         NEW e, e = IF q = 1 THEN 2 ELSE 1,
         NEW m, m = IF q = 1 THEN Len(r) - 1 ELSE q - 1
  PROVE  /\ m \in 1 .. Len(r)
         /\ Rotated(r, e)[m] = r[q]
         /\ RemoveAt(Rotated(r, e), m) = ViewNext(RemoveAt(r, q))
         /\ RemoveAt(r, q) # <<>>
         /\ Head(RemoveAt(r, q)) = r[e]
<1>1. PICK n \in Nat : n = Len(r) /\ n > 1 /\ q \in 1 .. n
  BY LenProperties
<1>2. PICK s : s = Rotated(r, e)
  OBVIOUS
<1>3. PICK v : v = RemoveAt(r, q)
  OBVIOUS
<1>4. PICK w : w = RemoveAt(s, m)
  OBVIOUS
<1>5. PICK u : u = ViewNext(v)
  OBVIOUS
<1>6. /\ e \in 1 .. n /\ m \in 1 .. n - 1
      /\ q = 1 => e = 2 /\ m = n - 1
      /\ q # 1 => e = 1 /\ m = q - 1
  BY <1>1
<1>7. /\ s \in Seq(S) /\ Len(s) = n
      /\ \A i \in 1 .. n : s[i] = IF e + i <= n THEN r[e + i] ELSE r[e + i - n]
  <2>1. \A i \in 1 .. n : r[i] \in S
    BY <1>1, ElementOfSeq
  <2>2. s = [i \in 1 .. n |-> IF e + i <= n THEN r[e + i] ELSE r[e + i - n]]
    BY <1>1, <1>2 DEF Rotated
  <2>3. \A i \in 1 .. n :
           (IF e + i <= n THEN r[e + i] ELSE r[e + i - n]) \in S
    BY <1>6, <2>1
  <2>4. s \in [1 .. n -> S]
    BY <2>2, <2>3
  <2>5. s \in Seq(S)
    BY <1>1, <2>4, IsASeq
  <2>. QED BY <1>1, <2>2, <2>4, <2>5, LenProperties
<1>8. /\ v \in Seq(S) /\ Len(v) = n - 1
      /\ \A i \in 1 .. n - 1 : v[i] = IF i < q THEN r[i] ELSE r[i + 1]
  <2>1. /\ v \in Seq(S) /\ Len(v) = Len(r) - 1
        /\ \A i \in 1 .. (Len(r) - 1) : v[i] = IF i < q THEN r[i] ELSE r[i + 1]
    BY <1>3, RemoveAtProperties
  <2>. QED BY <1>1, <2>1
<1>9. v # <<>>
  BY <1>1, <1>8, EmptySeq
<1>10. /\ w \in Seq(S) /\ Len(w) = n - 1
       /\ \A i \in 1 .. n - 1 : w[i] = IF i < m THEN s[i] ELSE s[i + 1]
  <2>1. m \in 1 .. Len(s)
    BY <1>1, <1>6, <1>7
  <2>2. /\ w \in Seq(S) /\ Len(w) = Len(s) - 1
        /\ \A i \in 1 .. (Len(s) - 1) : w[i] = IF i < m THEN s[i] ELSE s[i + 1]
    BY <1>4, <1>7, <2>1, RemoveAtProperties
  <2>. QED BY <1>7, <2>2
<1>11. /\ u \in Seq(S) /\ Len(u) = n - 1 /\ Head(v) = v[1]
       /\ \A i \in 1 .. n - 1 : u[i] = IF i = n - 1 THEN v[1] ELSE v[i + 1]
  <2>1. PICK h : h = Head(v)
    OBVIOUS
  <2>2. PICK t : t = Tail(v)
    OBVIOUS
  <2>3. /\ h = v[1] /\ h \in S
        /\ t \in Seq(S) /\ Len(t) = n - 2
        /\ \A i \in 1 .. Len(t) : t[i] = v[i + 1]
    BY <1>1, <1>8, <1>9, <2>1, <2>2, HeadTailProperties
  <2>4. u = Append(t, h)
    BY <1>5, <2>1, <2>2 DEF ViewNext
  <2>5. /\ u \in Seq(S) /\ Len(u) = Len(t) + 1
        /\ \A i \in 1 .. Len(t) : u[i] = t[i]
        /\ u[Len(t) + 1] = h
    BY <2>3, <2>4, AppendProperties
  <2>6. Len(t) + 1 = n - 1 /\ n - 2 \in Nat
    BY <1>1, <2>3
  <2>7. ASSUME NEW i \in 1 .. n - 1
        PROVE  u[i] = IF i = n - 1 THEN v[1] ELSE v[i + 1]
    <3>1. CASE i = n - 1
      BY <2>3, <2>5, <2>6, <3>1
    <3>2. CASE i # n - 1
      <4>1. i \in 1 .. Len(t)
        BY <1>1, <2>3, <3>2
      <4>. QED BY <2>3, <2>5, <3>2, <4>1
    <3>. QED BY <3>1, <3>2
  <2>. QED BY <2>1, <2>3, <2>5, <2>6, <2>7
<1>12. v[1] = r[e]
  BY <1>1, <1>6, <1>8
<1>13. s[m] = r[q]
  <2>1. CASE q = 1
    <3>1. ~(e + m <= n) /\ e + m - n = q /\ m \in 1 .. n
      BY <1>1, <1>6, <2>1
    <3>. QED BY <1>7, <3>1
  <2>2. CASE q # 1
    <3>1. e + m <= n /\ e + m = q /\ m \in 1 .. n
      BY <1>1, <1>6, <2>2
    <3>. QED BY <1>7, <3>1
  <2>. QED BY <2>1, <2>2
<1>14. ASSUME NEW i \in 1 .. n - 1
       PROVE  w[i] = u[i]
  <2>1. CASE i = n - 1
    <3>1. u[i] = r[e]
      BY <1>11, <1>12, <2>1
    <3>2. w[i] = s[n]
      BY <1>1, <1>6, <1>10, <2>1
    <3>3. s[n] = r[e]
      BY <1>1, <1>6, <1>7, SMTT(30)
    <3>. QED BY <3>1, <3>2, <3>3
  <2>2. CASE i # n - 1
    <3>1. PICK k \in 1 .. n - 1 : k = i + 1
      BY <1>1, <2>2
    <3>2. u[i] = v[k]
      BY <1>11, <2>2, <3>1
    <3>3. CASE q = 1
      <4>1. i < m /\ i \in 1 .. n /\ e + i <= n
        BY <1>1, <1>6, <2>2, <3>3
      <4>2. w[i] = r[e + i]
        BY <1>7, <1>10, <4>1
      <4>3. v[k] = r[k + 1] /\ e + i = k + 1
        BY <1>1, <1>6, <1>8, <3>1, <3>3
      <4>. QED BY <3>2, <4>2, <4>3
    <3>4. CASE q # 1 /\ i < m
      <4>1. i \in 1 .. n /\ e + i <= n /\ e + i = k /\ k < q
        BY <1>1, <1>6, <2>2, <3>1, <3>4
      <4>2. w[i] = r[k]
        BY <1>7, <1>10, <3>4, <4>1
      <4>. QED BY <1>8, <3>1, <3>2, <4>1, <4>2
    <3>5. CASE q # 1 /\ ~(i < m)
      <4>1. k \in 1 .. n /\ e + k <= n /\ e + k = k + 1 /\ ~(k < q)
        BY <1>1, <1>6, <2>2, <3>1, <3>5
      <4>2. w[i] = s[k] /\ s[k] = r[k + 1]
        BY <1>7, <1>10, <3>1, <3>5, <4>1
      <4>. QED BY <1>8, <3>1, <3>2, <4>1, <4>2
    <3>. QED BY <3>3, <3>4, <3>5
  <2>. QED BY <2>1, <2>2
<1>15. w = u
  BY <1>10, <1>11, <1>14, SeqEqual
<1>. QED BY <1>1, <1>2, <1>3, <1>4, <1>5, <1>6, <1>9, <1>11, <1>12, <1>13,
            <1>15

(* What the view of a list is computed from is one of its rings, here with the
   links as parameters, so that it holds before a step and after it. *)
LEMMA RingView ==
  ASSUME NEW S, NEW r \in Seq(S), NEW next, NEW previous,
         IsRing(next, previous, r)
  PROVE  [k \in 1 .. Len(r) - 1 + 1 |->
             Walk(next, next[r[Len(r)]], Len(r) - 1)[k - 1]] = r
<1>1. PICK count \in Nat : count = Len(r) - 1 /\ Len(r) = count + 1
  <2>1. Len(r) \in Nat /\ Len(r) >= 1
    BY RingPlaces DEF IsRing
  <2>. QED BY <2>1
<1>2. next[r[Len(r)]] = r[1]
  <2>1. Len(r) \in 1 .. Len(r)
    BY <1>1
  <2>. QED BY <2>1 DEF IsRing, NextPlace
<1>3. Walk(next, r[1], count) = [k \in 0 .. count |-> r[k + 1]]
  <2>1. Walk(next, r[1], Len(r) - 1) = [k \in 0 .. Len(r) - 1 |-> r[k + 1]]
    BY RingWalk
  <2>. QED BY <1>1, <2>1
<1>4. [k \in 1 .. count + 1 |-> Walk(next, r[1], count)[k - 1]]
        = [k \in 1 .. count + 1 |-> r[k]]
  <2>1. ASSUME NEW k \in 1 .. count + 1
        PROVE  [i \in 0 .. count |-> r[i + 1]][k - 1] = r[k]
    <3>1. k - 1 \in 0 .. count /\ k - 1 + 1 = k
      OBVIOUS
    <3>. QED BY <3>1
  <2>. QED BY <1>3, <2>1
<1>5. DOMAIN r = 1 .. count + 1 /\ r = [k \in DOMAIN r |-> r[k]]
  BY <1>1, LenProperties
<1>. QED BY <1>1, <1>2, <1>4, <1>5

-----------------------------------------------------------------------------
(* The rings of the lists *)

(* r is the ring of list l, its end marker at place q: the first place in the
   lists used first in first out, where pxIndex is the last item, the last one
   in the sorted lists, where pxIndex never leaves the marker. *)
RingAt(l, r, q) ==
  /\ r \in Seq(Node)
  /\ Len(r) = uxNumberOfItems[l] + 1
  /\ IsRing(pxNext, pxPrevious, r)
  /\ \A n : Contains(r, n) <=> n \in Members(l)
  /\ r[Len(r)] = pxIndex[l]
  /\ q \in 1 .. Len(r) /\ r[q] = xListEnd(l)
  /\ l \in Fifo => q = 1
  /\ l \in Sorted => q = Len(r)

(* The inductive invariant: every list is a ring. *)
RingInv ==
  /\ TypeOK
  /\ \A l \in List : \E r \in Seq(Node), q \in Nat : RingAt(l, r, q)

(* A step on list l leaves the other lists alone. *)
Elsewhere(l) ==
  \A k \in List \ {l} :
    /\ Members(k)' = Members(k)
    /\ pxIndex'[k] = pxIndex[k]
    /\ uxNumberOfItems'[k] = uxNumberOfItems[k]
    /\ \A n \in Members(k) : /\ pxNext'[n] = pxNext[n]
                             /\ pxPrevious'[n] = pxPrevious[n]

(* End markers, items and NULL are told apart. *)
LEMMA NodeTypes ==
  /\ \A l \in List : xListEnd(l) \in Node /\ xListEnd(l) \notin Item
  /\ \A l, k \in List : xListEnd(l) = xListEnd(k) => l = k
  /\ \A x \in Item : x \in Node /\ x \notin Ends
  /\ \A l \in List : xListEnd(l) \in Ends
  /\ \A l \in List : l # NULL
  /\ NULL \notin Node
  /\ \A l \in List : Members(l) \subseteq Node
BY NodeAssumption DEF Node, Ends, xListEnd, Members

(* The view of a list is its ring without the marker. *)
LEMMA ViewIs ==
  ASSUME TypeOK, NEW l \in List, NEW r, NEW q, RingAt(l, r, q)
  PROVE  ViewOf(l) = RemoveAt(r, q)
<1>1. /\ r \in Seq(Node) /\ IsRing(pxNext, pxPrevious, r) /\ q \in 1 .. Len(r)
      /\ Len(r) = uxNumberOfItems[l] + 1 /\ pxIndex[l] = r[Len(r)]
      /\ xListEnd(l) = r[q]
  BY DEF RingAt
<1>2. PICK count \in Nat : count = uxNumberOfItems[l]
  BY DEF TypeOK
<1>3. PICK index : index = pxIndex[l]
  OBVIOUS
<1>4. PICK next, previous : next = pxNext /\ previous = pxPrevious
  OBVIOUS
<1>5. PICK ring : ring = RingOf(l)
  OBVIOUS
<1>6. /\ IsRing(next, previous, r) /\ Len(r) = count + 1
      /\ index = r[Len(r)] /\ count = Len(r) - 1
  BY <1>1, <1>2, <1>3, <1>4
<1>7. ring = r
  <2>1. ring = [k \in 1 .. count + 1 |-> Walk(next, next[index], count)[k - 1]]
    BY <1>2, <1>3, <1>4, <1>5 DEF RingOf
  <2>2. [k \in 1 .. Len(r) - 1 + 1 |->
            Walk(next, next[r[Len(r)]], Len(r) - 1)[k - 1]] = r
    BY <1>1, <1>6, RingView
  <2>. QED BY <1>6, <2>1, <2>2
<1>8. (CHOOSE k \in 1 .. count + 1 : ring[k] = xListEnd(l)) = q
  <2>1. \A i, j \in 1 .. Len(r) : r[i] = r[j] => i = j
    BY <1>1, RingPlaces DEF IsRing
  <2>. QED BY <1>1, <1>6, <1>7, <2>1
<1>. QED BY <1>2, <1>5, <1>7, <1>8 DEF ViewOf

LEMMA ViewIsNext ==
  ASSUME TypeOK', NEW l \in List, NEW r, NEW q, RingAt(l, r, q)'
  PROVE  ViewOf(l)' = RemoveAt(r, q)
<1>1. /\ r \in Seq(Node) /\ IsRing(pxNext', pxPrevious', r) /\ q \in 1 .. Len(r)
      /\ Len(r) = uxNumberOfItems'[l] + 1 /\ pxIndex'[l] = r[Len(r)]
      /\ xListEnd(l) = r[q]
  BY DEF RingAt
<1>2. PICK count \in Nat : count = uxNumberOfItems'[l]
  BY DEF TypeOK
<1>3. PICK index : index = pxIndex'[l]
  OBVIOUS
<1>4. PICK next, previous : next = pxNext' /\ previous = pxPrevious'
  OBVIOUS
<1>5. PICK ring : ring = RingOf(l)'
  OBVIOUS
<1>6. /\ IsRing(next, previous, r) /\ Len(r) = count + 1
      /\ index = r[Len(r)] /\ count = Len(r) - 1
  BY <1>1, <1>2, <1>3, <1>4
<1>7. ring = r
  <2>1. ring = [k \in 1 .. count + 1 |-> Walk(next, next[index], count)[k - 1]]
    BY <1>2, <1>3, <1>4, <1>5 DEF RingOf
  <2>2. [k \in 1 .. Len(r) - 1 + 1 |->
            Walk(next, next[r[Len(r)]], Len(r) - 1)[k - 1]] = r
    BY <1>1, <1>6, RingView
  <2>. QED BY <1>6, <2>1, <2>2
<1>8. (CHOOSE k \in 1 .. count + 1 : ring[k] = xListEnd(l)) = q
  <2>1. \A i, j \in 1 .. Len(r) : r[i] = r[j] => i = j
    BY <1>1, RingPlaces DEF IsRing
  <2>. QED BY <1>1, <1>6, <1>7, <2>1
<1>. QED BY <1>2, <1>5, <1>7, <1>8 DEF ViewOf

LEMMA RingElsewhere ==
  ASSUME NEW l, Elsewhere(l), NEW k \in List, k # l,
         NEW r, NEW q, RingAt(k, r, q)
  PROVE  RingAt(k, r, q)'
<1>1. /\ r \in Seq(Node) /\ Len(r) = uxNumberOfItems[k] + 1
      /\ IsRing(pxNext, pxPrevious, r)
      /\ \A n : Contains(r, n) <=> n \in Members(k)
      /\ r[Len(r)] = pxIndex[k]
      /\ q \in 1 .. Len(r) /\ r[q] = xListEnd(k)
      /\ k \in Fifo => q = 1
      /\ k \in Sorted => q = Len(r)
  BY DEF RingAt
<1>2. /\ Members(k)' = Members(k)
      /\ pxIndex'[k] = pxIndex[k]
      /\ uxNumberOfItems'[k] = uxNumberOfItems[k]
      /\ \A n \in Members(k) : /\ pxNext'[n] = pxNext[n]
                               /\ pxPrevious'[n] = pxPrevious[n]
  BY DEF Elsewhere
<1>3. \A i \in 1 .. Len(r) :
         r[i] \in Members(k) /\ NextPlace(r, i) \in 1 .. Len(r)
  BY <1>1, RingPlaces DEF Contains, IsRing
<1>4. IsRing(pxNext', pxPrevious', r)
  BY <1>1, <1>2, <1>3 DEF IsRing
<1>. QED BY <1>1, <1>2, <1>4 DEF RingAt

LEMMA InsertAtContains ==
  ASSUME NEW S, NEW s \in Seq(S), NEW k \in 1 .. (Len(s) + 1), NEW x \in S
  PROVE  \A y : Contains(InsertAt(s, k, x), y) <=> Contains(s, y) \/ y = x
<1>1. PICK r : r = InsertAt(s, k, x)
  OBVIOUS
<1>2. /\ r \in Seq(S)
      /\ Len(r) = Len(s) + 1
      /\ \A i \in 1 .. (Len(s) + 1) :
            r[i] = IF i < k THEN s[i] ELSE IF i = k THEN x ELSE s[i - 1]
  <2>1. /\ InsertAt(s, k, x) \in Seq(S)
        /\ Len(InsertAt(s, k, x)) = Len(s) + 1
        /\ \A i \in 1 .. (Len(s) + 1) :
              InsertAt(s, k, x)[i] = IF i < k THEN s[i]
                                     ELSE IF i = k THEN x ELSE s[i - 1]
    BY InsertAtProperties
  <2>. QED BY <1>1, <2>1
<1>3. Len(s) \in Nat
  BY LenProperties
<1>4. ASSUME NEW y, Contains(r, y), y # x
      PROVE  Contains(s, y)
  <2>1. PICK i \in 1 .. (Len(s) + 1) : r[i] = y
    BY <1>2, <1>4 DEF Contains
  <2>2. CASE i < k
    <3>1. i \in 1 .. Len(s) /\ s[i] = y
      BY <1>2, <1>3, <2>1, <2>2
    <3>. QED BY <3>1 DEF Contains
  <2>3. CASE i > k
    <3>1. i - 1 \in 1 .. Len(s) /\ s[i - 1] = y
      BY <1>2, <1>3, <2>1, <2>3
    <3>. QED BY <3>1 DEF Contains
  <2>4. i # k
    BY <1>2, <1>4, <2>1
  <2>. QED BY <1>3, <2>2, <2>3, <2>4
<1>5. ASSUME NEW y, Contains(s, y)
      PROVE  Contains(r, y)
  <2>1. PICK i \in 1 .. Len(s) : s[i] = y
    BY <1>5 DEF Contains
  <2>2. CASE i < k
    <3>1. i \in 1 .. Len(r) /\ r[i] = y
      BY <1>2, <1>3, <2>1, <2>2
    <3>. QED BY <3>1 DEF Contains
  <2>3. CASE ~(i < k)
    <3>1. PICK j \in 1 .. (Len(s) + 1) : j = i + 1
      BY <1>3, <2>1
    <3>2. j \in 1 .. Len(r) /\ r[j] = s[j - 1] /\ j - 1 = i
      BY <1>2, <1>3, <2>3, <3>1
    <3>. QED BY <2>1, <3>2 DEF Contains
  <2>. QED BY <2>2, <2>3
<1>6. Contains(r, x)
  BY <1>2, <1>3 DEF Contains
<1>. QED BY <1>1, <1>4, <1>5, <1>6

LEMMA RemoveAtContains ==
  ASSUME NEW S, NEW s \in Seq(S), IsInjective(s), NEW k \in 1 .. Len(s)
  PROVE  \A y : Contains(RemoveAt(s, k), y) <=> Contains(s, y) /\ y # s[k]
BY RemoveAtPlace, ViewRemoveProperties

(* What a ring says of the links and the members of its list. *)
LEMMA RingFacts ==
  ASSUME NEW l \in List, NEW r, NEW q, RingAt(l, r, q)
  PROVE  /\ r \in Seq(Node) /\ Len(r) \in Nat /\ Len(r) >= 1
         /\ \A i \in 1 .. Len(r) :
               /\ r[i] \in Members(l) /\ r[i] \in Node
               /\ pxNext[r[i]] = r[IF i = Len(r) THEN 1 ELSE i + 1]
               /\ pxPrevious[r[IF i = Len(r) THEN 1 ELSE i + 1]] = r[i]
               /\ i # q => r[i] \in Item /\ r[i] # xListEnd(l)
         /\ \A i, j \in 1 .. Len(r) : r[i] = r[j] => i = j
         /\ \A n \in Members(l) : \E i \in 1 .. Len(r) : r[i] = n
<1>1. /\ r \in Seq(Node) /\ IsRing(pxNext, pxPrevious, r)
      /\ \A n : Contains(r, n) <=> n \in Members(l)
      /\ q \in 1 .. Len(r) /\ r[q] = xListEnd(l)
  BY DEF RingAt
<1>2. /\ Len(r) \in Nat /\ Len(r) >= 1
      /\ \A i \in 1 .. Len(r) : r[i] \in Node
      /\ \A i, j \in 1 .. Len(r) : r[i] = r[j] => i = j
  BY <1>1, RingPlaces DEF IsRing
<1>3. /\ \A i \in 1 .. Len(r) : r[i] \in Members(l)
      /\ \A n \in Members(l) : \E i \in 1 .. Len(r) : r[i] = n
  BY <1>1 DEF Contains
<1>4. \A i \in 1 .. Len(r) :
         /\ pxNext[r[i]] = r[IF i = Len(r) THEN 1 ELSE i + 1]
         /\ pxPrevious[r[IF i = Len(r) THEN 1 ELSE i + 1]] = r[i]
  BY <1>1 DEF IsRing, NextPlace
<1>5. \A i \in 1 .. Len(r) : i # q => r[i] \in Item /\ r[i] # xListEnd(l)
  BY <1>1, <1>2, <1>3 DEF Members
<1>. QED BY <1>1, <1>2, <1>3, <1>4, <1>5

(* vListInsertEnd puts the item at the end of the view. *)
LEMMA InsertEndStep ==
  ASSUME RingInv, NEW l \in RoundRobin \cup Fifo, NEW x \in Item,
         vListInsertEnd(l, x)
  PROVE  /\ TypeOK' /\ Elsewhere(l)
         /\ \E s \in Seq(Node), q \in Nat : RingAt(l, s, q)'
         /\ ViewOf(l)' = ViewInsertEnd(ViewOf(l), x)
<1>1. l \in List /\ l \notin Sorted /\ TypeOK
  BY ListUseAssumption DEF List, RingInv
<1>2. PICK r \in Seq(Node), q \in Nat : RingAt(l, r, q)
  BY <1>1 DEF RingInv
<1>3. PICK n \in Nat : n = Len(r) /\ n >= 1
  BY <1>1, <1>2, RingFacts
<1>4. /\ IsRing(pxNext, pxPrevious, r)
      /\ n = uxNumberOfItems[l] + 1
      /\ \A y : Contains(r, y) <=> y \in Members(l)
      /\ r[n] = pxIndex[l]
      /\ q \in 1 .. n /\ r[q] = xListEnd(l)
      /\ l \in Fifo => q = 1
  BY <1>2, <1>3 DEF RingAt
<1>5. PICK y \in Node : y = r[n] /\ y = pxIndex[l] /\ y \in Members(l)
  <2>1. n \in 1 .. Len(r)
    BY <1>3
  <2>2. r[n] \in Node /\ r[n] \in Members(l)
    BY <1>1, <1>2, <2>1, RingFacts
  <2>. QED BY <1>4, <2>2
<1>6. PICK z \in Node : z = pxNext[y] /\ z = r[1] /\ z \in Members(l)
  <2>1. n \in 1 .. Len(r) /\ 1 \in 1 .. Len(r)
    BY <1>3
  <2>2. \A i \in 1 .. Len(r) :
           /\ r[i] \in Members(l) /\ r[i] \in Node
           /\ pxNext[r[i]] = r[IF i = Len(r) THEN 1 ELSE i + 1]
    BY <1>1, <1>2, RingFacts
  <2>3. pxNext[r[n]] = r[1]
    BY <1>3, <2>1, <2>2
  <2>. QED BY <1>5, <2>1, <2>2, <2>3
<1>7. /\ x \in Node /\ pvContainer[x] = NULL /\ x \notin Members(l)
      /\ \A k \in List : x \notin Members(k)
  BY <1>1, NodeTypes DEF vListInsertEnd, Members, Ends
<1>8. /\ pxNext' = [pxNext EXCEPT ![x] = z, ![y] = x]
      /\ pxPrevious' = [pxPrevious EXCEPT ![x] = y, ![z] = x]
      /\ pxIndex' = [pxIndex EXCEPT ![l] = x]
      /\ pvContainer' = [pvContainer EXCEPT ![x] = l]
      /\ uxNumberOfItems' = [uxNumberOfItems EXCEPT ![l] = @ + 1]
      /\ UNCHANGED <<xItemValue, owner>>
  BY <1>5, <1>6 DEF vListInsertEnd, Link
<1>9. TypeOK'
  <2>1. /\ pxNext' \in [Node -> Node \cup {NULL}]
        /\ pxPrevious' \in [Node -> Node \cup {NULL}]
    BY <1>1, <1>5, <1>6, <1>7, <1>8 DEF TypeOK
  <2>2. /\ pvContainer' \in [Item -> List \cup {NULL}]
        /\ pxIndex' \in [List -> Node]
    BY <1>1, <1>7, <1>8 DEF TypeOK
  <2>3. uxNumberOfItems' \in [List -> Nat]
    BY <1>1, <1>8 DEF TypeOK
  <2>4. xItemValue' \in [Item -> Value] /\ owner' \in Item \cup {NULL}
    BY <1>1, <1>8 DEF TypeOK
  <2>. QED BY <2>1, <2>2, <2>3, <2>4 DEF TypeOK
<1>10. Members(l)' = Members(l) \cup {x}
  BY <1>1, <1>8 DEF Members, TypeOK
<1>11. Elsewhere(l)
  <2>1. ASSUME NEW k \in List, k # l
        PROVE  /\ Members(k)' = Members(k)
               /\ x \notin Members(k) /\ Members(k) \cap Members(l) = {}
               /\ Members(k) \subseteq Node
    <3>1. Members(k)' = Members(k)
      BY <1>1, <1>7, <1>8, <2>1, NodeTypes DEF Members, TypeOK
    <3>2. Members(k) \cap Members(l) = {}
      BY <1>1, <2>1, NodeTypes DEF Members
    <3>. QED BY <1>7, <3>1, <3>2, NodeTypes
  <2>. QED BY <1>1, <1>5, <1>6, <1>8, <2>1 DEF Elsewhere, TypeOK
<1>12. PICK p \in 1 .. (Len(r) + 1) : p = n + 1
  BY <1>3
<1>13. PICK s : s = InsertAt(r, p, x)
  OBVIOUS
<1>14. IsRing(pxNext', pxPrevious', s)
  <2>1. /\ pxNext'[y] = x /\ pxNext'[x] = pxNext[y]
        /\ \A m \in Node : m # x /\ m # y => pxNext'[m] = pxNext[m]
        /\ pxPrevious'[pxNext[y]] = x /\ pxPrevious'[x] = y
        /\ \A m \in Node : m # x /\ m # pxNext[y]
                             => pxPrevious'[m] = pxPrevious[m]
    BY <1>1, <1>5, <1>6, <1>7, <1>8 DEF TypeOK
  <2>2. PICK next2, previous2 : next2 = pxNext' /\ previous2 = pxPrevious'
    OBVIOUS
  <2>3. y = IF p = 1 THEN r[Len(r)] ELSE r[p - 1]
    <3>1. p # 1 /\ p - 1 = n
      BY <1>3, <1>12
    <3>. QED BY <1>5, <3>1
  <2>4. ~Contains(r, x)
    BY <1>4, <1>7
  <2>5. IsRing(next2, previous2, InsertAt(r, p, x))
    BY <1>4, <1>7, <2>1, <2>2, <2>3, <2>4, RingInserted, SMTT(30)
  <2>. QED BY <1>13, <2>2, <2>5
<1>15. /\ s \in Seq(Node) /\ Len(s) = n + 1 /\ s[n + 1] = x /\ s[q] = r[q]
       /\ RemoveAt(s, q) = Append(RemoveAt(r, q), x)
       /\ \A m : Contains(s, m) <=> Contains(r, m) \/ m = x
  <2>1. /\ InsertAt(r, p, x) \in Seq(Node)
        /\ Len(InsertAt(r, p, x)) = Len(r) + 1
    BY <1>7, InsertAtProperties
  <2>2. /\ InsertAt(r, Len(r) + 1, x)[q] = r[q]
        /\ InsertAt(r, Len(r) + 1, x)[Len(r) + 1] = x
        /\ RemoveAt(InsertAt(r, Len(r) + 1, x), q) = Append(RemoveAt(r, q), x)
    <3>1. q \in 1 .. Len(r)
      BY <1>3, <1>4
    <3>. QED BY <1>7, <3>1, InsertEndView
  <2>3. \A m : Contains(InsertAt(r, p, x), m) <=> Contains(r, m) \/ m = x
    BY <1>7, InsertAtContains
  <2>. QED BY <1>3, <1>12, <1>13, <2>1, <2>2, <2>3
<1>16. RingAt(l, s, q)'
  <2>1. Len(s) = uxNumberOfItems'[l] + 1
    BY <1>1, <1>4, <1>8, <1>15 DEF TypeOK
  <2>2. s[Len(s)] = pxIndex'[l]
    BY <1>1, <1>8, <1>15 DEF TypeOK
  <2>3. q \in 1 .. Len(s)
    BY <1>3, <1>4, <1>15
  <2>4. \A m : Contains(s, m) <=> m \in Members(l)'
    BY <1>4, <1>10, <1>15
  <2>. QED BY <1>1, <1>4, <1>14, <1>15, <2>1, <2>2, <2>3, <2>4 DEF RingAt
<1>17. ViewOf(l)' = ViewInsertEnd(ViewOf(l), x)
  BY <1>1, <1>2, <1>9, <1>15, <1>16, ViewIs, ViewIsNext DEF ViewInsertEnd
<1>. QED BY <1>9, <1>11, <1>15, <1>16, <1>17

(* A place is the least of a set of places. *)
LEMMA MinIs ==
  ASSUME NEW T \in SUBSET Nat, NEW m \in T, \A k \in T : m <= k
  PROVE  Min(T) = m
<1>1. Min(T) \in T /\ \A k \in T : Min(T) <= k
  BY MinimumOfNaturals
<1>2. Min(T) \in Nat /\ m \in Nat /\ Min(T) <= m /\ m <= Min(T)
  BY <1>1
<1>. QED BY <1>2

(* vListInsert finds the node before the place that InsertPosition gives: the
   end marker where that is the first. *)
LEMMA InsertionPointIs ==
  ASSUME TypeOK, NEW l \in Sorted, NEW r, NEW q, RingAt(l, r, q),
         NEW v \in Value,
         NEW p, p = InsertPosition(ViewOf(l), xItemValue, v)
  PROVE  /\ p \in 1 .. Len(r)
         /\ InsertionPoint(l, v) = IF p = 1 THEN r[Len(r)] ELSE r[p - 1]
<1>1. l \in List
  BY DEF List
<1>2. PICK n \in Nat : n = Len(r) /\ n >= 1
  BY <1>1, RingFacts
<1>3. /\ r \in Seq(Node) /\ IsRing(pxNext, pxPrevious, r)
      /\ n = uxNumberOfItems[l] + 1 /\ q = n
      /\ r[n] = xListEnd(l)
  BY <1>2 DEF RingAt
<1>4. \A i \in 1 .. n :
         /\ pxNext[r[i]] = r[IF i = n THEN 1 ELSE i + 1]
         /\ pxPrevious[r[IF i = n THEN 1 ELSE i + 1]] = r[i]
         /\ i # n => r[i] \in Item
  <2>1. \A i \in 1 .. Len(r) :
           /\ pxNext[r[i]] = r[IF i = Len(r) THEN 1 ELSE i + 1]
           /\ pxPrevious[r[IF i = Len(r) THEN 1 ELSE i + 1]] = r[i]
           /\ i # q => r[i] \in Item
    BY <1>1, RingFacts
  <2>. QED BY <1>2, <1>3, <2>1
<1>5. PICK w : w = ViewOf(l)
  OBVIOUS
<1>6. /\ Len(w) = n - 1
      /\ \A i \in 1 .. n - 1 : w[i] = r[i] /\ w[i] \in Item
  <2>1. n \in 1 .. Len(r)
    BY <1>2
  <2>2. w = RemoveAt(r, n)
    BY <1>1, <1>3, <1>5, ViewIs
  <2>3. /\ Len(w) = Len(r) - 1
        /\ \A i \in 1 .. (Len(r) - 1) : w[i] = IF i < n THEN r[i] ELSE r[i + 1]
    BY <1>3, <2>1, <2>2, RemoveAtProperties
  <2>4. \A i \in 1 .. n - 1 : w[i] = r[i]
    BY <1>2, <2>3
  <2>5. \A i \in 1 .. n - 1 : i \in 1 .. n /\ i # n
    BY <1>2
  <2>. QED BY <1>2, <1>4, <2>3, <2>4, <2>5
<1> DEFINE I == {i \in 1 .. n : i = n \/ xItemValue[r[i]] > v}
<1>7. p = Min(I)
  <2>1. Len(w) + 1 = n
    BY <1>2, <1>6
  <2>2. p = Min({i \in 1 .. n : i = n \/ xItemValue[w[i]] > v})
    BY <1>5, <2>1 DEF InsertPosition
  <2>3. \A i \in 1 .. n : i # n => i \in 1 .. n - 1
    BY <1>2
  <2>4. {i \in 1 .. n : i = n \/ xItemValue[w[i]] > v} = I
    BY <1>6, <2>3
  <2>. QED BY <2>2, <2>4
<1>8. p \in I /\ \A i \in I : p <= i
  <2>1. I \in SUBSET Nat /\ n \in I
    BY <1>2
  <2>. HIDE DEF I
  <2>. QED BY <1>7, <2>1, MinimumOfNaturals
<1>9. p \in 1 .. n
  BY <1>8
<1>10. CASE v = portMAX_DELAY
  <2>1. p = n
    <3>1. ASSUME p # n PROVE FALSE
      <4>1. xItemValue[r[p]] > v /\ r[p] \in Item
        BY <1>4, <1>8, <3>1
      <4>2. xItemValue[r[p]] \in 0 .. portMAX_DELAY
        BY <4>1 DEF TypeOK, Value
      <4>. QED BY <1>10, <4>1, <4>2, MaxDelayAssumption
    <3>. QED BY <3>1
  <2>2. PICK j \in 1 .. n : j = IF n = 1 THEN n ELSE n - 1
    BY <1>2
  <2>3. pxPrevious[r[n]] = r[j]
    <3>1. (IF j = n THEN 1 ELSE j + 1) = n
      BY <1>2, <2>2
    <3>. QED BY <1>4, <2>2, <3>1
  <2>4. InsertionPoint(l, v) = pxPrevious[r[n]]
    BY <1>3, <1>10 DEF InsertionPoint
  <2>. QED BY <1>2, <1>9, <2>1, <2>2, <2>3, <2>4
<1>11. CASE v # portMAX_DELAY
  <2>1. PICK walk : walk = Walk(pxNext, xListEnd(l), uxNumberOfItems[l])
    OBVIOUS
  <2>2. walk = [k \in 0 .. n - 1 |-> IF k = 0 THEN r[n] ELSE r[k]]
    <3>1. uxNumberOfItems[l] = n - 1
      BY <1>1, <1>2, <1>3 DEF TypeOK
    <3>2. Walk(pxNext, r[Len(r)], Len(r) - 1)
            = [k \in 0 .. Len(r) - 1 |-> IF k = 0 THEN r[Len(r)] ELSE r[k]]
      BY <1>3, RingWalk
    <3>. QED BY <1>2, <1>3, <2>1, <3>1, <3>2
  <2> DEFINE K == {k \in DOMAIN walk : ValueOf(pxNext[walk[k]]) > v}
  <2>3. ASSUME NEW k \in 0 .. n - 1
        PROVE  k \in K <=> k + 1 \in I
    <3>1. PICK i \in 1 .. n : i = k + 1
      BY <1>2
    <3>2. pxNext[walk[k]] = r[i]
      <4>1. CASE k = 0
        <5>1. walk[k] = r[n] /\ n \in 1 .. n /\ i = 1
          BY <1>2, <2>2, <3>1, <4>1
        <5>. QED BY <1>4, <5>1
      <4>2. CASE k # 0
        <5>1. walk[k] = r[k] /\ k \in 1 .. n /\ k # n
          BY <1>2, <2>2, <4>2
        <5>. QED BY <1>4, <3>1, <5>1
      <4>. QED BY <4>1, <4>2
    <3>3. CASE i = n
      <4>1. ValueOf(r[i]) = portMAX_DELAY
        BY <1>1, <1>3, <3>3, NodeTypes DEF ValueOf
      <4>2. portMAX_DELAY > v
        BY <1>11, MaxDelayAssumption DEF Value
      <4>. QED BY <1>2, <2>2, <3>1, <3>2, <3>3, <4>1, <4>2
    <3>4. CASE i # n
      <4>1. ValueOf(r[i]) = xItemValue[r[i]]
        BY <1>4, <3>4, NodeTypes DEF ValueOf
      <4>. QED BY <1>2, <2>2, <3>1, <3>2, <3>4, <4>1
    <3>. QED BY <3>3, <3>4
  <2>4. PICK m \in 0 .. n - 1 : m = p - 1
    BY <1>2, <1>9
  <2>5. Min(K) = m
    <3>1. K \subseteq 0 .. n - 1
      BY <2>2
    <3>2. m \in K
      BY <1>8, <1>9, <2>3, <2>4
    <3>3. \A k \in K : m <= k
      <4>. SUFFICES ASSUME NEW k \in K PROVE m <= k
        OBVIOUS
      <4>1. k \in 0 .. n - 1
        BY <3>1
      <4>2. k + 1 \in I
        BY <2>3, <4>1
      <4>3. p <= k + 1
        BY <1>8, <4>2
      <4>. QED BY <1>9, <2>4, <4>1, <4>3
    <3>4. K \in SUBSET Nat
      BY <1>2, <3>1
    <3>. HIDE DEF K
    <3>. QED BY <3>2, <3>3, <3>4, MinIs
  <2>6. InsertionPoint(l, v) = walk[Min(K)]
    BY <1>11, <2>1 DEF InsertionPoint
  <2>7. walk[m] = IF p = 1 THEN r[n] ELSE r[p - 1]
    <3>1. m = 0 <=> p = 1
      BY <1>9, <2>4
    <3>. QED BY <2>2, <2>4, <3>1
  <2>. QED BY <1>2, <1>9, <2>5, <2>6, <2>7
<1>. QED BY <1>10, <1>11

(* vListInsert puts the item where ViewInsert does. *)
LEMMA InsertStep ==
  ASSUME RingInv, NEW l \in Sorted, NEW x \in Item, vListInsert(l, x)
  PROVE  /\ TypeOK' /\ Elsewhere(l)
         /\ \E s \in Seq(Node), q \in Nat : RingAt(l, s, q)'
         /\ ViewOf(l)' = ViewInsert(ViewOf(l), xItemValue, x)
<1>1. l \in List /\ l \notin Fifo /\ TypeOK
  BY ListUseAssumption DEF List, RingInv
<1>2. PICK r \in Seq(Node), q \in Nat : RingAt(l, r, q)
  BY <1>1 DEF RingInv
<1>3. PICK n \in Nat : n = Len(r) /\ n >= 1
  BY <1>1, <1>2, RingFacts
<1>4. /\ IsRing(pxNext, pxPrevious, r)
      /\ n = uxNumberOfItems[l] + 1
      /\ \A y : Contains(r, y) <=> y \in Members(l)
      /\ r[n] = pxIndex[l]
      /\ q = n /\ r[n] = xListEnd(l)
  BY <1>2, <1>3 DEF RingAt
<1>5. PICK p : p = InsertPosition(ViewOf(l), xItemValue, xItemValue[x])
  OBVIOUS
<1>6. PICK y : y = InsertionPoint(l, xItemValue[x])
  OBVIOUS
<1>7. p \in 1 .. Len(r) /\ y = IF p = 1 THEN r[Len(r)] ELSE r[p - 1]
  <2>1. PICK v \in Value : v = xItemValue[x]
    BY <1>1 DEF TypeOK
  <2>2. p = InsertPosition(ViewOf(l), xItemValue, v) /\ y = InsertionPoint(l, v)
    BY <1>5, <1>6, <2>1
  <2>. QED BY <1>1, <1>2, <2>2, InsertionPointIs
<1>8. PICK z : z = pxNext[y]
  OBVIOUS
<1>9. y \in Node /\ z \in Node /\ y \in Members(l) /\ z \in Members(l)
  <2>1. \A i \in 1 .. Len(r) :
           /\ r[i] \in Members(l) /\ r[i] \in Node
           /\ pxNext[r[i]] = r[IF i = Len(r) THEN 1 ELSE i + 1]
    BY <1>1, <1>2, RingFacts
  <2>2. PICK i \in 1 .. Len(r) : i = IF p = 1 THEN Len(r) ELSE p - 1
    BY <1>3, <1>7
  <2>3. y = r[i]
    BY <1>7, <2>2
  <2>4. PICK j \in 1 .. Len(r) : j = IF i = Len(r) THEN 1 ELSE i + 1
    BY <1>3, <2>2
  <2>5. z = r[j]
    BY <1>8, <2>1, <2>3, <2>4
  <2>. QED BY <2>1, <2>3, <2>5
<1>10. /\ x \in Node /\ pvContainer[x] = NULL /\ x \notin Members(l)
       /\ \A k \in List : x \notin Members(k)
  BY <1>1, NodeTypes DEF vListInsert, Members, Ends
<1>11. /\ pxNext' = [pxNext EXCEPT ![x] = z, ![y] = x]
       /\ pxPrevious' = [pxPrevious EXCEPT ![z] = x, ![x] = y]
       /\ pxIndex' = pxIndex
       /\ pvContainer' = [pvContainer EXCEPT ![x] = l]
       /\ uxNumberOfItems' = [uxNumberOfItems EXCEPT ![l] = @ + 1]
       /\ UNCHANGED <<xItemValue, owner>>
  BY <1>6, <1>8 DEF vListInsert, Link
<1>12. TypeOK'
  <2>1. /\ pxNext' \in [Node -> Node \cup {NULL}]
        /\ pxPrevious' \in [Node -> Node \cup {NULL}]
    BY <1>1, <1>9, <1>10, <1>11 DEF TypeOK
  <2>2. /\ pvContainer' \in [Item -> List \cup {NULL}]
        /\ pxIndex' \in [List -> Node]
    BY <1>1, <1>11 DEF TypeOK
  <2>3. uxNumberOfItems' \in [List -> Nat]
    BY <1>1, <1>11 DEF TypeOK
  <2>4. xItemValue' \in [Item -> Value] /\ owner' \in Item \cup {NULL}
    BY <1>1, <1>11 DEF TypeOK
  <2>. QED BY <2>1, <2>2, <2>3, <2>4 DEF TypeOK
<1>13. Members(l)' = Members(l) \cup {x}
  BY <1>1, <1>11 DEF Members, TypeOK
<1>14. Elsewhere(l)
  <2>1. ASSUME NEW k \in List, k # l
        PROVE  /\ Members(k)' = Members(k)
               /\ x \notin Members(k) /\ Members(k) \cap Members(l) = {}
               /\ Members(k) \subseteq Node
    <3>1. Members(k)' = Members(k)
      BY <1>1, <1>10, <1>11, <2>1, NodeTypes DEF Members, TypeOK
    <3>2. Members(k) \cap Members(l) = {}
      BY <1>1, <2>1, NodeTypes DEF Members
    <3>. QED BY <1>10, <3>1, <3>2, NodeTypes
  <2>. QED BY <1>1, <1>9, <1>11, <2>1 DEF Elsewhere, TypeOK
<1>15. PICK s : s = InsertAt(r, p, x)
  OBVIOUS
<1>16. p \in 1 .. (Len(r) + 1)
  BY <1>3, <1>7
<1>17. IsRing(pxNext', pxPrevious', s)
  <2>1. /\ pxNext'[y] = x /\ pxNext'[x] = pxNext[y]
        /\ \A m \in Node : m # x /\ m # y => pxNext'[m] = pxNext[m]
        /\ pxPrevious'[pxNext[y]] = x /\ pxPrevious'[x] = y
        /\ \A m \in Node : m # x /\ m # pxNext[y]
                             => pxPrevious'[m] = pxPrevious[m]
    BY <1>1, <1>8, <1>9, <1>10, <1>11 DEF TypeOK
  <2>2. PICK next2, previous2 : next2 = pxNext' /\ previous2 = pxPrevious'
    OBVIOUS
  <2>3. ~Contains(r, x)
    BY <1>4, <1>10
  <2>4. IsRing(next2, previous2, InsertAt(r, p, x))
    BY <1>4, <1>7, <1>10, <1>16, <2>1, <2>2, <2>3, RingInserted, SMTT(30)
  <2>. QED BY <1>15, <2>2, <2>4
<1>18. /\ s \in Seq(Node) /\ Len(s) = n + 1 /\ s[n + 1] = r[n]
       /\ RemoveAt(s, n + 1) = InsertAt(RemoveAt(r, q), p, x)
       /\ \A m : Contains(s, m) <=> Contains(r, m) \/ m = x
  <2>1. /\ InsertAt(r, p, x) \in Seq(Node)
        /\ Len(InsertAt(r, p, x)) = Len(r) + 1
    BY <1>10, <1>16, InsertAtProperties
  <2>2. /\ InsertAt(r, p, x)[Len(r) + 1] = r[Len(r)]
        /\ RemoveAt(InsertAt(r, p, x), Len(r) + 1)
             = InsertAt(RemoveAt(r, Len(r)), p, x)
    BY <1>7, <1>10, InsertView
  <2>3. \A m : Contains(InsertAt(r, p, x), m) <=> Contains(r, m) \/ m = x
    BY <1>10, <1>16, InsertAtContains
  <2>. QED BY <1>3, <1>4, <1>15, <2>1, <2>2, <2>3
<1>19. RingAt(l, s, n + 1)'
  <2>1. Len(s) = uxNumberOfItems'[l] + 1
    BY <1>1, <1>4, <1>11, <1>18 DEF TypeOK
  <2>2. s[Len(s)] = pxIndex'[l] /\ s[n + 1] = xListEnd(l)
    BY <1>1, <1>4, <1>11, <1>18
  <2>3. n + 1 \in 1 .. Len(s) /\ n + 1 = Len(s)
    BY <1>3, <1>18
  <2>4. \A m : Contains(s, m) <=> m \in Members(l)'
    BY <1>4, <1>13, <1>18
  <2>. QED BY <1>1, <1>17, <1>18, <2>1, <2>2, <2>3, <2>4 DEF RingAt
<1>20. ViewOf(l)' = ViewInsert(ViewOf(l), xItemValue, x)
  <2>1. ViewOf(l) = RemoveAt(r, q) /\ ViewOf(l)' = RemoveAt(s, n + 1)
    BY <1>1, <1>2, <1>12, <1>19, ViewIs, ViewIsNext
  <2>2. ViewInsert(ViewOf(l), xItemValue, x) = InsertAt(ViewOf(l), p, x)
    BY <1>5 DEF ViewInsert
  <2>. QED BY <1>18, <2>1, <2>2
<1>21. n + 1 \in Nat
  BY <1>3
<1>. QED BY <1>12, <1>14, <1>18, <1>19, <1>20, <1>21

(* vListRemove takes the item out of the view of its list. *)
LEMMA RemoveStep ==
  ASSUME RingInv, NEW x \in Item, vListRemove(x),
         NEW l, l = pvContainer[x]
  PROVE  /\ TypeOK' /\ l \in List /\ Elsewhere(l)
         /\ \E s \in Seq(Node), q \in Nat : RingAt(l, s, q)'
         /\ Contains(ViewOf(l), x)
         /\ ViewOf(l)' = ViewRemove(ViewOf(l), x)
<1>1. TypeOK /\ l \in List /\ l # NULL
  BY DEF RingInv, vListRemove, TypeOK
<1>2. PICK r \in Seq(Node), q \in Nat : RingAt(l, r, q)
  BY <1>1 DEF RingInv
<1>3. PICK n \in Nat : n = Len(r) /\ n >= 1
  BY <1>1, <1>2, RingFacts
<1>4. /\ IsRing(pxNext, pxPrevious, r)
      /\ n = uxNumberOfItems[l] + 1
      /\ \A y : Contains(r, y) <=> y \in Members(l)
      /\ r[n] = pxIndex[l]
      /\ q \in 1 .. n /\ r[q] = xListEnd(l)
      /\ l \in Fifo => q = 1
      /\ l \in Sorted => q = n
  BY <1>2, <1>3 DEF RingAt
<1>5. /\ \A i \in 1 .. n :
            /\ r[i] \in Members(l) /\ r[i] \in Node
            /\ pxNext[r[i]] = r[IF i = n THEN 1 ELSE i + 1]
            /\ pxPrevious[r[IF i = n THEN 1 ELSE i + 1]] = r[i]
      /\ \A i, j \in 1 .. n : r[i] = r[j] => i = j
      /\ \A m \in Members(l) : \E i \in 1 .. n : r[i] = m
  <2>1. /\ \A i \in 1 .. Len(r) :
              /\ r[i] \in Members(l) /\ r[i] \in Node
              /\ pxNext[r[i]] = r[IF i = Len(r) THEN 1 ELSE i + 1]
              /\ pxPrevious[r[IF i = Len(r) THEN 1 ELSE i + 1]] = r[i]
        /\ \A i, j \in 1 .. Len(r) : r[i] = r[j] => i = j
        /\ \A m \in Members(l) : \E i \in 1 .. Len(r) : r[i] = m
    BY <1>1, <1>2, RingFacts
  <2>. QED BY <1>3, <2>1
<1>6. PICK i \in 1 .. n : r[i] = x
  <2>1. x \in Members(l)
    BY DEF Members
  <2>. QED BY <1>5, <2>1
<1>7. i # q /\ n > 1
  <2>1. i # q
    BY <1>1, <1>4, <1>6, NodeTypes
  <2>. QED BY <1>3, <1>4, <1>6, <2>1
<1>8. PICK before \in 1 .. n : before = IF i = 1 THEN n ELSE i - 1
  BY <1>3
<1>9. PICK after \in 1 .. n : after = IF i = n THEN 1 ELSE i + 1
  BY <1>3
<1>10. PICK a, b : a = r[after] /\ b = r[before]
  OBVIOUS
<1>11. /\ a = pxNext[x] /\ b = pxPrevious[x]
       /\ a \in Node /\ b \in Node /\ a \in Members(l) /\ b \in Members(l)
  <2>1. (IF before = n THEN 1 ELSE before + 1) = i
    BY <1>3, <1>8
  <2>2. pxNext[r[i]] = r[IF i = n THEN 1 ELSE i + 1]
    BY <1>5
  <2>3. pxNext[x] = r[after]
    BY <1>6, <1>9, <2>2
  <2>4. pxPrevious[r[IF before = n THEN 1 ELSE before + 1]] = r[before]
    BY <1>5
  <2>5. pxPrevious[x] = r[before]
    BY <1>6, <2>1, <2>4
  <2>6. /\ r[after] \in Node /\ r[after] \in Members(l)
        /\ r[before] \in Node /\ r[before] \in Members(l)
    BY <1>5
  <2>. QED BY <1>10, <2>3, <2>5, <2>6
<1>12. PICK index : index = IndexAfterRemove(l, x)
  OBVIOUS
<1>13. /\ pxPrevious' = [pxPrevious EXCEPT ![a] = b]
       /\ pxNext' = [pxNext EXCEPT ![b] = a]
       /\ pxIndex' = [pxIndex EXCEPT ![l] = index]
       /\ pvContainer' = [pvContainer EXCEPT ![x] = NULL]
       /\ uxNumberOfItems' = [uxNumberOfItems EXCEPT ![l] = @ - 1]
       /\ UNCHANGED <<xItemValue, owner>>
  BY <1>11, <1>12 DEF vListRemove
<1>14. index = IF i = n THEN b ELSE r[n]
  <2>1. pxIndex[l] = x <=> i = n
    <3>1. n \in 1 .. n
      BY <1>3
    <3>2. r[i] = r[n] <=> i = n
      BY <1>5, <3>1
    <3>. QED BY <1>4, <1>6, <3>2
  <2>. QED BY <1>4, <1>11, <1>12, <2>1 DEF IndexAfterRemove
<1>15. index \in Node
  BY <1>3, <1>5, <1>11, <1>14
<1>16. TypeOK'
  <2>1. /\ pxNext' \in [Node -> Node \cup {NULL}]
        /\ pxPrevious' \in [Node -> Node \cup {NULL}]
    BY <1>1, <1>11, <1>13 DEF TypeOK
  <2>2. /\ pvContainer' \in [Item -> List \cup {NULL}]
        /\ pxIndex' \in [List -> Node]
    BY <1>1, <1>13, <1>15 DEF TypeOK
  <2>3. uxNumberOfItems' \in [List -> Nat]
    <3>1. uxNumberOfItems[l] - 1 \in Nat
      BY <1>1, <1>4, <1>7 DEF TypeOK
    <3>. QED BY <1>1, <1>13, <3>1 DEF TypeOK
  <2>4. xItemValue' \in [Item -> Value] /\ owner' \in Item \cup {NULL}
    BY <1>1, <1>13 DEF TypeOK
  <2>. QED BY <2>1, <2>2, <2>3, <2>4 DEF TypeOK
<1>17. Members(l)' = Members(l) \ {x}
  BY <1>1, <1>13, NodeTypes DEF Members, TypeOK
<1>18. Elsewhere(l)
  <2>1. ASSUME NEW k \in List, k # l
        PROVE  /\ Members(k)' = Members(k)
               /\ Members(k) \cap Members(l) = {}
               /\ Members(k) \subseteq Node
    <3>1. Members(k)' = Members(k)
      BY <1>1, <1>13, <2>1, NodeTypes DEF Members, TypeOK
    <3>2. Members(k) \cap Members(l) = {}
      BY <1>1, <2>1, NodeTypes DEF Members
    <3>. QED BY <3>1, <3>2, NodeTypes
  <2>. QED BY <1>1, <1>11, <1>13, <2>1 DEF Elsewhere, TypeOK
<1>19. PICK s : s = RemoveAt(r, i)
  OBVIOUS
<1>20. PICK m \in Nat : m = IF q < i THEN q ELSE q - 1
  BY <1>4
<1>21. i \in 1 .. Len(r) /\ q \in 1 .. Len(r) /\ IsInjective(r)
  BY <1>3, <1>4 DEF IsRing
<1>22. IsRing(pxNext', pxPrevious', s)
  <2>1. /\ pxNext'[pxPrevious[r[i]]] = pxNext[r[i]]
        /\ \A y \in Node : y # pxPrevious[r[i]] => pxNext'[y] = pxNext[y]
        /\ pxPrevious'[pxNext[r[i]]] = pxPrevious[r[i]]
        /\ \A y \in Node : y # pxNext[r[i]] => pxPrevious'[y] = pxPrevious[y]
    BY <1>1, <1>6, <1>11, <1>13 DEF TypeOK
  <2>2. PICK next2, previous2 : next2 = pxNext' /\ previous2 = pxPrevious'
    OBVIOUS
  <2>3. Len(r) > 1
    BY <1>3, <1>7
  <2>4. IsRing(next2, previous2, RemoveAt(r, i))
    BY <1>4, <1>21, <2>1, <2>2, <2>3, RingRemoved
  <2>. QED BY <1>19, <2>2, <2>4
<1>23. /\ s \in Seq(Node) /\ Len(s) = n - 1
       /\ \A k \in 1 .. n - 1 : s[k] = IF k < i THEN r[k] ELSE r[k + 1]
  <2>1. /\ s \in Seq(Node) /\ Len(s) = Len(r) - 1
        /\ \A k \in 1 .. (Len(r) - 1) : s[k] = IF k < i THEN r[k] ELSE r[k + 1]
    BY <1>19, <1>21, RemoveAtProperties
  <2>. QED BY <1>3, <2>1
<1>24. \A y : Contains(s, y) <=> Contains(r, y) /\ y # x
  BY <1>6, <1>19, <1>21, RemoveAtContains
<1>25. /\ m \in 1 .. n - 1 /\ s[m] = r[q]
       /\ ViewRemove(RemoveAt(r, q), x) = RemoveAt(s, m)
  <2>1. /\ m \in 1 .. Len(RemoveAt(r, i))
        /\ RemoveAt(r, i)[m] = r[q]
        /\ ViewRemove(RemoveAt(r, q), r[i]) = RemoveAt(RemoveAt(r, i), m)
    BY <1>7, <1>20, <1>21, RemoveView
  <2>. QED BY <1>6, <1>19, <1>23, <2>1
<1>26. RingAt(l, s, m)'
  <2>1. Len(s) = uxNumberOfItems'[l] + 1
    BY <1>1, <1>4, <1>13, <1>23 DEF TypeOK
  <2>2. s[Len(s)] = pxIndex'[l]
    <3>1. pxIndex'[l] = index
      BY <1>1, <1>13 DEF TypeOK
    <3>2. n - 1 \in 1 .. n - 1
      BY <1>3, <1>7
    <3>3. CASE i = n
      <4>1. s[n - 1] = r[n - 1] /\ before = n - 1
        BY <1>3, <1>7, <1>8, <1>23, <3>2, <3>3
      <4>. QED BY <1>10, <1>14, <1>23, <3>1, <3>3, <4>1
    <3>4. CASE i # n
      <4>1. s[n - 1] = r[n]
        BY <1>3, <1>23, <3>2, <3>4
      <4>. QED BY <1>14, <1>23, <3>1, <3>4, <4>1
    <3>. QED BY <3>3, <3>4
  <2>3. m \in 1 .. Len(s) /\ s[m] = xListEnd(l)
    BY <1>4, <1>23, <1>25
  <2>4. \A y : Contains(s, y) <=> y \in Members(l)'
    BY <1>4, <1>17, <1>24
  <2>5. l \in Fifo => m = 1
    BY <1>4, <1>6, <1>7, <1>20
  <2>6. l \in Sorted => m = Len(s)
    BY <1>3, <1>4, <1>6, <1>7, <1>20, <1>23
  <2>. QED BY <1>22, <1>23, <2>1, <2>2, <2>3, <2>4, <2>5, <2>6 DEF RingAt
<1>27. ViewOf(l) = RemoveAt(r, q) /\ ViewOf(l)' = RemoveAt(s, m)
  BY <1>1, <1>2, <1>16, <1>26, ViewIs, ViewIsNext
<1>28. Contains(ViewOf(l), x)
  <2>1. Contains(RemoveAt(r, q), x) <=> Contains(r, x) /\ x # r[q]
    BY <1>21, RemoveAtContains
  <2>2. Contains(r, x) /\ x # r[q]
    BY <1>4, <1>5, <1>6, <1>7
  <2>. QED BY <1>27, <2>1, <2>2
<1>. QED BY <1>1, <1>16, <1>18, <1>20, <1>23, <1>25, <1>26, <1>27, <1>28

(* listGET_OWNER_OF_NEXT_ENTRY returns the first of the view, which becomes
   the last. *)
LEMMA NextStep ==
  ASSUME RingInv, NEW l \in RoundRobin, listGET_OWNER_OF_NEXT_ENTRY(l)
  PROVE  /\ TypeOK' /\ Elsewhere(l)
         /\ \E s \in Seq(Node), q \in Nat : RingAt(l, s, q)'
         /\ ViewOf(l) # <<>> /\ owner' = Head(ViewOf(l))
         /\ ViewOf(l)' = ViewNext(ViewOf(l))
<1>1. l \in List /\ l \notin Fifo /\ l \notin Sorted /\ TypeOK
  BY ListUseAssumption DEF List, RingInv
<1>2. PICK r \in Seq(Node), q \in Nat : RingAt(l, r, q)
  BY <1>1 DEF RingInv
<1>3. PICK n \in Nat : n = Len(r) /\ n > 1
  <2>1. Len(r) \in Nat /\ Len(r) >= 1
    BY <1>1, <1>2, RingFacts
  <2>2. uxNumberOfItems[l] # 0 /\ Len(r) = uxNumberOfItems[l] + 1
    BY <1>2 DEF RingAt, listGET_OWNER_OF_NEXT_ENTRY, listLIST_IS_EMPTY
  <2>3. uxNumberOfItems[l] \in Nat
    BY <1>1 DEF TypeOK
  <2>. QED BY <2>1, <2>2, <2>3
<1>4. /\ IsRing(pxNext, pxPrevious, r)
      /\ n = uxNumberOfItems[l] + 1
      /\ \A y : Contains(r, y) <=> y \in Members(l)
      /\ r[n] = pxIndex[l]
      /\ q \in 1 .. n /\ r[q] = xListEnd(l)
  BY <1>2, <1>3 DEF RingAt
<1>5. PICK e \in 1 .. n : e = IF q = 1 THEN 2 ELSE 1
  BY <1>3
<1>6. PICK m \in Nat : m = IF q = 1 THEN Len(r) - 1 ELSE q - 1
  BY <1>3, <1>4
<1>7. r[e] = NextIndex(l) /\ r[e] \in Item /\ r[e] \in Node
  <2>1. \A i \in 1 .. Len(r) :
              /\ r[i] \in Node
              /\ pxNext[r[i]] = r[IF i = Len(r) THEN 1 ELSE i + 1]
              /\ i # q => r[i] \in Item /\ r[i] # xListEnd(l)
    BY <1>1, <1>2, RingFacts
  <2>2. n \in 1 .. Len(r) /\ 1 \in 1 .. Len(r) /\ 1 # Len(r)
    BY <1>3
  <2>3. pxNext[r[n]] = r[1]
    BY <1>3, <2>1, <2>2
  <2>4. pxNext[r[1]] = r[2]
    <3>1. pxNext[r[1]] = r[IF 1 = Len(r) THEN 1 ELSE 1 + 1]
      BY <2>1, <2>2
    <3>2. (IF 1 = Len(r) THEN 1 ELSE 1 + 1) = 2
      BY <2>2
    <3>. QED BY <3>1, <3>2
  <2>5. CASE q = 1
    BY <1>3, <1>4, <1>5, <2>1, <2>3, <2>4, <2>5 DEF NextIndex
  <2>6. CASE q # 1
    BY <1>3, <1>4, <1>5, <2>1, <2>2, <2>3, <2>6 DEF NextIndex
  <2>. QED BY <2>5, <2>6
<1>8. /\ pxIndex' = [pxIndex EXCEPT ![l] = r[e]]
      /\ owner' = r[e]
      /\ UNCHANGED <<pxNext, pxPrevious, xItemValue, pvContainer,
                     uxNumberOfItems>>
  BY <1>7 DEF listGET_OWNER_OF_NEXT_ENTRY
<1>9. TypeOK'
  BY <1>1, <1>7, <1>8 DEF TypeOK
<1>10. \A k \in List : Members(k)' = Members(k)
  BY <1>8 DEF Members
<1>11. Elsewhere(l)
  BY <1>1, <1>8, <1>10 DEF Elsewhere, TypeOK
<1>12. PICK s : s = Rotated(r, e)
  OBVIOUS
<1>13. /\ s \in Seq(Node) /\ Len(s) = n /\ s[n] = r[e]
       /\ IsRing(pxNext, pxPrevious, s)
       /\ \A y : Contains(s, y) <=> Contains(r, y)
  <2>1. e \in 1 .. Len(r)
    BY <1>3
  <2>2. /\ Rotated(r, e) \in Seq(Node)
        /\ Len(Rotated(r, e)) = Len(r)
        /\ Rotated(r, e)[Len(r)] = r[e]
        /\ IsRing(pxNext, pxPrevious, Rotated(r, e))
        /\ \A y : Contains(Rotated(r, e), y) <=> Contains(r, y)
    BY <1>4, <2>1, RingRotated
  <2>. QED BY <1>3, <1>12, <2>2
<1>14. /\ m \in 1 .. n /\ s[m] = r[q]
       /\ RemoveAt(s, m) = ViewNext(RemoveAt(r, q))
       /\ RemoveAt(r, q) # <<>> /\ Head(RemoveAt(r, q)) = r[e]
  <2>1. Len(r) > 1 /\ q \in 1 .. Len(r)
    BY <1>3, <1>4
  <2>2. /\ m \in 1 .. Len(r)
        /\ Rotated(r, e)[m] = r[q]
        /\ RemoveAt(Rotated(r, e), m) = ViewNext(RemoveAt(r, q))
        /\ RemoveAt(r, q) # <<>>
        /\ Head(RemoveAt(r, q)) = r[e]
    BY <1>5, <1>6, <2>1, NextView
  <2>. QED BY <1>3, <1>12, <2>2
<1>15. RingAt(l, s, m)'
  <2>1. Len(s) = uxNumberOfItems'[l] + 1 /\ s[Len(s)] = pxIndex'[l]
    BY <1>1, <1>4, <1>8, <1>13 DEF TypeOK
  <2>2. IsRing(pxNext', pxPrevious', s)
    BY <1>8, <1>13
  <2>3. \A y : Contains(s, y) <=> y \in Members(l)'
    BY <1>1, <1>4, <1>10, <1>13
  <2>4. m \in 1 .. Len(s) /\ s[m] = xListEnd(l)
    BY <1>4, <1>13, <1>14
  <2>. QED BY <1>1, <1>13, <2>1, <2>2, <2>3, <2>4 DEF RingAt
<1>16. ViewOf(l) = RemoveAt(r, q) /\ ViewOf(l)' = RemoveAt(s, m)
  BY <1>1, <1>2, <1>9, <1>15, ViewIs, ViewIsNext
<1>. QED BY <1>8, <1>9, <1>11, <1>13, <1>14, <1>15, <1>16

(* In the lists used by their head, the item behind the marker is the first of
   the view. *)
LEMMA HeadFirst ==
  ASSUME RingInv, NEW l \in Fifo \cup Sorted
  PROVE  /\ listLIST_IS_EMPTY(l) <=> ViewOf(l) = <<>>
         /\ ~listLIST_IS_EMPTY(l) =>
               /\ pxNext[xListEnd(l)] \in Item
               /\ pxNext[xListEnd(l)] = Head(ViewOf(l))
<1>1. l \in List /\ TypeOK
  BY DEF List, RingInv
<1>2. PICK r \in Seq(Node), q \in Nat : RingAt(l, r, q)
  BY <1>1 DEF RingInv
<1>3. PICK n \in Nat : n = Len(r) /\ n >= 1
  BY <1>1, <1>2, RingFacts
<1>4. /\ n = uxNumberOfItems[l] + 1 /\ uxNumberOfItems[l] \in Nat
      /\ q \in 1 .. Len(r) /\ r[q] = xListEnd(l)
      /\ q = 1 \/ q = n
  BY <1>1, <1>2, <1>3 DEF RingAt, TypeOK
<1>5. PICK v : v = ViewOf(l)
  OBVIOUS
<1>6. v = RemoveAt(r, q)
  BY <1>1, <1>2, <1>5, ViewIs
<1>7. /\ v \in Seq(Node) /\ Len(v) = Len(r) - 1
      /\ \A i \in 1 .. (Len(r) - 1) : v[i] = IF i < q THEN r[i] ELSE r[i + 1]
  BY <1>4, <1>6, RemoveAtProperties
<1>8. v = <<>> <=> n = 1
  BY <1>3, <1>7, EmptySeq
<1>9. listLIST_IS_EMPTY(l) <=> n = 1
  BY <1>4 DEF listLIST_IS_EMPTY
<1>10. ASSUME n # 1
       PROVE  /\ pxNext[xListEnd(l)] \in Item
              /\ pxNext[xListEnd(l)] = Head(v)
  <2>1. Head(v) = v[1]
    BY <1>7, <1>8, <1>10, HeadTailProperties
  <2>2. PICK i \in 1 .. Len(r) : i = IF q = n THEN 1 ELSE 2
    BY <1>3, <1>10
  <2>3. v[1] = r[i] /\ i # q
    <3>1. 1 \in 1 .. (Len(r) - 1)
      BY <1>3, <1>10
    <3>2. v[1] = IF 1 < q THEN r[1] ELSE r[1 + 1]
      BY <1>7, <3>1
    <3>3. CASE q = n
      BY <1>3, <1>10, <2>2, <3>2, <3>3
    <3>4. CASE q = 1 /\ q # n
      <4>1. 1 + 1 = i /\ ~(1 < q)
        BY <2>2, <3>4
      <4>. QED BY <2>2, <3>2, <3>4, <4>1
    <3>. QED BY <1>4, <3>3, <3>4
  <2>4. pxNext[r[q]] = r[i] /\ r[i] \in Item
    <3>1. /\ pxNext[r[q]] = r[IF q = Len(r) THEN 1 ELSE q + 1]
          /\ r[i] \in Item
      BY <1>1, <1>2, <1>4, <2>2, <2>3, RingFacts
    <3>2. (IF q = Len(r) THEN 1 ELSE q + 1) = i
      BY <1>3, <1>4, <2>2
    <3>. QED BY <3>1, <3>2
  <2>. QED BY <1>4, <2>1, <2>3, <2>4
<1>. QED BY <1>5, <1>8, <1>9, <1>10

(* An item in no list is in no view. *)
LEMMA UnlinkedIs ==
  ASSUME RingInv, NEW x \in Item, pvContainer[x] = NULL, NEW l \in List
  PROVE  ~Contains(ViewOf(l), x)
<1>1. TypeOK
  BY DEF RingInv
<1>2. PICK r \in Seq(Node), q \in Nat : RingAt(l, r, q)
  BY DEF RingInv
<1>3. /\ q \in 1 .. Len(r) /\ IsInjective(r)
      /\ Contains(r, x) => x \in Members(l)
  BY <1>2 DEF RingAt, IsRing
<1>4. Contains(RemoveAt(r, q), x) => Contains(r, x)
  BY <1>3, RemoveAtContains
<1>5. x \notin Members(l)
  BY NodeTypes DEF Members, Ends
<1>. QED BY <1>1, <1>2, <1>3, <1>4, <1>5, ViewIs

-----------------------------------------------------------------------------
(* Steps *)

LEMMA Others ==
  ASSUME RingInv, TypeOK', NEW l, Elsewhere(l), NEW k \in List, k # l
  PROVE  /\ \E s \in Seq(Node), q \in Nat : RingAt(k, s, q)'
         /\ ViewOf(k)' = ViewOf(k)
<1>1. TypeOK
  BY DEF RingInv
<1>2. PICK r \in Seq(Node), q \in Nat : RingAt(k, r, q)
  BY DEF RingInv
<1>3. RingAt(k, r, q)'
  BY <1>2, RingElsewhere
<1>4. ViewOf(k) = RemoveAt(r, q) /\ ViewOf(k)' = RemoveAt(r, q)
  BY <1>1, <1>2, <1>3, ViewIs, ViewIsNext
<1>. QED BY <1>2, <1>3, <1>4

(* The rings of all lists and their views after a step on one. *)
LEMMA StepOn ==
  ASSUME RingInv, TypeOK', NEW l \in List, Elsewhere(l),
         \E s \in Seq(Node), q \in Nat : RingAt(l, s, q)'
  PROVE  /\ RingInv'
         /\ [k \in List |-> ViewOf(k)]'
              = [[k \in List |-> ViewOf(k)] EXCEPT ![l] = ViewOf(l)']
<1>1. \A k \in List : k # l =>
         /\ \E s \in Seq(Node), q \in Nat : RingAt(k, s, q)'
         /\ ViewOf(k)' = ViewOf(k)
  BY Others
<1>2. \A k \in List : \E s \in Seq(Node), q \in Nat : RingAt(k, s, q)'
  BY <1>1
<1>3. RingInv'
  BY <1>2 DEF RingInv
<1>4. [k \in List |-> ViewOf(k)]'
        = [[k \in List |-> ViewOf(k)] EXCEPT ![l] = ViewOf(l)']
  BY <1>1
<1>. QED BY <1>3, <1>4

(* A step that leaves links, containers, indices and counts alone. *)
LEMMA StepElse ==
  ASSUME RingInv, TypeOK',
         UNCHANGED <<pxNext, pxPrevious, pvContainer, pxIndex, uxNumberOfItems>>
  PROVE  /\ RingInv'
         /\ [k \in List |-> ViewOf(k)]' = [k \in List |-> ViewOf(k)]
<1>1. \A k \in List : Members(k)' = Members(k)
  BY DEF Members
<1>2. Elsewhere(NULL)
  BY <1>1 DEF Elsewhere
<1>3. \A k \in List : k # NULL
  BY NodeTypes
<1>4. \A k \in List :
         /\ \E s \in Seq(Node), q \in Nat : RingAt(k, s, q)'
         /\ ViewOf(k)' = ViewOf(k)
  BY <1>2, <1>3, Others
<1>5. RingInv'
  BY <1>4 DEF RingInv
<1>6. [k \in List |-> ViewOf(k)]' = [k \in List |-> ViewOf(k)]
  BY <1>4
<1>. QED BY <1>5, <1>6

-----------------------------------------------------------------------------
(* The theorems *)

LEMMA RingInit ==
  ASSUME Init
  PROVE  /\ RingInv
         /\ \A l \in List : ViewOf(l) = <<>>
<1>1. TypeOK
  BY NodeTypes DEF Init, TypeOK, Node
<1>2. ASSUME NEW l \in List
      PROVE  RingAt(l, <<xListEnd(l)>>, 1)
  <2>1. PICK r : r = <<xListEnd(l)>>
    OBVIOUS
  <2>2. r \in Seq(Node) /\ Len(r) = 1 /\ r[1] = xListEnd(l) /\ r # <<>>
    BY <2>1, NodeTypes
  <2>3. /\ xListEnd(l) \in Node /\ xListEnd(l) \in Ends
        /\ pxNext[xListEnd(l)] = xListEnd(l)
        /\ pxPrevious[xListEnd(l)] = xListEnd(l)
        /\ pxIndex[l] = xListEnd(l) /\ uxNumberOfItems[l] = 0
    BY NodeTypes DEF Init
  <2>4. Members(l) = {xListEnd(l)}
    BY NodeTypes DEF Init, Members
  <2>5. \A n : Contains(r, n) <=> n = xListEnd(l)
    BY <2>2 DEF Contains
  <2>6. IsInjective(r)
    BY <2>2, LenProperties DEF IsInjective
  <2>7. IsRing(pxNext, pxPrevious, r)
    BY <2>2, <2>3, <2>6 DEF IsRing, NextPlace
  <2>8. RingAt(l, r, 1)
    BY <2>2, <2>3, <2>4, <2>5, <2>7 DEF RingAt
  <2>. QED BY <2>1, <2>8
<1>3. ASSUME NEW l \in List
      PROVE  ViewOf(l) = <<>> /\ <<xListEnd(l)>> \in Seq(Node)
  <2>1. PICK r : r = <<xListEnd(l)>>
    OBVIOUS
  <2>2. r \in Seq(Node) /\ Len(r) = 1
    BY <2>1, NodeTypes
  <2>3. ViewOf(l) = RemoveAt(r, 1)
    BY <1>1, <1>2, <2>1, ViewIs
  <2>4. 1 \in 1 .. Len(r)
    BY <2>2
  <2>5. RemoveAt(r, 1) \in Seq(Node) /\ Len(RemoveAt(r, 1)) = Len(r) - 1
    BY <2>2, <2>4, RemoveAtProperties
  <2>6. ViewOf(l) = <<>>
    BY <2>2, <2>3, <2>5, EmptySeq
  <2>. QED BY <2>1, <2>2, <2>6
<1>4. \A l \in List : \E r \in Seq(Node), q \in Nat : RingAt(l, r, q)
  BY <1>2, <1>3
<1>. QED BY <1>1, <1>3, <1>4 DEF RingInv

(* Each step keeps the rings, and is one of ListSpec on the views. *)
LEMMA RingStep ==
  ASSUME RingInv, [Next]_vars
  PROVE  RingInv' /\ [Views!Next]_(Views!vars)
<1> DEFINE view == [l \in List |-> ViewOf(l)]
<1>1. TypeOK /\ Views!List = List
  BY DEF RingInv, Views!List, List
<1>2. \A l \in List : view[l] = ViewOf(l)
  OBVIOUS
<1>4. ASSUME NEW l \in RoundRobin \cup Fifo, NEW x \in Item,
             vListInsertEnd(l, x)
      PROVE  RingInv' /\ Views!Next
  <2>1. l \in List /\ pvContainer[x] = NULL
        /\ UNCHANGED <<xItemValue, owner>>
    BY <1>4 DEF List, vListInsertEnd, Link
  <2>2. /\ TypeOK' /\ Elsewhere(l)
        /\ \E s \in Seq(Node), q \in Nat : RingAt(l, s, q)'
        /\ ViewOf(l)' = ViewInsertEnd(ViewOf(l), x)
    BY <1>4, InsertEndStep
  <2>3. RingInv' /\ view' = [view EXCEPT ![l] = ViewOf(l)']
    BY <2>1, <2>2, StepOn
  <2>4. \A k \in List : ~Contains(ViewOf(k), x)
    BY <2>1, UnlinkedIs
  <2>5. Views!Unlinked(x)
    BY <1>1, <1>2, <2>4, SameViews DEF Views!Unlinked
  <2>6. view' = [view EXCEPT ![l] = Views!ViewInsertEnd(view[l], x)]
    BY <1>2, <2>1, <2>2, <2>3, SameViews
  <2>7. Views!InsertEnd(l, x)
    BY <2>1, <2>5, <2>6 DEF Views!InsertEnd
  <2>. QED BY <1>4, <2>3, <2>7 DEF Views!Next
<1>5. ASSUME NEW l \in Sorted, NEW x \in Item, vListInsert(l, x)
      PROVE  RingInv' /\ Views!Next
  <2>1. l \in List /\ pvContainer[x] = NULL
        /\ UNCHANGED <<xItemValue, owner>>
    BY <1>5 DEF List, vListInsert, Link
  <2>2. /\ TypeOK' /\ Elsewhere(l)
        /\ \E s \in Seq(Node), q \in Nat : RingAt(l, s, q)'
        /\ ViewOf(l)' = ViewInsert(ViewOf(l), xItemValue, x)
    BY <1>5, InsertStep
  <2>3. RingInv' /\ view' = [view EXCEPT ![l] = ViewOf(l)']
    BY <2>1, <2>2, StepOn
  <2>4. \A k \in List : ~Contains(ViewOf(k), x)
    BY <2>1, UnlinkedIs
  <2>5. Views!Unlinked(x)
    BY <1>1, <1>2, <2>4, SameViews DEF Views!Unlinked
  <2>6. view' = [view EXCEPT ![l] = Views!ViewInsert(view[l], xItemValue, x)]
    BY <1>2, <2>1, <2>2, <2>3, SameViews
  <2>7. Views!Insert(l, x)
    BY <2>1, <2>5, <2>6 DEF Views!Insert
  <2>. QED BY <1>5, <2>3, <2>7 DEF Views!Next
<1>6. ASSUME NEW x \in Item, vListRemove(x)
      PROVE  RingInv' /\ Views!Next
  <2>1. PICK l : l = pvContainer[x]
    OBVIOUS
  <2>2. /\ TypeOK' /\ l \in List /\ Elsewhere(l)
        /\ \E s \in Seq(Node), q \in Nat : RingAt(l, s, q)'
        /\ Contains(ViewOf(l), x)
        /\ ViewOf(l)' = ViewRemove(ViewOf(l), x)
    BY <1>6, <2>1, RemoveStep
  <2>3. RingInv' /\ view' = [view EXCEPT ![l] = ViewOf(l)']
    BY <2>2, StepOn
  <2>4. UNCHANGED <<xItemValue, owner>>
    BY <1>6 DEF vListRemove
  <2>5. Views!Contains(view[l], x)
    BY <1>2, <2>2, SameViews
  <2>6. view' = [view EXCEPT ![l] = Views!ViewRemove(view[l], x)]
    BY <1>2, <2>2, <2>3, SameViews
  <2>7. Views!RemoveItem(l, x)
    BY <2>4, <2>5, <2>6 DEF Views!RemoveItem
  <2>. QED BY <1>1, <1>6, <2>2, <2>3, <2>7 DEF Views!Next
<1>7. ASSUME NEW l \in RoundRobin, listGET_OWNER_OF_NEXT_ENTRY(l)
      PROVE  RingInv' /\ Views!Next
  <2>1. l \in List /\ UNCHANGED xItemValue
    BY <1>7 DEF List, listGET_OWNER_OF_NEXT_ENTRY
  <2>2. /\ TypeOK' /\ Elsewhere(l)
        /\ \E s \in Seq(Node), q \in Nat : RingAt(l, s, q)'
        /\ ViewOf(l) # <<>> /\ owner' = Head(ViewOf(l))
        /\ ViewOf(l)' = ViewNext(ViewOf(l))
    BY <1>7, NextStep
  <2>3. RingInv' /\ view' = [view EXCEPT ![l] = ViewOf(l)']
    BY <2>1, <2>2, StepOn
  <2>4. view' = [view EXCEPT ![l] = Views!ViewNext(view[l])]
    BY <1>2, <2>1, <2>2, <2>3, SameViews
  <2>5. view[l] # <<>> /\ owner' = Head(view[l])
    BY <1>2, <2>1, <2>2
  <2>6. Views!NextOwner(l)
    BY <2>1, <2>4, <2>5 DEF Views!NextOwner
  <2>. QED BY <1>7, <2>3, <2>6 DEF Views!Next
<1>8. ASSUME NEW l \in Fifo \cup Sorted, listGET_OWNER_OF_HEAD_ENTRY(l)
      PROVE  RingInv' /\ Views!Next
  <2>1. l \in List
    BY <1>8 DEF List
  <2>2. /\ owner' = IF listLIST_IS_EMPTY(l) THEN NULL ELSE pxNext[xListEnd(l)]
        /\ UNCHANGED <<pxNext, pxPrevious, pvContainer, pxIndex,
                       uxNumberOfItems>>
        /\ UNCHANGED xItemValue
    BY <1>8 DEF listGET_OWNER_OF_HEAD_ENTRY
  <2>3. /\ listLIST_IS_EMPTY(l) <=> ViewOf(l) = <<>>
        /\ ~listLIST_IS_EMPTY(l) =>
              /\ pxNext[xListEnd(l)] \in Item
              /\ pxNext[xListEnd(l)] = Head(ViewOf(l))
    BY <1>8, HeadFirst
  <2>4. TypeOK'
    BY <1>1, <2>2, <2>3 DEF TypeOK
  <2>5. RingInv' /\ view' = view
    BY <2>2, <2>4, StepElse
  <2>6. owner' = IF view[l] = <<>> THEN NULL ELSE Head(view[l])
    BY <1>2, <2>1, <2>2, <2>3
  <2>7. Views!HeadOwner(l)
    BY <2>2, <2>5, <2>6 DEF Views!HeadOwner
  <2>. QED BY <1>8, <2>5, <2>7 DEF Views!Next
<1>9. ASSUME NEW x \in Item, NEW v \in Value, listSET_LIST_ITEM_VALUE(x, v)
      PROVE  RingInv' /\ Views!Next
  <2>1. /\ xItemValue' = [xItemValue EXCEPT ![x] = v]
        /\ UNCHANGED <<pxNext, pxPrevious, pvContainer, pxIndex,
                       uxNumberOfItems>>
        /\ UNCHANGED owner
    BY <1>9 DEF listSET_LIST_ITEM_VALUE
  <2>2. TypeOK'
    BY <1>1, <2>1 DEF TypeOK
  <2>3. RingInv' /\ view' = view
    BY <2>1, <2>2, StepElse
  <2>4. Views!SetValue(x, v)
    BY <2>1, <2>3 DEF Views!SetValue
  <2>. QED BY <1>9, <2>3, <2>4 DEF Views!Next
<1>10. ASSUME UNCHANGED vars
       PROVE  RingInv' /\ UNCHANGED (Views!vars)
  <2>1. /\ UNCHANGED <<pxNext, pxPrevious, pvContainer, pxIndex,
                       uxNumberOfItems>>
        /\ UNCHANGED <<xItemValue, owner>>
    BY <1>10 DEF vars
  <2>2. TypeOK'
    BY <1>1, <2>1 DEF TypeOK
  <2>3. RingInv' /\ view' = view
    BY <2>1, <2>2, StepElse
  <2>. QED BY <2>1, <2>3 DEF Views!vars
<1>. QED BY <1>4, <1>5, <1>6, <1>7, <1>8, <1>9, <1>10 DEF Next

LEMMA RingInvariance == Spec => []RingInv
<1>1. Init => RingInv
  BY RingInit
<1>2. RingInv /\ [Next]_vars => RingInv'
  BY RingStep
<1>. QED BY <1>1, <1>2, PTL DEF Spec

(* Links, containers, indices, counts and owners always have their types: the
   macros of list.h never take an end marker for an item. *)
THEOREM ListTypes == Spec => []TypeOK
<1>1. RingInv => TypeOK
  BY DEF RingInv
<1>. QED BY <1>1, RingInvariance, PTL

(* Every list of list.c stays one ring, linked both ways through its marker,
   of exactly the items that name it, and pxIndex stays on it. *)
THEOREM RingsStayIntact == Spec => []RingIntact
<1>1. RingInv => RingIntact
  <2>. SUFFICES ASSUME RingInv, NEW l \in List
                PROVE  /\ \A n \in Members(l) :
                             /\ pxNext[n] \in Members(l)
                             /\ pxPrevious[pxNext[n]] = n
                             /\ pxPrevious[n] \in Members(l)
                             /\ pxNext[pxPrevious[n]] = n
                       /\ uxNumberOfItems[l] + 1 = Cardinality(Members(l))
                       /\ LET walk == Walk(pxNext, xListEnd(l),
                                           uxNumberOfItems[l])
                          IN  {walk[k] : k \in DOMAIN walk} = Members(l)
                       /\ pxIndex[l] \in Members(l)
    BY DEF RingIntact
  <2>1. PICK r \in Seq(Node), q \in Nat : RingAt(l, r, q)
    BY DEF RingInv
  <2>2. PICK n \in Nat : n = Len(r) /\ n >= 1
    BY <2>1, RingFacts
  <2>3. /\ IsRing(pxNext, pxPrevious, r)
        /\ n = uxNumberOfItems[l] + 1 /\ uxNumberOfItems[l] \in Nat
        /\ \A m : Contains(r, m) <=> m \in Members(l)
        /\ r[n] = pxIndex[l]
        /\ q \in 1 .. Len(r) /\ r[q] = xListEnd(l)
    BY <2>1, <2>2 DEF RingAt, RingInv, TypeOK
  <2>4. /\ \A i \in 1 .. n :
              /\ r[i] \in Members(l)
              /\ pxNext[r[i]] = r[IF i = n THEN 1 ELSE i + 1]
              /\ pxPrevious[r[IF i = n THEN 1 ELSE i + 1]] = r[i]
        /\ \A i, j \in 1 .. n : r[i] = r[j] => i = j
        /\ \A m \in Members(l) : \E i \in 1 .. n : r[i] = m
    <3>1. /\ \A i \in 1 .. Len(r) :
                /\ r[i] \in Members(l)
                /\ pxNext[r[i]] = r[IF i = Len(r) THEN 1 ELSE i + 1]
                /\ pxPrevious[r[IF i = Len(r) THEN 1 ELSE i + 1]] = r[i]
          /\ \A i, j \in 1 .. Len(r) : r[i] = r[j] => i = j
          /\ \A m \in Members(l) : \E i \in 1 .. Len(r) : r[i] = m
      BY <2>1, RingFacts
    <3>. QED BY <2>2, <3>1
  <2>5. ASSUME NEW m \in Members(l)
        PROVE  /\ pxNext[m] \in Members(l) /\ pxPrevious[pxNext[m]] = m
               /\ pxPrevious[m] \in Members(l) /\ pxNext[pxPrevious[m]] = m
    <3>1. PICK i \in 1 .. n : r[i] = m
      BY <2>4
    <3>2. PICK j \in 1 .. n : j = IF i = n THEN 1 ELSE i + 1
      BY <2>2
    <3>3. pxNext[m] = r[j] /\ pxPrevious[r[j]] = m /\ r[j] \in Members(l)
      BY <2>4, <3>1, <3>2
    <3>4. PICK k \in 1 .. n : k = IF i = 1 THEN n ELSE i - 1
      BY <2>2
    <3>5. (IF k = n THEN 1 ELSE k + 1) = i
      BY <2>2, <3>4
    <3>6. /\ pxNext[r[k]] = r[IF k = n THEN 1 ELSE k + 1]
          /\ pxPrevious[r[IF k = n THEN 1 ELSE k + 1]] = r[k]
          /\ r[k] \in Members(l)
      BY <2>4
    <3>7. pxPrevious[m] = r[k] /\ pxNext[r[k]] = m
      BY <3>1, <3>5, <3>6
    <3>. QED BY <3>3, <3>6, <3>7
  <2>6. n = Cardinality(Members(l))
    <3> DEFINE f == [i \in 1 .. n |-> r[i]]
    <3>1. f \in Bijection(1 .. n, Members(l))
      <4>1. f \in [1 .. n -> Members(l)]
        BY <2>4
      <4>2. \A i, j \in 1 .. n : f[i] = f[j] => i = j
        BY <2>4
      <4>3. \A m \in Members(l) : \E i \in 1 .. n : f[i] = m
        BY <2>4
      <4>. HIDE DEF f
      <4>4. f \in Injection(1 .. n, Members(l))
        BY <4>1, <4>2 DEF Injection, IsInjective
      <4>5. f \in Surjection(1 .. n, Members(l))
        BY <4>1, <4>3 DEF Surjection
      <4>. QED BY <4>4, <4>5 DEF Bijection
    <3>2. ExistsBijection(1 .. n, Members(l))
      BY <3>1 DEF ExistsBijection
    <3>. QED BY <3>2, FS_CountingElements
  <2>7. LET walk == Walk(pxNext, xListEnd(l), uxNumberOfItems[l])
        IN  {walk[k] : k \in DOMAIN walk} = Members(l)
    <3>1. PICK s : s = Rotated(r, q)
      OBVIOUS
    <3>2. /\ s \in Seq(Node) /\ Len(s) = n /\ s[n] = xListEnd(l)
          /\ IsRing(pxNext, pxPrevious, s)
          /\ \A m : Contains(s, m) <=> m \in Members(l)
      <4>1. /\ Rotated(r, q) \in Seq(Node)
            /\ Len(Rotated(r, q)) = Len(r)
            /\ Rotated(r, q)[Len(r)] = r[q]
            /\ IsRing(pxNext, pxPrevious, Rotated(r, q))
            /\ \A m : Contains(Rotated(r, q), m) <=> Contains(r, m)
        BY <2>3, RingRotated
      <4>. QED BY <2>2, <2>3, <3>1, <4>1
    <3>3. PICK walk : walk = Walk(pxNext, xListEnd(l), uxNumberOfItems[l])
      OBVIOUS
    <3>4. walk = [k \in 0 .. n - 1 |-> IF k = 0 THEN s[n] ELSE s[k]]
      <4>1. Walk(pxNext, s[Len(s)], Len(s) - 1)
              = [k \in 0 .. Len(s) - 1 |-> IF k = 0 THEN s[Len(s)] ELSE s[k]]
        BY <3>2, RingWalk
      <4>2. uxNumberOfItems[l] = n - 1
        BY <2>3
      <4>. QED BY <3>2, <3>3, <4>1, <4>2
    <3>5. \A i \in 1 .. n : s[i] \in Members(l)
      BY <3>2 DEF Contains
    <3>6. ASSUME NEW m \in Members(l)
          PROVE  \E k \in 0 .. n - 1 : walk[k] = m
      <4>1. PICK i \in 1 .. n : s[i] = m
        BY <3>2 DEF Contains
      <4>2. PICK k \in 0 .. n - 1 : k = IF i = n THEN 0 ELSE i
        BY <2>2
      <4>3. walk[k] = m
        BY <3>4, <4>1, <4>2
      <4>. QED BY <4>3
    <3>7. ASSUME NEW k \in 0 .. n - 1
          PROVE  walk[k] \in Members(l)
      <4>1. PICK i \in 1 .. n : i = IF k = 0 THEN n ELSE k
        BY <2>2
      <4>2. walk[k] = s[i]
        BY <3>4, <4>1
      <4>. QED BY <3>5, <4>2
    <3>8. DOMAIN walk = 0 .. n - 1
      BY <3>4
    <3>9. {walk[k] : k \in DOMAIN walk} = Members(l)
      BY <3>6, <3>7, <3>8
    <3>. QED BY <3>3, <3>9
  <2>8. pxIndex[l] \in Members(l)
    <3>1. n \in 1 .. n
      BY <2>2
    <3>. QED BY <2>3, <2>4, <3>1
  <2>. QED BY <2>3, <2>5, <2>6, <2>7, <2>8
<1>. QED BY <1>1, RingInvariance, PTL

(* The pointers of list.c implement the sequences that tasks.c counts on:
   every step of a list function is the step of ListSpec on the views. *)
THEOREM ListsImplementSequences == Spec => ImplementsListSpec
<1>1. Init => Views!Init
  <2>. SUFFICES ASSUME Init PROVE Views!Init
    OBVIOUS
  <2>1. \A l \in List : ViewOf(l) = <<>>
    BY RingInit
  <2>2. [l \in List |-> ViewOf(l)] = [l \in List |-> <<>>]
    BY <2>1
  <2>3. Views!List = List
    BY DEF Views!List, List
  <2>. QED BY <2>2, <2>3 DEF Views!Init, Init
<1>2. RingInv /\ [Next]_vars => [Views!Next]_(Views!vars)
  BY RingStep
<1>. QED BY <1>1, <1>2, RingInvariance, PTL
         DEF Spec, ImplementsListSpec, Views!Spec

=============================================================================
