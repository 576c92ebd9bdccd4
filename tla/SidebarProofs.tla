---------------------------- MODULE SidebarProofs ----------------------------
(***************************************************************************)
(* Proofs about Sidebar, for every set of pages, highlights, tags and      *)
(* texts and every bound on the inputs: the types, that a comment is never *)
(* in two places, and that a page at rest shows the document with its      *)
(* cards laid out.  The layout is a recursive function; what it computes   *)
(* is proved from the least position at which it could be wrong.           *)
(***************************************************************************)
EXTENDS Sidebar, FiniteSetTheorems, SequenceTheorems, WellFoundedInduction, TLAPS

-----------------------------------------------------------------------------
(* The layout                                                              *)

LEMMA LeastNatural ==
  ASSUME NEW T \in SUBSET Nat, T # {}
  PROVE  \E n \in T : \A m \in T : n <= m
<1> DEFINE R == {ss \in Nat \X Nat : ss[1] < ss[2]}
<1>1. IsWellFoundedOn(R, Nat)
  BY ONLY NatLessThanWellFounded, Zenon DEF OpToRel
<1>2. \A m, n \in Nat : m < n => <<m, n>> \in R
  OBVIOUS
<1>. HIDE DEF R
<1>3. PICK n \in T : \A m \in T : ~(<<m, n>> \in R)
  BY <1>1, WFMin
<1>4. \A m \in T : ~(m < n)
  BY <1>2, <1>3
<1> QED
  BY <1>4

(* Card i of a column of cards with places a and heights b, below y.       *)
Below(y, a, b, i) ==
  IF i = 1 THEN a[1]
  ELSE LET minY == y[i - 1] + b[i - 1] + MIN_GAP
       IN  IF a[i] > minY THEN a[i] ELSE minY

(* y are places for the n cards, all of them natural numbers.              *)
Column(n, a, b, y) ==
  /\ n \in Nat
  /\ a \in [1 .. n -> Nat]
  /\ b \in [1 .. n -> Nat]
  /\ y \in [1 .. n -> Nat]
  /\ \A i \in 1 .. n : y[i] = Below(y, a, b, i)

LEMMA BelowBounds ==
  ASSUME NEW y, NEW a, NEW b, NEW i, a[i] \in Nat,
         i # 1 => y[i - 1] \in Nat /\ b[i - 1] \in Nat
  PROVE  /\ Below(y, a, b, i) \in Nat
         /\ Below(y, a, b, i) >= a[i]
         /\ i # 1 => Below(y, a, b, i) >= y[i - 1] + b[i - 1] + MIN_GAP
         /\ Below(y, a, b, i) > a[i] =>
              i # 1 /\ Below(y, a, b, i) = y[i - 1] + b[i - 1] + MIN_GAP
<1>1. CASE i = 1
  BY <1>1 DEF Below
<1>2. CASE i # 1
  <2> DEFINE at   == a[i]
             minY == y[i - 1] + b[i - 1] + MIN_GAP
  <2>1. Below(y, a, b, i) = IF at > minY THEN at ELSE minY
    BY <1>2 DEF Below
  <2>2. at \in Nat /\ minY \in Nat
    BY <1>2 DEF MIN_GAP
  <2>. HIDE DEF at, minY
  <2>3. /\ Below(y, a, b, i) \in Nat
        /\ Below(y, a, b, i) >= at /\ Below(y, a, b, i) >= minY
        /\ Below(y, a, b, i) > at => Below(y, a, b, i) = minY
    BY <2>1, <2>2
  <2> QED
    BY <1>2, <2>3 DEF at, minY
<1> QED
  BY <1>1, <1>2

(* A column that is laid out holds numbers: there is no first card whose   *)
(* place is not one.                                                       *)
LEMMA ColumnIsNat ==
  ASSUME NEW n \in Nat, NEW a \in [1 .. n -> Nat], NEW b \in [1 .. n -> Nat],
         NEW y, \A i \in 1 .. n : y[i] = Below(y, a, b, i)
  PROVE  \A i \in 1 .. n : y[i] \in Nat
<1> DEFINE Bad == {i \in 1 .. n : y[i] \notin Nat}
<1>1. SUFFICES ASSUME Bad # {} PROVE FALSE
  OBVIOUS
<1>2. PICK i \in Bad : \A m \in Bad : i <= m
  <2>1. Bad \in SUBSET Nat
    OBVIOUS
  <2>. HIDE DEF Bad
  <2> QED
    BY <1>1, <2>1, LeastNatural
<1>3. i \in 1 .. n /\ y[i] = Below(y, a, b, i)
  OBVIOUS
<1>4. i # 1 => y[i - 1] \in Nat /\ b[i - 1] \in Nat
  <2> SUFFICES ASSUME i # 1 PROVE y[i - 1] \in Nat /\ b[i - 1] \in Nat
    OBVIOUS
  <2>1. i - 1 \in 1 .. n /\ ~(i <= i - 1)
    BY <1>3
  <2> QED
    BY <1>2, <2>1
<1>5. a[i] \in Nat
  BY <1>3
<1>6. Below(y, a, b, i) \in Nat
  BY <1>4, <1>5, BelowBounds
<1> QED
  BY <1>3, <1>6

(* Every column has a layout: there is no shortest one that has none.      *)
LEMMA ColumnExists ==
  ASSUME NEW n \in Nat, NEW a \in [1 .. n -> Nat], NEW b \in [1 .. n -> Nat]
  PROVE  \E y : y = [i \in 1 .. n |-> Below(y, a, b, i)]
<1> DEFINE Has(m) == \E y : y = [i \in 1 .. m |-> Below(y, a, b, i)]
           Bad == {m \in 0 .. n : ~Has(m)}
<1>1. SUFFICES ASSUME Bad # {} PROVE FALSE
  <2>1. n \in 0 .. n
    OBVIOUS
  <2> QED
    BY <1>1, <2>1
<1>2. PICK m \in Bad : \A k \in Bad : m <= k
  <2>1. Bad \in SUBSET Nat
    OBVIOUS
  <2>. HIDE DEF Bad
  <2> QED
    BY <1>1, <2>1, LeastNatural
<1>3. m \in 0 .. n /\ ~Has(m)
  OBVIOUS
<1>4. CASE m = 0
  <2> DEFINE y == [i \in 1 .. m |-> 0]
  <2>1. y = [i \in 1 .. m |-> Below(y, a, b, i)]
    BY <1>4
  <2> QED
    BY <1>3, <2>1
<1>5. CASE m > 0
  <2>1. m - 1 \in 0 .. n /\ ~(m <= m - 1)
    BY <1>3, <1>5
  <2>2. Has(m - 1)
    BY <1>2, <2>1
  <2>3. PICK x : x = [i \in 1 .. m - 1 |-> Below(x, a, b, i)]
    BY <2>2
  <2> DEFINE y == [i \in 1 .. m |-> IF i = m THEN Below(x, a, b, m) ELSE x[i]]
  <2>4. ASSUME NEW i \in 1 .. m PROVE y[i] = Below(y, a, b, i)
    <3>1. i # 1 => i - 1 \in 1 .. m - 1 /\ i - 1 # m /\ i - 1 \in 1 .. m
      BY <1>3, <1>5
    <3>2. i # 1 => y[i - 1] = x[i - 1]
      BY <3>1
    <3>. HIDE DEF y
    <3>3. Below(y, a, b, i) = Below(x, a, b, i)
      BY <3>2 DEF Below
    <3>4. i # m => i \in 1 .. m - 1
      BY <1>3, <1>5
    <3>5. i # m => x[i] = Below(x, a, b, i)
      BY <2>3, <3>4
    <3> QED
      BY <3>3, <3>5 DEF y
  <2>5. y = [i \in 1 .. m |-> Below(y, a, b, i)]
    <3> HIDE DEF Below
    <3> QED
      BY <2>4
  <2>. HIDE DEF y
  <2>6. Has(m)
    BY <2>5
  <2> QED
    BY <1>3, <2>6
<1> QED
  BY <1>3, <1>4, <1>5

(* No card overlaps one before it: there is no first card that does.       *)
LEMMA ColumnClear ==
  ASSUME NEW n, NEW a, NEW b, NEW y, Column(n, a, b, y),
         NEW k \in 1 .. n, NEW j \in 1 .. n, k < j
  PROVE  y[k] + b[k] + MIN_GAP <= y[j]
<1> USE DEF Column
<1> DEFINE Bad == {i \in k + 1 .. n : ~(y[k] + b[k] + MIN_GAP <= y[i])}
<1>1. SUFFICES ASSUME Bad # {} PROVE FALSE
  <2>1. j \in k + 1 .. n
    OBVIOUS
  <2> QED
    BY <1>1, <2>1
<1>2. PICK i \in Bad : \A m \in Bad : i <= m
  <2>1. Bad \in SUBSET Nat
    OBVIOUS
  <2>. HIDE DEF Bad
  <2> QED
    BY <1>1, <2>1, LeastNatural
<1>3. i \in 1 .. n /\ i > k /\ ~(y[k] + b[k] + MIN_GAP <= y[i])
  OBVIOUS
<1>4. i - 1 \in 1 .. n /\ i # 1
  BY <1>3
<1>5. y[i - 1] + b[i - 1] + MIN_GAP <= y[i]
  <2>1. y[i] = Below(y, a, b, i)
    BY <1>3
  <2>2. y[i - 1] \in Nat /\ b[i - 1] \in Nat /\ a[i] \in Nat
    BY <1>3, <1>4
  <2>3. Below(y, a, b, i) >= y[i - 1] + b[i - 1] + MIN_GAP
    BY <1>4, <2>2, BelowBounds
  <2>4. y[i] >= y[i - 1] + b[i - 1] + MIN_GAP
    BY ONLY <2>1, <2>3
  <2>5. y[i] \in Nat
    BY <1>3
  <2> QED
    BY ONLY <2>2, <2>4, <2>5 DEF MIN_GAP
<1>6. CASE i - 1 = k
  BY <1>3, <1>5, <1>6
<1>7. CASE i - 1 > k
  <2>1. i - 1 \in k + 1 .. n /\ ~(i <= i - 1)
    BY <1>3, <1>7
  <2>2. i - 1 \notin Bad
    BY <1>2, <2>1
  <2>3. y[k] + b[k] + MIN_GAP <= y[i - 1]
    BY <2>1, <2>2
  <2>4. y[k] \in Nat /\ b[k] \in Nat /\ y[i - 1] \in Nat /\ b[i - 1] \in Nat
        /\ y[i] \in Nat
    BY <1>3, <1>4
  <2>. HIDE DEF Bad
  <2>5. \A p, q, r, s, t \in Nat :
          p + q + MIN_GAP <= r /\ r + s + MIN_GAP <= t => p + q + MIN_GAP <= t
    BY DEF MIN_GAP
  <2>6. y[k] + b[k] + MIN_GAP <= y[i]
    BY ONLY <1>5, <2>3, <2>4, <2>5
  <2> QED
    BY <1>3, <2>6
<1> QED
  BY <1>3, <1>6, <1>7

LEMMA ColumnAtText ==
  ASSUME NEW n, NEW a, NEW b, NEW y, Column(n, a, b, y),
         NEW i \in 1 .. n
  PROVE  y[i] >= a[i]
<1> USE DEF Column
<1>1. y[i] = Below(y, a, b, i) /\ a[i] \in Nat
  OBVIOUS
<1>2. i # 1 => y[i - 1] \in Nat /\ b[i - 1] \in Nat
  OBVIOUS
<1>3. Below(y, a, b, i) >= a[i]
  BY <1>1, <1>2, BelowBounds
<1> QED
  BY ONLY <1>1, <1>3, Zenon

LEMMA ColumnPushed ==
  ASSUME NEW n, NEW a, NEW b, NEW y, Column(n, a, b, y),
         NEW i \in 1 .. n, y[i] > a[i]
  PROVE  i - 1 \in 1 .. n /\ y[i - 1] + b[i - 1] + MIN_GAP = y[i]
<1> USE DEF Column
<1>1. y[i] = Below(y, a, b, i) /\ a[i] \in Nat
  OBVIOUS
<1>2. i # 1 => i - 1 \in 1 .. n /\ y[i - 1] \in Nat /\ b[i - 1] \in Nat
  OBVIOUS
<1>3. Below(y, a, b, i) > a[i]
  BY ONLY <1>1, y[i] > a[i], Zenon
<1>4. i # 1 /\ Below(y, a, b, i) = y[i - 1] + b[i - 1] + MIN_GAP
  <2>1. a[i] \in Nat
    BY <1>1
  <2>2. i # 1 => y[i - 1] \in Nat /\ b[i - 1] \in Nat
    BY <1>2
  <2> HIDE DEF Below
  <2> QED
    BY ONLY <1>3, <2>1, <2>2, BelowBounds
<1> QED
  BY ONLY <1>1, <1>2, <1>4, Zenon


-----------------------------------------------------------------------------
(* The sets the variables live in                                          *)

Docs == PartialFunctions(Highlights, Item)

(* Where cards are laid out: each at its text or below, clear of the       *)
(* others, and pushed down only by one that ends right above it.           *)
Ends(p, h) == p.tops[h] + Height(p, h) + MIN_GAP

Laid(p) ==
  \A h \in DOMAIN p.items :
    /\ h \in DOMAIN p.tops
    /\ p.tops[h] >= Start[h]
    /\ \A k \in DOMAIN p.items \ {h} :
         Ends(p, h) <= p.tops[k] \/ Ends(p, k) <= p.tops[h]
    /\ p.tops[h] > Start[h] =>
         \E k \in DOMAIN p.items \ {h} : Ends(p, k) = p.tops[h]

LEMMA DocsFacts ==
  ASSUME NEW d \in Docs
  PROVE  /\ DOMAIN d \in SUBSET Highlights
         /\ \A h \in DOMAIN d : d[h] \in Item
         /\ d = [h \in DOMAIN d |-> d[h]]
BY DEF Docs, PartialFunctions

LEMMA HeightIsNat ==
  ASSUME NEW p, p.items \in Docs, NEW h \in DOMAIN p.items
  PROVE  Height(p, h) \in Nat
<1>1. p.items[h] \in Item
  BY DocsFacts
<1>2. Len(p.items[h].comments) \in Nat
  BY <1>1 DEF Item
<1> QED
  BY <1>2 DEF Height, DetailHeight

(* An order of a finite set lists each member at one position.             *)
LEMMA OrderFacts ==
  ASSUME NEW S, IsFiniteSet(S), NEW order \in Orders(S)
  PROVE  /\ Cardinality(S) \in Nat
         /\ order \in [1 .. Cardinality(S) -> S]
         /\ \A i, j \in 1 .. Cardinality(S) : order[i] = order[j] => i = j
         /\ Range(order) = S
<1> DEFINE n == Cardinality(S)
<1>1. /\ order \in [1 .. n -> S]
      /\ \A i, j \in 1 .. n : order[i] = order[j] => i = j
  BY DEF Orders, SetToSeqs
<1>2. n \in Nat
  BY FS_CardinalityType
<1>3. IsFiniteSet(1 .. n) /\ Cardinality(1 .. n) = Cardinality(S)
  BY <1>2, FS_Interval
<1>4. order \in Injection(1 .. n, S)
  BY <1>1 DEF Injection, IsInjective
<1>. HIDE DEF n
<1>5. order \in Surjection(1 .. n, S)
  BY <1>3, <1>4, FS_Injection
<1>6. Range(order) = S
  BY <1>1, <1>5 DEF Surjection, Range
<1> QED
  BY <1>1, <1>2, <1>6 DEF n

(* An order of n cards of S, with their places a and their heights b.      *)
Stacked(p, n, S, order, a, b) ==
  /\ n \in Nat
  /\ order \in [1 .. n -> S]
  /\ \A i, j \in 1 .. n : order[i] = order[j] => i = j
  /\ a \in [1 .. n -> Nat] /\ b \in [1 .. n -> Nat]
  /\ \A i \in 1 .. n : a[i] = Start[order[i]] /\ b[i] = Height(p, order[i])

(* The function positionCards computes: the column of the cards in order.  *)
LEMMA PositionsColumn ==
  ASSUME NEW p, NEW n, NEW S, NEW order, NEW a, NEW b,
         Stacked(p, n, S, order, a, b)
  PROVE  \E y :
           /\ Column(n, a, b, y)
           /\ Positions(p, order) = [h \in Range(order) |-> Positions(p, order)[h]]
           /\ \A i \in 1 .. n : Positions(p, order)[order[i]] = y[i]
<1> DEFINE Card(y, i) ==
             IF i = 1 THEN Start[order[1]]
             ELSE LET minY == y[i - 1] + Height(p, order[i - 1]) + MIN_GAP
                  IN  IF Start[order[i]] > minY THEN Start[order[i]] ELSE minY
           y == CHOOSE f : f = [i \in DOMAIN order |-> Card(f, i)]
<1> USE DEF Stacked
<1>1. ASSUME NEW f, NEW i \in 1 .. n PROVE Card(f, i) = Below(f, a, b, i)
  <2>1. a[i] = Start[order[i]] /\ (i # 1 => b[i - 1] = Height(p, order[i - 1]))
    OBVIOUS
  <2> QED
    BY <2>1 DEF Below
<1>2. Positions(p, order) =
        [h \in Range(order) |-> y[CHOOSE i \in DOMAIN order : order[i] = h]]
  BY Zenon DEF Positions
<1>. HIDE DEF Card
<1>3. \E f : f = [i \in DOMAIN order |-> Card(f, i)]
  <2>1. PICK f : f = [i \in 1 .. n |-> Below(f, a, b, i)]
    BY ColumnExists, ZenonT(40)
  <2>2. \A i \in 1 .. n : Card(f, i) = Below(f, a, b, i)
    BY <1>1
  <2>3. f = [i \in DOMAIN order |-> Card(f, i)]
    BY <2>1, <2>2, SMTT(30)
  <2> QED
    BY <2>3
<1>4. y = [i \in DOMAIN order |-> Card(y, i)]
  BY <1>3, Zenon
<1>. HIDE DEF y
<1>5. y = [i \in 1 .. n |-> Below(y, a, b, i)]
  <2>1. \A i \in 1 .. n : Card(y, i) = Below(y, a, b, i)
    BY <1>1
  <2>2. DOMAIN order = 1 .. n
    OBVIOUS
  <2>3. y = [i \in 1 .. n |-> Card(y, i)]
    BY <1>4, <2>2, Zenon
  <2>. HIDE DEF Below
  <2>4. [i \in 1 .. n |-> Card(y, i)] = [i \in 1 .. n |-> Below(y, a, b, i)]
    BY <2>1
  <2> QED
    BY <2>3, <2>4, Zenon
<1>6. \A i \in 1 .. n : y[i] = Below(y, a, b, i)
  <2>. HIDE DEF Below
  <2> QED
    BY <1>5, Zenon
<1>7. y \in [1 .. n -> Nat]
  <2>1. \A i \in 1 .. n : y[i] \in Nat
    <3>1. n \in Nat /\ a \in [1 .. n -> Nat] /\ b \in [1 .. n -> Nat]
      OBVIOUS
    <3> QED
      BY ONLY <1>6, <3>1, ColumnIsNat, Zenon
  <2>. HIDE DEF Below
  <2>2. DOMAIN y = 1 .. n /\ y = [i \in DOMAIN y |-> y[i]]
    BY <1>5
  <2> QED
    BY <2>1, <2>2
<1>8. DOMAIN order = 1 .. n /\ Range(order) = {order[i] : i \in 1 .. n}
  BY DEF Range
<1>. HIDE DEF Below
<1>9. Positions(p, order) = [h \in Range(order) |-> Positions(p, order)[h]]
  BY <1>2
<1>10. ASSUME NEW i \in 1 .. n PROVE Positions(p, order)[order[i]] = y[i]
  <2>1. (CHOOSE j \in DOMAIN order : order[j] = order[i]) = i
    BY <1>8
  <2>2. order[i] \in Range(order)
    BY <1>8
  <2>3. Positions(p, order)[order[i]] =
          y[CHOOSE j \in DOMAIN order : order[j] = order[i]]
    BY <1>2, <2>2
  <2> QED
    BY <2>1, <2>3
<1>11. Column(n, a, b, y)
  BY <1>6, <1>7 DEF Column
<1> QED
  BY <1>9, <1>10, <1>11

(* positionCards lays the cards out, in every order it may choose.         *)
LEMMA PositionsLaid ==
  ASSUME NEW p, p.items \in Docs, IsFiniteSet(DOMAIN p.items),
         NEW order \in Orders(DOMAIN p.items),
         NEW q, q.items = p.items, q.expanded = p.expanded,
         q.tops = Positions(p, order)
  PROVE  /\ Laid(q)
         /\ q.tops \in PartialFunctions(Highlights, Nat)
<1> DEFINE S     == DOMAIN p.items
           n     == Cardinality(S)
           a     == [i \in 1 .. n |-> Start[order[i]]]
           b     == [i \in 1 .. n |-> Height(p, order[i])]
           at(h) == CHOOSE i \in DOMAIN order : order[i] = h
<1>1. /\ n \in Nat
      /\ order \in [1 .. n -> S]
      /\ \A i, j \in 1 .. n : order[i] = order[j] => i = j
      /\ Range(order) = S
  BY OrderFacts
<1>2. \A h \in S : h \in Highlights /\ Height(p, h) \in Nat /\ Start[h] \in Nat
  BY HeightIsNat, DocsFacts, StartAssumption
<1>3. \A h \in S : Height(q, h) = Height(p, h)
  BY DEF Height
<1>4. \A h \in S : at(h) \in 1 .. n /\ order[at(h)] = h
  <2>1. DOMAIN order = 1 .. n
    BY <1>1
  <2>2. \A h \in S : \E i \in DOMAIN order : order[i] = h
    BY <1>1 DEF Range
  <2>. HIDE DEF S, n
  <2> QED
    BY <2>1, <2>2
<1>. HIDE DEF S, n
<1>5. a \in [1 .. n -> Nat] /\ b \in [1 .. n -> Nat]
  BY <1>1, <1>2
<1>6. \A i \in 1 .. n : a[i] = Start[order[i]] /\ b[i] = Height(p, order[i])
  OBVIOUS
<1>. HIDE DEF a, b
<1>7. PICK y :
        /\ Column(n, a, b, y)
        /\ Positions(p, order) = [h \in Range(order) |-> Positions(p, order)[h]]
        /\ \A i \in 1 .. n : Positions(p, order)[order[i]] = y[i]
  <2>1. Stacked(p, n, S, order, a, b)
    BY <1>1, <1>5, <1>6 DEF Stacked
  <2> QED
    BY <2>1, PositionsColumn
<1>. HIDE DEF at
<1>8. y \in [1 .. n -> Nat]
  BY <1>7 DEF Column
<1>9. q.tops = [h \in S |-> y[at(h)]]
  <2>1. \A h \in S : Positions(p, order)[h] = y[at(h)]
    BY <1>4, <1>7
  <2> QED
    BY <1>1, <1>7, <2>1
<1>10. q.tops \in PartialFunctions(Highlights, Nat)
  <2>1. q.tops \in [S -> Nat]
    BY <1>4, <1>9, <1>8
  <2>2. S \in SUBSET Highlights
    BY <1>2
  <2> QED
    BY <2>1, <2>2 DEF PartialFunctions
<1>11. \A h \in S : /\ q.tops[h] = y[at(h)] /\ q.tops[h] \in Nat
                    /\ a[at(h)] = Start[h]
                    /\ b[at(h)] = Height(q, h)
                    /\ Ends(q, h) = y[at(h)] + b[at(h)] + MIN_GAP
  BY <1>3, <1>4, <1>6, <1>9, <1>8 DEF Ends
<1>12. ASSUME NEW h \in S PROVE q.tops[h] >= Start[h]
  <2>1. at(h) \in 1 .. n
    BY <1>4
  <2>2. y[at(h)] >= a[at(h)]
    BY <1>7, <2>1, ColumnAtText
  <2> QED
    BY ONLY <1>11, <2>2, <1>12
<1>13. ASSUME NEW h \in S, NEW k \in S, at(h) < at(k)
       PROVE  Ends(q, h) <= q.tops[k]
  <2>1. y[at(h)] + b[at(h)] + MIN_GAP <= y[at(k)]
    BY <1>4, <1>7, <1>13, ColumnClear
  <2> QED
    BY <1>11, <2>1
<1>14. ASSUME NEW h \in S, NEW k \in S \ {h}
       PROVE  Ends(q, h) <= q.tops[k] \/ Ends(q, k) <= q.tops[h]
  <2>1. at(h) \in Nat /\ at(k) \in Nat /\ at(h) # at(k)
    BY <1>1, <1>4
  <2>2. at(h) < at(k) \/ at(k) < at(h)
    BY <2>1
  <2> QED
    BY <1>13, <2>2
<1>15. ASSUME NEW h \in S, q.tops[h] > Start[h]
       PROVE  \E k \in S \ {h} : Ends(q, k) = q.tops[h]
  <2> DEFINE i == at(h)
  <2>1. i \in 1 .. n /\ y[i] > a[i]
    BY <1>4, <1>11, <1>15
  <2>. HIDE DEF i
  <2>2. i - 1 \in 1 .. n /\ y[i - 1] + b[i - 1] + MIN_GAP = y[i]
    BY <1>7, <2>1, ColumnPushed
  <2> DEFINE k == order[i - 1]
  <2>3. k \in S /\ at(k) = i - 1
    BY <1>1, <1>4, <2>2
  <2>4. k # h
    <3>1. i \in Nat
      BY <1>1, <2>1
    <3> QED
      BY <2>3, <3>1 DEF i
  <2>5. Ends(q, k) = y[i - 1] + b[i - 1] + MIN_GAP
    BY <1>11, <2>3
  <2>6. Ends(q, k) = q.tops[h]
    BY <1>11, <2>2, <2>5 DEF i
  <2> QED
    BY <2>3, <2>4, <2>6
<1>16. DOMAIN q.items = S /\ DOMAIN q.tops = S
  BY <1>9 DEF S
<1> QED
  BY <1>10, <1>12, <1>14, <1>15, <1>16, Zenon DEF Laid
-----------------------------------------------------------------------------
(* Types                                                                   *)

Values == Tags \cup Texts \cup Refs \cup {Empty} \cup BOOLEAN

(* An event names a highlight and carries what its kind calls for.         *)
WellFormed(e) ==
  /\ e.kind = "change_tag" => e.value \in Tags
  /\ e.kind = "submit_comment" => e.value \in Texts
  /\ e.kind = "edit_para_ref" => e.value \in Refs \cup {Empty}
  /\ e.kind # "tab_shown" => e.id \in Highlights

Events == {e \in [kind : Kinds, id : Highlights \cup {Empty}, value : Values] :
             WellFormed(e)}

Pushes == [items : Docs, expanded_ids : SUBSET Highlights, ready : BOOLEAN]

Pages == [items : Docs, expanded : SUBSET Highlights, built : SUBSET Highlights,
          drafts : [Highlights -> Texts \cup {Empty}],
          refDrafts : PartialFunctions(Highlights, Refs \cup {Empty}),
          frame : BOOLEAN, tops : PartialFunctions(Highlights, Nat),
          ready : BOOLEAN, shown : BOOLEAN]

(* The inductive form of TypeOK: the messages under way are typed too.     *)
Shape ==
  /\ scene \in Scenes
  /\ doc \in Docs
  /\ owed \in [Clients -> Nat]
  /\ expanded_cards \in [Clients -> SUBSET Highlights]
  /\ up \in [Clients -> Seq(Events)]
  /\ down \in [Clients -> Seq(Pushes)]
  /\ page \in [Clients -> Pages]
  /\ \A c \in Clients : page[c].expanded \subseteq page[c].built
  /\ typed \in SUBSET Texts
  /\ inputs \in 0 .. scene.inputs

LEMMA SceneFacts ==
  ASSUME NEW s \in Scenes
  PROVE  /\ s.pages \in SUBSET Clients /\ s.highlights \in SUBSET Highlights
         /\ s.fresh \in BOOLEAN /\ s.inputs \in Nat
BY ScenesAssumption

LEMMA FunctionIsPartial ==
  ASSUME NEW S, NEW T, NEW D \in SUBSET S, NEW f \in [D -> T]
  PROVE  f \in PartialFunctions(S, T)
BY DEF PartialFunctions

LEMMA NewItems ==
  ASSUME NEW t \in Tags
  PROVE  [tag : {t}, para_ref : Refs \cup {Empty}, comments : {<<>>}] \subseteq Item
<1> DEFINE Comment == [text : Texts, by : Clients]
<1>1. <<>> \in Seq(Comment)
  OBVIOUS
<1>. HIDE DEF Comment
<1>2. [tag : {t}, para_ref : Refs \cup {Empty}, comments : {<<>>}]
      \subseteq [tag : Tags, para_ref : Refs \cup {Empty}, comments : Seq(Comment)]
  BY <1>1
<1> QED
  BY <1>2 DEF Item, Comment

LEMMA InitShape == Init => Shape
<1> SUFFICES ASSUME Init PROVE Shape
  OBVIOUS
<1> USE DEF Init
<1>1. scene.highlights \in SUBSET Highlights /\ scene.inputs \in Nat
      /\ scene.fresh \in BOOLEAN
  BY SceneFacts
<1>2. doc \in Docs
  <2> DEFINE First == [tag : {CHOOSE t \in Tags : TRUE},
                       para_ref : Refs \cup {Empty}, comments : {<<>>}]
  <2>1. (CHOOSE t \in Tags : TRUE) \in Tags
    BY NamesAssumption
  <2>2. First \subseteq Item
    BY <2>1, NewItems
  <2>3. doc \in [scene.highlights -> First]
    BY Zenon
  <2>. HIDE DEF First
  <2>4. doc \in [scene.highlights -> Item]
    BY ONLY <2>2, <2>3
  <2> QED
    BY <1>1, <2>4, FunctionIsPartial DEF Docs
<1> DEFINE some == IF scene.fresh THEN {} ELSE scene.highlights
<1>3. some \in SUBSET Highlights
  BY <1>1
<1>4. OpenPage(some) \in Pages
  <2>1. <<>> \in PartialFunctions(Highlights, Refs \cup {Empty})
        /\ <<>> \in PartialFunctions(Highlights, Nat)
    <3>1. {} \in SUBSET Highlights /\ <<>> \in [{} -> Refs \cup {Empty}]
          /\ <<>> \in [{} -> Nat]
      OBVIOUS
    <3> QED
      BY <3>1, FunctionIsPartial
  <2>2. (~scene.fresh) \in BOOLEAN
    BY Zenon
  <2>. HIDE DEF some
  <2> QED
    BY <1>2, <1>3, <2>1, <2>2 DEF OpenPage, Pages
<1>5. OpenPage(some).expanded \subseteq OpenPage(some).built
  BY DEF OpenPage
<1>6. page = [c \in Clients |-> OpenPage(some)]
      /\ expanded_cards = [c \in Clients |-> some]
  OBVIOUS
<1>. HIDE DEF some
<1>7. page \in [Clients -> Pages]
      /\ \A c \in Clients : page[c].expanded \subseteq page[c].built
  BY <1>4, <1>5, <1>6
<1>8. up \in [Clients -> Seq(Events)] /\ down \in [Clients -> Seq(Pushes)]
  OBVIOUS
<1>9. inputs \in 0 .. scene.inputs /\ typed \in SUBSET Texts
  BY <1>1
<1> QED
  BY <1>2, <1>3, <1>6, <1>7, <1>8, <1>9 DEF Shape

-----------------------------------------------------------------------------
(* What a user's input does                                                *)

(* The drafts are left alone and nothing is submitted.                     *)
Calm(c, p, es) ==
  /\ p.drafts = page[c].drafts
  /\ \A i \in 1 .. Len(es) : es[i].kind # "submit_comment"
  /\ typed' = typed

(* A comment that was never typed before becomes a draft.                  *)
Typing(c, p, es) ==
  \E h \in Highlights, text \in Texts \ typed :
    /\ p.drafts = [page[c].drafts EXCEPT ![h] = text]
    /\ es = <<>>
    /\ typed' = typed \cup {text}

(* A draft is emptied as it is sent.                                       *)
Sending(c, p, es) ==
  \E h \in Highlights :
    /\ page[c].drafts[h] # Empty
    /\ p.drafts = [page[c].drafts EXCEPT ![h] = Empty]
    /\ es = <<Event("submit_comment", h, page[c].drafts[h])>>
    /\ typed' = typed

(* What was laid out stays so, unless the cards are placed again.          *)
KeepsLayout(q, p, es) ==
  \/ p.frame
  \/ /\ p.frame = q.frame /\ p.expanded = q.expanded
     /\ \/ ~p.shown
        \/ p.shown = q.shown
        \/ Len(es) > 0 /\ es[1].kind = "tab_shown"

Input(c, p, es) ==
  /\ p \in Pages /\ p.expanded \subseteq p.built
  /\ p.items = page[c].items /\ p.tops = page[c].tops /\ p.ready = page[c].ready
  /\ es \in Seq(Events)
  /\ KeepsLayout(page[c], p, es)
  /\ Emits(c, p, es)

UserInput(c) ==
  \E p, es : Input(c, p, es) /\ (Calm(c, p, es) \/ Typing(c, p, es) \/ Sending(c, p, es))

LEMMA IsUserInput ==
  ASSUME NEW c, NEW p, NEW es, Input(c, p, es),
         Calm(c, p, es) \/ Typing(c, p, es) \/ Sending(c, p, es)
  PROVE  UserInput(c)
BY DEF UserInput

LEMMA EventIn ==
  ASSUME NEW kind \in Kinds, NEW h \in Highlights \cup {Empty}, NEW value \in Values,
         kind = "change_tag" => value \in Tags,
         kind = "submit_comment" => value \in Texts,
         kind = "edit_para_ref" => value \in Refs \cup {Empty},
         kind # "tab_shown" => h \in Highlights
  PROVE  Event(kind, h, value) \in Events /\ Event(kind, h, value).kind = kind
BY DEF Event, Events, WellFormed

LEMMA OneEvent ==
  ASSUME NEW e \in Events
  PROVE  <<e>> \in Seq(Events) /\ Len(<<e>>) = 1 /\ <<e>>[1] = e
OBVIOUS

(* The page of an input that changes no draft and emits nothing to submit. *)
LEMMA CalmInput ==
  ASSUME NEW c, NEW p, NEW es, Input(c, p, es), UNCHANGED typed,
         p.drafts = page[c].drafts,
         \A i \in 1 .. Len(es) : es[i].kind # "submit_comment"
  PROVE  UserInput(c)
BY IsUserInput DEF Calm

LEMMA ToggleExpandInput ==
  ASSUME Shape, UNCHANGED typed, NEW c \in Clients, NEW h \in Highlights,
         ToggleExpand(c, h)
  PROVE  UserInput(c)
<1> DEFINE p  == toggleExpand(page[c], h)
           v  == h \notin page[c].expanded
           e  == Event("toggle_expand", h, v)
           es == <<e>>
<1>1. page[c] \in Pages /\ page[c].expanded \subseteq page[c].built
  BY DEF Shape
<1>2. p \in Pages /\ p.expanded \subseteq p.built
      /\ p.items = page[c].items /\ p.tops = page[c].tops /\ p.ready = page[c].ready
      /\ p.drafts = page[c].drafts /\ p.frame
  BY <1>1 DEF toggleExpand, Pages
<1>3. v \in Values
  <2>1. v \in BOOLEAN
    BY Zenon
  <2> QED
    BY <2>1 DEF Values
<1>4. Emits(c, p, es)
  BY Zenon DEF ToggleExpand
<1>. HIDE DEF p, v
<1>5. e \in Events /\ e.kind = "toggle_expand"
  BY <1>3, EventIn DEF Kinds
<1>. HIDE DEF e
<1>6. es \in Seq(Events) /\ Len(es) = 1 /\ es[1] = e
  BY <1>5, OneEvent
<1>. HIDE DEF es
<1>7. Input(c, p, es)
  BY <1>2, <1>4, <1>6 DEF Input, KeepsLayout
<1> QED
  BY <1>2, <1>5, <1>6, <1>7, CalmInput

LEMMA TagChangeInput ==
  ASSUME Shape, UNCHANGED typed, NEW c \in Clients, NEW h \in Highlights,
         NEW tag \in Tags, TagChange(c, h, tag)
  PROVE  UserInput(c)
<1> DEFINE e  == Event("change_tag", h, tag)
           es == <<e>>
<1>1. page[c] \in Pages /\ page[c].expanded \subseteq page[c].built
  BY DEF Shape
<1>2. Emits(c, page[c], es)
  BY Zenon DEF TagChange
<1>3. e \in Events /\ e.kind = "change_tag"
  BY EventIn DEF Kinds, Values
<1>. HIDE DEF e
<1>4. es \in Seq(Events) /\ Len(es) = 1 /\ es[1] = e
  BY <1>3, OneEvent
<1>. HIDE DEF es
<1>5. Input(c, page[c], es)
  BY <1>1, <1>2, <1>4 DEF Input, KeepsLayout
<1> QED
  BY <1>3, <1>4, <1>5, CalmInput

LEMMA TypeCommentInput ==
  ASSUME Shape, NEW c \in Clients, NEW h \in Highlights, NEW text \in Texts,
         TypeComment(c, h, text)
  PROVE  UserInput(c)
<1> DEFINE p == [page[c] EXCEPT !.drafts[h] = text]
<1>1. page[c] \in Pages /\ page[c].expanded \subseteq page[c].built
  BY DEF Shape
<1>2. p \in Pages /\ p.expanded = page[c].expanded /\ p.built = page[c].built
      /\ p.items = page[c].items /\ p.tops = page[c].tops /\ p.ready = page[c].ready
      /\ p.frame = page[c].frame /\ p.shown = page[c].shown
      /\ p.drafts = [page[c].drafts EXCEPT ![h] = text]
  BY <1>1 DEF Pages
<1>3. Emits(c, p, <<>>) /\ text \notin typed /\ typed' = typed \cup {text}
  BY DEF TypeComment
<1>. HIDE DEF p
<1>4. Input(c, p, <<>>)
  BY <1>1, <1>2, <1>3 DEF Input, KeepsLayout
<1>5. Typing(c, p, <<>>)
  BY <1>2, <1>3 DEF Typing
<1> QED
  BY <1>4, <1>5, IsUserInput

LEMMA SubmitCommentInput ==
  ASSUME Shape, UNCHANGED typed, NEW c \in Clients, NEW h \in Highlights,
         SubmitComment(c, h)
  PROVE  UserInput(c)
<1> DEFINE p  == Submitted(page[c], h)
           e  == Event("submit_comment", h, page[c].drafts[h])
           es == <<e>>
<1>1. page[c] \in Pages /\ page[c].expanded \subseteq page[c].built
  BY DEF Shape
<1>2. p \in Pages /\ p.expanded = page[c].expanded /\ p.built = page[c].built
      /\ p.items = page[c].items /\ p.tops = page[c].tops /\ p.ready = page[c].ready
      /\ p.frame = page[c].frame /\ p.shown = page[c].shown
      /\ p.drafts = [page[c].drafts EXCEPT ![h] = Empty]
  BY <1>1 DEF Pages, Submitted
<1>3. Emits(c, p, es) /\ page[c].drafts[h] # Empty
  BY Zenon DEF SubmitComment
<1>4. page[c].drafts[h] \in Texts
  BY <1>1, <1>3 DEF Pages
<1>5. e \in Events
  BY <1>4, EventIn DEF Kinds, Values
<1>. HIDE DEF p
<1>6. Sending(c, p, es)
  BY <1>2, <1>3 DEF Sending
<1>. HIDE DEF e
<1>7. es \in Seq(Events)
  BY <1>5, OneEvent
<1>. HIDE DEF es
<1>8. Input(c, p, es)
  BY <1>1, <1>2, <1>3, <1>7 DEF Input, KeepsLayout
<1> QED
  BY <1>6, <1>8, IsUserInput

LEMMA MemberOf ==
  ASSUME NEW T, NEW s \in Seq(T), NEW i \in DOMAIN s
  PROVE  s[i] \in T
OBVIOUS

LEMMA DeleteCommentInput ==
  ASSUME Shape, UNCHANGED typed, NEW c \in Clients, NEW h \in Highlights,
         NEW i, DeleteComment(c, h, i)
  PROVE  UserInput(c)
<1> DEFINE e  == Event("delete_comment", h, page[c].items[h].comments[i].text)
           es == <<e>>
<1>1. page[c] \in Pages /\ page[c].expanded \subseteq page[c].built
  BY DEF Shape
<1>2. Emits(c, page[c], es)
  BY Zenon DEF DeleteComment
<1>3. page[c].items[h].comments[i].text \in Texts
  <2>1. page[c].items \in Docs /\ h \in DOMAIN page[c].items
    BY <1>1 DEF Pages, DeleteComment, Open, Visible
  <2>2. page[c].items[h] \in Item
    BY <2>1, DocsFacts
  <2>3. i \in DOMAIN page[c].items[h].comments
    BY DEF DeleteComment
  <2>4. page[c].items[h].comments \in Seq([text : Texts, by : Clients])
    BY <2>2 DEF Item
  <2>5. page[c].items[h].comments[i] \in [text : Texts, by : Clients]
    BY ONLY <2>3, <2>4, MemberOf
  <2> QED
    BY <2>5
<1>4. e \in Events /\ e.kind = "delete_comment"
  BY <1>3, EventIn DEF Kinds, Values
<1>. HIDE DEF e
<1>5. es \in Seq(Events) /\ Len(es) = 1 /\ es[1] = e
  BY <1>4, OneEvent
<1>. HIDE DEF es
<1>6. Input(c, page[c], es)
  BY <1>1, <1>2, <1>5 DEF Input, KeepsLayout
<1> QED
  BY <1>4, <1>5, <1>6, CalmInput

LEMMA DeleteHighlightInput ==
  ASSUME Shape, UNCHANGED typed, NEW c \in Clients, NEW h \in Highlights,
         DeleteHighlight(c, h)
  PROVE  UserInput(c)
<1> DEFINE e  == Event("delete_highlight", h, Empty)
           es == <<e>>
<1>1. page[c] \in Pages /\ page[c].expanded \subseteq page[c].built
  BY DEF Shape
<1>2. Emits(c, page[c], es)
  BY Zenon DEF DeleteHighlight
<1>3. e \in Events /\ e.kind = "delete_highlight"
  BY EventIn DEF Kinds, Values
<1>. HIDE DEF e
<1>4. es \in Seq(Events) /\ Len(es) = 1 /\ es[1] = e
  BY <1>3, OneEvent
<1>. HIDE DEF es
<1>5. Input(c, page[c], es)
  BY <1>1, <1>2, <1>4 DEF Input, KeepsLayout
<1> QED
  BY <1>3, <1>4, <1>5, CalmInput

LEMMA StartParaRefEditInput ==
  ASSUME Shape, UNCHANGED typed, NEW c \in Clients, NEW h \in Highlights,
         StartParaRefEdit(c, h)
  PROVE  UserInput(c)
<1> DEFINE maps == page[c].refDrafts
           left == [k \in DOMAIN maps \cup {h} |->
                      IF k = h THEN page[c].items[h].para_ref ELSE maps[k]]
           p    == [page[c] EXCEPT !.refDrafts = left]
<1>1. page[c] \in Pages /\ page[c].expanded \subseteq page[c].built
  BY DEF Shape
<1>2. left \in PartialFunctions(Highlights, Refs \cup {Empty})
  <2>1. page[c].items \in Docs /\ h \in DOMAIN page[c].items
    BY <1>1 DEF Pages, StartParaRefEdit, Open, Visible
  <2>2. page[c].items[h].para_ref \in Refs \cup {Empty}
    BY <2>1, DocsFacts DEF Item
  <2>3. maps \in PartialFunctions(Highlights, Refs \cup {Empty})
    BY <1>1 DEF Pages
  <2>4. DOMAIN maps \in SUBSET Highlights /\ \A k \in DOMAIN maps : maps[k] \in Refs \cup {Empty}
    BY <2>3 DEF PartialFunctions
  <2>5. left \in [DOMAIN maps \cup {h} -> Refs \cup {Empty}]
    BY <2>2, <2>4
  <2>6. DOMAIN maps \cup {h} \in SUBSET Highlights
    BY <2>4
  <2>. HIDE DEF left, maps
  <2> QED
    BY <2>5, <2>6, FunctionIsPartial
<1>3. Emits(c, p, <<>>)
  BY Zenon DEF StartParaRefEdit
<1>. HIDE DEF left
<1>4. p \in Pages /\ p.expanded = page[c].expanded /\ p.built = page[c].built
      /\ p.items = page[c].items /\ p.tops = page[c].tops /\ p.ready = page[c].ready
      /\ p.frame = page[c].frame /\ p.shown = page[c].shown
      /\ p.drafts = page[c].drafts
  BY <1>1, <1>2 DEF Pages
<1>. HIDE DEF p
<1>5. Input(c, p, <<>>)
  BY <1>1, <1>3, <1>4 DEF Input, KeepsLayout
<1> QED
  BY <1>4, <1>5, CalmInput

LEMMA TypeParaRefInput ==
  ASSUME Shape, UNCHANGED typed, NEW c \in Clients, NEW h \in Highlights,
         NEW ref \in Refs \cup {Empty}, TypeParaRef(c, h, ref)
  PROVE  UserInput(c)
<1> DEFINE p == [page[c] EXCEPT !.refDrafts[h] = ref]
<1>1. page[c] \in Pages /\ page[c].expanded \subseteq page[c].built
  BY DEF Shape
<1>2. page[c].refDrafts \in PartialFunctions(Highlights, Refs \cup {Empty})
  BY <1>1 DEF Pages
<1>3. [page[c].refDrafts EXCEPT ![h] = ref] \in PartialFunctions(Highlights, Refs \cup {Empty})
  BY <1>2 DEF PartialFunctions
<1>4. p \in Pages /\ p.expanded = page[c].expanded /\ p.built = page[c].built
      /\ p.items = page[c].items /\ p.tops = page[c].tops /\ p.ready = page[c].ready
      /\ p.frame = page[c].frame /\ p.shown = page[c].shown
      /\ p.drafts = page[c].drafts
  BY <1>1, <1>3 DEF Pages
<1>5. Emits(c, p, <<>>)
  BY DEF TypeParaRef
<1>. HIDE DEF p
<1>6. Input(c, p, <<>>)
  BY <1>1, <1>4, <1>5 DEF Input, KeepsLayout
<1> QED
  BY <1>4, <1>6, CalmInput

(* Finishing an edit emits at most one event, and never a comment.         *)
LEMMA FinishEventsFacts ==
  ASSUME NEW p \in Pages, NEW h \in Highlights,
         NEW maps \in PartialFunctions(Highlights, Refs \cup {Empty})
  PROVE  /\ FinishEvents(p, h, maps) \in Seq(Events)
         /\ \A i \in 1 .. Len(FinishEvents(p, h, maps)) :
              FinishEvents(p, h, maps)[i].kind = "edit_para_ref"
<1> DEFINE new == IF h \in DOMAIN maps THEN maps[h] ELSE Empty
           old == IF h \in DOMAIN p.items THEN p.items[h].para_ref ELSE Empty
           e   == Event("edit_para_ref", h, new)
<1>1. new \in Refs \cup {Empty}
  BY DEF PartialFunctions
<1>2. FinishEvents(p, h, maps) = IF new # old THEN <<e>> ELSE <<>>
  BY DEF FinishEvents
<1>. HIDE DEF new, old
<1>3. e \in Events /\ e.kind = "edit_para_ref"
  BY <1>1, EventIn DEF Kinds, Values
<1>. HIDE DEF e
<1>4. <<e>> \in Seq(Events) /\ Len(<<e>>) = 1 /\ <<e>>[1] = e
  BY <1>3, OneEvent
<1>5. <<>> \in Seq(Events) /\ Len(<<>>) = 0
  OBVIOUS
<1> QED
  BY <1>2, <1>3, <1>4, <1>5

LEMMA RestrictPartial ==
  ASSUME NEW S, NEW T, NEW f \in PartialFunctions(S, T), NEW D
  PROVE  /\ Restrict(f, DOMAIN f \ D) \in PartialFunctions(S, T)
         /\ DOMAIN Restrict(f, DOMAIN f \ D) = DOMAIN f \ D
         /\ \A x \in DOMAIN f \ D : Restrict(f, DOMAIN f \ D)[x] = f[x]
<1> DEFINE E == DOMAIN f \ D
           g == Restrict(f, E)
<1>1. g = [x \in E |-> f[x]]
  BY DEF Restrict
<1>2. DOMAIN f \in SUBSET S /\ \A x \in DOMAIN f : f[x] \in T
  BY DEF PartialFunctions
<1>3. E \in SUBSET S /\ g \in [E -> T]
  BY <1>1, <1>2
<1>. HIDE DEF g
<1>4. g \in PartialFunctions(S, T)
  BY <1>3, FunctionIsPartial
<1> QED
  BY <1>1, <1>4 DEF g

LEMMA FinishParaRefEditInput ==
  ASSUME Shape, UNCHANGED typed, NEW c \in Clients, NEW h \in Highlights,
         NEW again \in BOOLEAN, FinishParaRefEdit(c, h, again)
  PROVE  UserInput(c)
<1> DEFINE left == Restrict(page[c].refDrafts, DOMAIN page[c].refDrafts \ {h})
           p    == [page[c] EXCEPT !.refDrafts = left]
           one  == FinishEvents(page[c], h, page[c].refDrafts)
           two  == IF again THEN FinishEvents(page[c], h, left) ELSE <<>>
           es   == one \o two
<1>1. page[c] \in Pages /\ page[c].expanded \subseteq page[c].built
  BY DEF Shape
<1>2. page[c].refDrafts \in PartialFunctions(Highlights, Refs \cup {Empty})
  BY <1>1 DEF Pages
<1>3. Emits(c, p, es)
  BY Zenon DEF FinishParaRefEdit
<1>4. left \in PartialFunctions(Highlights, Refs \cup {Empty})
  BY <1>2, RestrictPartial
<1>5. /\ one \in Seq(Events)
      /\ \A i \in 1 .. Len(one) : one[i].kind = "edit_para_ref"
  BY <1>1, <1>2, FinishEventsFacts
<1>. HIDE DEF left
<1>6. /\ two \in Seq(Events)
      /\ \A i \in 1 .. Len(two) : two[i].kind = "edit_para_ref"
  <2>1. <<>> \in Seq(Events) /\ Len(<<>>) = 0
    OBVIOUS
  <2>2. CASE again
    <3>1. two = FinishEvents(page[c], h, left)
      BY <2>2
    <3>. HIDE DEF two
    <3>2. /\ FinishEvents(page[c], h, left) \in Seq(Events)
          /\ \A i \in 1 .. Len(FinishEvents(page[c], h, left)) :
               FinishEvents(page[c], h, left)[i].kind = "edit_para_ref"
      BY <1>1, <1>4, FinishEventsFacts
    <3> QED
      BY <3>1, <3>2
  <2>3. CASE ~again
    <3>1. two = <<>>
      BY <2>3
    <3>. HIDE DEF two
    <3>2. two \in Seq(Events) /\ Len(two) = 0
      BY <2>1, <3>1
    <3> QED
      BY <3>2
  <2> QED
    BY <2>2, <2>3
<1>7. p \in Pages /\ p.expanded = page[c].expanded /\ p.built = page[c].built
      /\ p.items = page[c].items /\ p.tops = page[c].tops /\ p.ready = page[c].ready
      /\ p.frame = page[c].frame /\ p.shown = page[c].shown
      /\ p.drafts = page[c].drafts
  BY <1>1, <1>4 DEF Pages
<1>. HIDE DEF p, one, two
<1>8. es \in Seq(Events) /\ \A i \in 1 .. Len(es) : es[i].kind # "submit_comment"
  <2>1. es \in Seq(Events) /\ Len(es) = Len(one) + Len(two)
        /\ \A i \in 1 .. Len(es) :
             es[i] = IF i <= Len(one) THEN one[i] ELSE two[i - Len(one)]
    BY <1>5, <1>6
  <2>2. ASSUME NEW i \in 1 .. Len(es) PROVE es[i].kind # "submit_comment"
    <3>1. Len(one) \in Nat /\ Len(two) \in Nat
      BY <1>5, <1>6
    <3>2. CASE i <= Len(one)
      <4>1. i \in 1 .. Len(one)
        BY <3>1, <3>2
      <4> QED
        BY <1>5, <2>1, <3>2, <4>1
    <3>3. CASE ~(i <= Len(one))
      <4>1. i - Len(one) \in 1 .. Len(two)
        BY <2>1, <3>1, <3>3
      <4> QED
        BY <1>6, <2>1, <3>3, <4>1
    <3> QED
      BY <3>2, <3>3
  <2> QED
    BY <2>1, <2>2
<1>. HIDE DEF es
<1>9. Input(c, p, es)
  BY <1>1, <1>3, <1>7, <1>8 DEF Input, KeepsLayout
<1> QED
  BY <1>7, <1>8, <1>9, CalmInput

LEMMA SwitchAwayInput ==
  ASSUME Shape, UNCHANGED typed, NEW c \in Clients, SwitchAway(c)
  PROVE  UserInput(c)
<1> DEFINE p == [page[c] EXCEPT !.shown = FALSE]
<1>1. page[c] \in Pages /\ page[c].expanded \subseteq page[c].built
  BY DEF Shape
<1>2. p \in Pages /\ p.expanded = page[c].expanded /\ p.built = page[c].built
      /\ p.items = page[c].items /\ p.tops = page[c].tops /\ p.ready = page[c].ready
      /\ p.frame = page[c].frame /\ ~p.shown /\ p.drafts = page[c].drafts
  BY <1>1 DEF Pages
<1>3. Emits(c, p, <<>>)
  BY DEF SwitchAway
<1>. HIDE DEF p
<1>4. Input(c, p, <<>>)
  BY <1>1, <1>2, <1>3 DEF Input, KeepsLayout
<1> QED
  BY <1>2, <1>4, CalmInput

LEMMA SwitchBackInput ==
  ASSUME Shape, UNCHANGED typed, NEW c \in Clients, SwitchBack(c)
  PROVE  UserInput(c)
<1> DEFINE p  == [page[c] EXCEPT !.shown = TRUE]
           e  == [kind |-> "tab_shown", id |-> Empty, value |-> Empty]
           es == <<e>>
<1>1. page[c] \in Pages /\ page[c].expanded \subseteq page[c].built
  BY DEF Shape
<1>2. p \in Pages /\ p.expanded = page[c].expanded /\ p.built = page[c].built
      /\ p.items = page[c].items /\ p.tops = page[c].tops /\ p.ready = page[c].ready
      /\ p.frame = page[c].frame /\ p.drafts = page[c].drafts
  BY <1>1 DEF Pages
<1>3. Emits(c, p, es)
  BY DEF SwitchBack
<1>4. e \in Events /\ e.kind = "tab_shown"
  BY DEF Events, WellFormed, Kinds, Values
<1>. HIDE DEF p, e
<1>5. es \in Seq(Events) /\ Len(es) = 1 /\ es[1] = e
  BY <1>4, OneEvent
<1>. HIDE DEF es
<1>6. Input(c, p, es)
  BY <1>1, <1>2, <1>3, <1>4, <1>5 DEF Input, KeepsLayout
<1> QED
  BY <1>2, <1>4, <1>5, <1>6, CalmInput

LEMMA ScrollInput ==
  ASSUME Shape, UNCHANGED typed, NEW c \in Clients, Scroll(c)
  PROVE  UserInput(c)
<1> DEFINE p == [page[c] EXCEPT !.frame = TRUE]
<1>1. page[c] \in Pages /\ page[c].expanded \subseteq page[c].built
  BY DEF Shape
<1>2. p \in Pages /\ p.expanded = page[c].expanded /\ p.built = page[c].built
      /\ p.items = page[c].items /\ p.tops = page[c].tops /\ p.ready = page[c].ready
      /\ p.frame /\ p.drafts = page[c].drafts
  BY <1>1 DEF Pages
<1>3. Emits(c, p, <<>>)
  BY DEF Scroll
<1>. HIDE DEF p
<1>4. Input(c, p, <<>>)
  BY <1>1, <1>2, <1>3 DEF Input, KeepsLayout
<1> QED
  BY <1>2, <1>4, CalmInput

(* Whatever a user does is such an input.                                  *)
LEMMA UserStepInput ==
  ASSUME Shape, UserStep
  PROVE  \E c \in scene.pages : UserInput(c)
<1>1. PICK c \in scene.pages :
        \/ \E h \in Highlights, text \in Texts : TypeComment(c, h, text)
        \/ /\ UNCHANGED typed
           /\ \/ \E h \in Highlights :
                   \/ ToggleExpand(c, h)
                   \/ SubmitComment(c, h)
                   \/ DeleteHighlight(c, h)
                   \/ StartParaRefEdit(c, h)
                   \/ \E tag \in Tags : TagChange(c, h, tag)
                   \/ \E i \in 1..Cardinality(Texts) : DeleteComment(c, h, i)
                   \/ \E ref \in Refs \cup {Empty} : TypeParaRef(c, h, ref)
                   \/ \E again \in BOOLEAN : FinishParaRefEdit(c, h, again)
              \/ SwitchAway(c)
              \/ SwitchBack(c)
              \/ Scroll(c)
  BY Zenon DEF UserStep
<1>2. c \in Clients
  BY SceneFacts DEF Shape
<1>3. ASSUME NEW h \in Highlights, NEW text \in Texts, TypeComment(c, h, text)
      PROVE  UserInput(c)
  BY <1>2, <1>3, TypeCommentInput
<1>4. ASSUME UNCHANGED typed, NEW h \in Highlights,
             \/ ToggleExpand(c, h)
             \/ SubmitComment(c, h)
             \/ DeleteHighlight(c, h)
             \/ StartParaRefEdit(c, h)
             \/ \E tag \in Tags : TagChange(c, h, tag)
             \/ \E i \in 1..Cardinality(Texts) : DeleteComment(c, h, i)
             \/ \E ref \in Refs \cup {Empty} : TypeParaRef(c, h, ref)
             \/ \E again \in BOOLEAN : FinishParaRefEdit(c, h, again)
      PROVE  UserInput(c)
  <2>1. CASE ToggleExpand(c, h)
    BY <1>2, <1>4, <2>1, ToggleExpandInput
  <2>2. CASE SubmitComment(c, h)
    BY <1>2, <1>4, <2>2, SubmitCommentInput
  <2>3. CASE DeleteHighlight(c, h)
    BY <1>2, <1>4, <2>3, DeleteHighlightInput
  <2>4. CASE StartParaRefEdit(c, h)
    BY <1>2, <1>4, <2>4, StartParaRefEditInput
  <2>5. ASSUME NEW tag \in Tags, TagChange(c, h, tag) PROVE UserInput(c)
    BY <1>2, <1>4, <2>5, TagChangeInput
  <2>6. ASSUME NEW i \in 1..Cardinality(Texts), DeleteComment(c, h, i) PROVE UserInput(c)
    BY <1>2, <1>4, <2>6, DeleteCommentInput
  <2>7. ASSUME NEW ref \in Refs \cup {Empty}, TypeParaRef(c, h, ref) PROVE UserInput(c)
    BY <1>2, <1>4, <2>7, TypeParaRefInput
  <2>8. ASSUME NEW again \in BOOLEAN, FinishParaRefEdit(c, h, again) PROVE UserInput(c)
    BY <1>2, <1>4, <2>8, FinishParaRefEditInput
  <2> QED
    BY <1>4, <2>1, <2>2, <2>3, <2>4, <2>5, <2>6, <2>7, <2>8
<1>5. ASSUME UNCHANGED typed, SwitchAway(c) \/ SwitchBack(c) \/ Scroll(c)
      PROVE  UserInput(c)
  BY <1>2, <1>5, SwitchAwayInput, SwitchBackInput, ScrollInput
<1> QED
  BY <1>1, <1>3, <1>4, <1>5

-----------------------------------------------------------------------------
(* Sequences                                                               *)

(* A removal keeps every other member, in its order.                       *)
LEMMA RemoveAtFacts ==
  ASSUME NEW M, NEW s \in Seq(M), NEW i \in DOMAIN s
  PROVE  /\ RemoveAt(s, i) \in Seq(M)
         /\ Len(RemoveAt(s, i)) = Len(s) - 1
         /\ \A j \in 1 .. Len(s) - 1 :
              RemoveAt(s, i)[j] = s[IF j < i THEN j ELSE j + 1]
<1> DEFINE n == Len(s)
           a == SubSeq(s, 1, i - 1)
           b == SubSeq(s, i + 1, n)
<1>0. n \in Nat /\ i \in 1 .. n /\ \A j \in 1 .. n : s[j] \in M
  OBVIOUS
<1>1. /\ a \in Seq(M) /\ Len(a) = i - 1
      /\ \A j \in 1 .. i - 1 : a[j] = s[j]
  <2>1. /\ a \in Seq(M) /\ Len(a) = IF 1 <= i - 1 THEN i - 1 - 1 + 1 ELSE 0
        /\ \A j \in 1 .. i - 1 - 1 + 1 : a[j] = s[1 + j - 1]
    BY <1>0, SubSeqProperties
  <2> HIDE DEF a
  <2> QED
    BY <2>1, <1>0
<1>2. /\ b \in Seq(M) /\ Len(b) = n - i
      /\ \A j \in 1 .. n - i : b[j] = s[i + j]
  <2>1. /\ b \in Seq(M) /\ Len(b) = IF i + 1 <= n THEN n - (i + 1) + 1 ELSE 0
        /\ \A j \in 1 .. n - (i + 1) + 1 : b[j] = s[i + 1 + j - 1]
    BY <1>0, SubSeqProperties
  <2> HIDE DEF b
  <2>2. \A j \in 1 .. n - i : j \in 1 .. n - (i + 1) + 1 /\ i + 1 + j - 1 = i + j
    BY <1>0
  <2> QED
    BY <2>1, <2>2, <1>0
<1> HIDE DEF a, b
<1>3. /\ a \o b \in Seq(M) /\ Len(a \o b) = Len(a) + Len(b)
      /\ \A j \in 1 .. Len(a) + Len(b) :
           (a \o b)[j] = IF j <= Len(a) THEN a[j] ELSE b[j - Len(a)]
  BY <1>1, <1>2, ConcatProperties
<1> DEFINE t == a \o b
<1>4. RemoveAt(s, i) = t
  BY DEF RemoveAt, a, b
<1> HIDE DEF t
<1>5. ASSUME NEW j \in 1 .. n - 1 PROVE t[j] = s[IF j < i THEN j ELSE j + 1]
  <2>0. j \in 1 .. Len(a) + Len(b)
    BY <1>0, <1>1, <1>2
  <2>1. CASE j < i
    <3>1. j <= Len(a) /\ j \in 1 .. i - 1
      BY <2>1, <1>0, <1>1
    <3> QED
      BY <2>0, <3>1, <2>1, <1>1, <1>3 DEF t
  <2>2. CASE ~(j < i)
    <3>1. ~(j <= Len(a)) /\ j - Len(a) \in 1 .. n - i /\ i + (j - Len(a)) = j + 1
      BY <2>2, <1>0, <1>1
    <3> QED
      BY <2>0, <3>1, <2>2, <1>2, <1>3 DEF t
  <2> QED
    BY <2>1, <2>2
<1>6. t \in Seq(M) /\ Len(t) = n - 1
  BY <1>0, <1>1, <1>2, <1>3 DEF t
<1> QED
  BY <1>4, <1>5, <1>6

-----------------------------------------------------------------------------
(* What the server's handlers do to the document                           *)

(* A handler's document: the highlights left and their comments.           *)
LEMMA HandlerDoc ==
  ASSUME Shape, NEW c \in Clients, NEW e \in Events, Handler(c, e)
  PROVE  /\ doc' \in Docs
         /\ owed' \in [Clients -> Nat]
         /\ expanded_cards' \in [Clients -> SUBSET Highlights]
<1>1. doc \in Docs /\ owed \in [Clients -> Nat]
      /\ expanded_cards \in [Clients -> SUBSET Highlights]
  BY DEF Shape
<1>2. DOMAIN doc \in SUBSET Highlights /\ \A h \in DOMAIN doc : doc[h] \in Item
  BY <1>1, DocsFacts
<1>3. e.kind # "tab_shown" => e.id \in Highlights
  BY DEF Events, WellFormed
<1>4. ASSUME PersistAndBroadcast(c) PROVE owed' \in [Clients -> Nat]
  BY <1>1, <1>4 DEF PersistAndBroadcast
<1>5. ASSUME NEW d \in [DOMAIN doc -> Item] PROVE d \in Docs
  BY <1>2, FunctionIsPartial DEF Docs
<1>6. CASE e.kind = "toggle_expand" /\ on_toggle_expand(c, e)
  BY <1>1, <1>3, <1>6 DEF on_toggle_expand
<1>7. CASE e.kind = "change_tag" /\ on_change_tag(c, e)
  <2>1. e.value \in Tags
    BY <1>7 DEF Events, WellFormed
  <2>2. CASE e.id \in DOMAIN doc
    <3>1. [doc[e.id] EXCEPT !.tag = e.value] \in Item
      BY <1>2, <2>1, <2>2 DEF Item
    <3>2. doc' = [doc EXCEPT ![e.id] = [doc[e.id] EXCEPT !.tag = e.value]]
      BY <1>7, <2>2 DEF on_change_tag
    <3>3. doc' \in [DOMAIN doc -> Item]
      BY <1>1, <1>2, <3>1, <3>2, DocsFacts
    <3> QED
      BY <1>1, <1>4, <1>5, <1>7, <3>3 DEF on_change_tag
  <2>3. CASE e.id \notin DOMAIN doc
    BY <1>1, <1>4, <1>7, <2>3 DEF on_change_tag
  <2> QED
    BY <2>2, <2>3
<1>8. CASE e.kind = "submit_comment" /\ on_submit_comment(c, e)
  <2> DEFINE Comment == [text : Texts, by : Clients]
             new     == [text |-> e.value, by |-> c]
  <2>1. e.value \in Texts
    BY <1>8 DEF Events, WellFormed
  <2>2. CASE e.id \in DOMAIN doc
    <3> DEFINE more == Append(doc[e.id].comments, new)
    <3>1. doc[e.id].comments \in Seq(Comment)
      BY <1>2, <2>2 DEF Item
    <3>2. new \in Comment
      BY <2>1
    <3>. HIDE DEF Comment, new
    <3>3. more \in Seq(Comment)
      BY <3>1, <3>2
    <3>4. doc' = [doc EXCEPT ![e.id] = [doc[e.id] EXCEPT !.comments = more]]
      BY <1>8, <2>2 DEF on_submit_comment, new
    <3>. HIDE DEF more
    <3>5. [doc[e.id] EXCEPT !.comments = more] \in Item
      BY <1>2, <2>2, <3>3 DEF Item, Comment
    <3>6. doc' \in [DOMAIN doc -> Item]
      BY <1>1, <1>2, <3>4, <3>5, DocsFacts
    <3> QED
      BY <1>1, <1>4, <1>5, <1>8, <3>6 DEF on_submit_comment
  <2>3. CASE e.id \notin DOMAIN doc
    BY <1>1, <1>4, <1>8, <2>3 DEF on_submit_comment
  <2> QED
    BY <2>2, <2>3
<1>9. CASE e.kind = "delete_comment" /\ on_delete_comment(c, e)
  <2> DEFINE Comment == [text : Texts, by : Clients]
  <2>1. \/ UNCHANGED <<doc, owed>>
        \/ /\ e.id \in DOMAIN doc
           /\ \E i \in DOMAIN doc[e.id].comments :
                doc' = [doc EXCEPT ![e.id].comments = RemoveAt(@, i)]
           /\ PersistAndBroadcast(c)
    BY <1>9 DEF on_delete_comment
  <2>2. CASE UNCHANGED <<doc, owed>>
    BY <1>1, <1>9, <2>2 DEF on_delete_comment
  <2>3. ASSUME e.id \in DOMAIN doc, PersistAndBroadcast(c),
               NEW i \in DOMAIN doc[e.id].comments,
               doc' = [doc EXCEPT ![e.id].comments = RemoveAt(@, i)]
        PROVE  doc' \in Docs /\ owed' \in [Clients -> Nat]
    <3> DEFINE fewer == RemoveAt(doc[e.id].comments, i)
    <3>1. doc[e.id].comments \in Seq(Comment)
      BY <1>2, <2>3 DEF Item
    <3>. HIDE DEF Comment
    <3>2. fewer \in Seq(Comment)
      BY <2>3, <3>1, RemoveAtFacts
    <3>3. doc' = [doc EXCEPT ![e.id] = [doc[e.id] EXCEPT !.comments = fewer]]
      BY <2>3
    <3>. HIDE DEF fewer
    <3>4. [doc[e.id] EXCEPT !.comments = fewer] \in Item
      BY <1>2, <2>3, <3>2 DEF Item, Comment
    <3>5. doc' \in [DOMAIN doc -> Item]
      BY <1>1, <1>2, <3>3, <3>4, DocsFacts
    <3> QED
      BY <1>4, <1>5, <2>3, <3>5
  <2> QED
    BY <1>1, <1>9, <2>1, <2>2, <2>3 DEF on_delete_comment
<1>10. CASE e.kind = "delete_highlight" /\ on_delete_highlight(c, e)
  <2>1. doc' = Restrict(doc, DOMAIN doc \ {e.id})
    BY <1>10 DEF on_delete_highlight
  <2>2. doc' \in Docs
    BY <1>1, <2>1, RestrictPartial DEF Docs
  <2> QED
    BY <1>1, <1>4, <1>10, <2>2 DEF on_delete_highlight
<1>11. CASE e.kind = "edit_para_ref" /\ on_edit_para_ref(c, e)
  <2>1. e.value \in Refs \cup {Empty}
    BY <1>11 DEF Events, WellFormed
  <2>2. CASE e.value # Empty /\ e.id \in DOMAIN doc
    <3>1. [doc[e.id] EXCEPT !.para_ref = e.value] \in Item
      BY <1>2, <2>1, <2>2 DEF Item
    <3>2. doc' = [doc EXCEPT ![e.id] = [doc[e.id] EXCEPT !.para_ref = e.value]]
      BY <1>11, <2>2 DEF on_edit_para_ref
    <3>3. doc' \in [DOMAIN doc -> Item]
      BY <1>1, <1>2, <3>1, <3>2, DocsFacts
    <3> QED
      BY <1>1, <1>4, <1>5, <1>11, <2>2, <3>3 DEF on_edit_para_ref
  <2>3. CASE ~(e.value # Empty /\ e.id \in DOMAIN doc)
    BY <1>1, <1>4, <1>11, <2>3 DEF on_edit_para_ref
  <2> QED
    BY <2>2, <2>3
<1> QED
  BY <1>6, <1>7, <1>8, <1>9, <1>10, <1>11 DEF Handler

(* A change of the document owes every page a refresh.                     *)
LEMMA HandlerOwes ==
  ASSUME Shape, NEW c \in Clients, NEW e \in Events, Handler(c, e),
         NEW x \in scene.pages
  PROVE  \/ UNCHANGED <<doc, owed>>
         \/ owed'[x] > 0
<1>1. x \in Clients /\ owed[x] \in Nat
  BY SceneFacts DEF Shape
<1>2. PersistAndBroadcast(c) => owed'[x] > 0
  BY <1>1 DEF PersistAndBroadcast
<1>3. on_delete_comment(c, e) =>
        UNCHANGED <<doc, owed>> \/ PersistAndBroadcast(c)
  BY DEF on_delete_comment
<1> QED
  BY <1>2, <1>3 DEF Handler, on_toggle_expand, on_change_tag, on_submit_comment,
     on_delete_highlight, on_edit_para_ref

-----------------------------------------------------------------------------
(* Type correctness                                                        *)

LEMMA WithPropsType ==
  ASSUME NEW p \in Pages, NEW m \in Pushes, p.expanded \subseteq p.built
  PROVE  /\ WithProps(p, m) \in Pages
         /\ WithProps(p, m).expanded \subseteq WithProps(p, m).built
         /\ WithProps(p, m).items = m.items
         /\ WithProps(p, m).drafts = p.drafts
         /\ WithProps(p, m).frame
<1>1. (p.ready \/ m.ready) \in BOOLEAN
  BY Zenon
<1> DEFINE r == p.ready \/ m.ready
<1>2. WithProps(p, m) = [p EXCEPT !.items = m.items, !.expanded = m.expanded_ids,
                            !.built = p.built \cup m.expanded_ids,
                            !.ready = r, !.frame = TRUE]
  BY Zenon DEF WithProps
<1>. HIDE DEF r
<1> DEFINE q == [p EXCEPT !.items = m.items, !.expanded = m.expanded_ids,
                    !.built = p.built \cup m.expanded_ids,
                    !.ready = r, !.frame = TRUE]
<1>3. /\ q \in Pages /\ q.expanded \subseteq q.built /\ q.items = m.items
      /\ q.drafts = p.drafts /\ q.frame
  BY <1>1 DEF Pages, Pushes, r
<1>. HIDE DEF q
<1> QED
  BY <1>2, <1>3 DEF q

LEMMA PropsType ==
  ASSUME Shape, NEW c \in Clients, NEW r \in BOOLEAN
  PROVE  Props(c, r) \in Pushes /\ Props(c, r).items = doc
BY DEF Shape, Props, Pushes

LEMMA AppendProps ==
  ASSUME Shape, NEW c \in Clients, NEW r \in BOOLEAN
  PROVE  Append(down[c], Props(c, r)) \in Seq(Pushes)
<1> DEFINE m == Props(c, r)
<1>1. m \in Pushes
  BY PropsType
<1>2. down[c] \in Seq(Pushes)
  BY DEF Shape
<1>. HIDE DEF m
<1> QED
  BY <1>1, <1>2 DEF m

LEMMA InputShape ==
  ASSUME Shape, NEW c \in Clients, UserInput(c)
  PROVE  Shape'
<1> USE DEF Shape
<1>1. PICK p, es : Input(c, p, es)
                   /\ (Calm(c, p, es) \/ Typing(c, p, es) \/ Sending(c, p, es))
  BY DEF UserInput
<1>2. /\ p \in Pages /\ p.expanded \subseteq p.built /\ es \in Seq(Events)
      /\ inputs < scene.inputs /\ inputs' = inputs + 1
      /\ page' = [page EXCEPT ![c] = p]
      /\ up' = [up EXCEPT ![c] = up[c] \o es]
      /\ UNCHANGED <<scene, doc, owed, expanded_cards, down>>
  BY <1>1 DEF Input, Emits
<1>3. typed' \in SUBSET Texts
  BY <1>1 DEF Calm, Typing, Sending
<1>4. inputs' \in 0 .. scene'.inputs
  BY <1>2, SceneFacts
<1>5. page' \in [Clients -> Pages]
      /\ \A x \in Clients : page'[x].expanded \subseteq page'[x].built
  BY <1>2
<1>6. up' \in [Clients -> Seq(Events)]
  <2>1. up[c] \o es \in Seq(Events)
    BY <1>2
  <2> QED
    BY <1>2, <2>1
<1> QED
  BY <1>2, <1>3, <1>4, <1>5, <1>6

LEMMA FrameType ==
  ASSUME Shape, NEW c \in Clients, Frame(c)
  PROVE  \E q : /\ page' = [page EXCEPT ![c] = q]
                /\ q \in Pages /\ q.expanded \subseteq q.built
                /\ q.items = page[c].items /\ q.drafts = page[c].drafts
                /\ q.ready /\ q.shown => Laid(q)
<1> DEFINE p == page[c]
<1>1. p \in Pages /\ p.expanded \subseteq p.built
  BY DEF Shape
<1>2. CASE p.ready /\ p.shown
  <2>1. PICK order \in Orders(DOMAIN p.items) :
          page' = [page EXCEPT ![c].frame = FALSE, ![c].tops = Positions(p, order)]
    BY <1>2 DEF Frame
  <2> DEFINE q == [p EXCEPT !.frame = FALSE, !.tops = Positions(p, order)]
  <2>2. page' = [page EXCEPT ![c] = q]
    BY <1>1, <2>1 DEF Shape
  <2>3. p.items \in Docs /\ IsFiniteSet(DOMAIN p.items)
    <3>1. p.items \in Docs
      BY <1>1 DEF Pages
    <3>2. DOMAIN p.items \in SUBSET Highlights
      BY <3>1, DocsFacts
    <3> QED
      BY <3>1, <3>2, NamesAssumption, FS_Subset
  <2> DEFINE tops == Positions(p, order)
  <2>4. q.items = p.items /\ q.expanded = p.expanded /\ q.tops = tops
        /\ q.built = p.built /\ q.drafts = p.drafts
    BY <1>1 DEF Pages
  <2>5. q.tops = Positions(p, order)
    BY <2>4
  <2>. HIDE DEF q, p, tops
  <2>6. Laid(q) /\ q.tops \in PartialFunctions(Highlights, Nat)
    BY <2>3, <2>4, <2>5, PositionsLaid
  <2>7. q \in Pages
    <3>1. tops \in PartialFunctions(Highlights, Nat)
      BY <2>4, <2>6
    <3>2. q = [p EXCEPT !.frame = FALSE, !.tops = tops]
      BY DEF q, tops
    <3> QED
      BY <1>1, <3>1, <3>2 DEF Pages
  <2>8. page' = [page EXCEPT ![c] = q] /\ q \in Pages /\ q.expanded \subseteq q.built
        /\ q.items = page[c].items /\ q.drafts = page[c].drafts
    BY <1>1, <2>2, <2>4, <2>7 DEF p
  <2> QED
    BY <2>6, <2>8
<1>3. CASE ~(p.ready /\ p.shown)
  <2> DEFINE q == [p EXCEPT !.frame = FALSE]
  <2>1. page' = [page EXCEPT ![c] = q]
    BY <1>1, <1>3 DEF Frame, Shape
  <2>2. q \in Pages /\ q.expanded \subseteq q.built /\ q.items = p.items
        /\ q.drafts = p.drafts /\ q.ready = p.ready /\ q.shown = p.shown
    BY <1>1 DEF Pages
  <2>. HIDE DEF q
  <2> QED
    BY <1>3, <2>1, <2>2
<1> QED
  BY <1>2, <1>3

LEMMA SystemShape ==
  ASSUME Shape, NEW c \in Clients, SystemStep(c)
  PROVE  Shape'
<1> USE DEF Shape
<1>1. CASE ReceiveProps(c)
  <2>1. Head(down[c]) \in Pushes /\ Tail(down[c]) \in Seq(Pushes)
    BY <1>1 DEF ReceiveProps
  <2> DEFINE q == WithProps(page[c], Head(down[c]))
  <2>2. q \in Pages /\ q.expanded \subseteq q.built
    BY <2>1, WithPropsType
  <2>3. page' = [page EXCEPT ![c] = q] /\ down' = [down EXCEPT ![c] = Tail(down[c])]
    BY <1>1 DEF ReceiveProps
  <2>. HIDE DEF q
  <2>4. page' \in [Clients -> Pages] /\ down' \in [Clients -> Seq(Pushes)]
        /\ \A x \in Clients : page'[x].expanded \subseteq page'[x].built
    BY <2>1, <2>2, <2>3
  <2> QED
    BY <1>1, <2>4 DEF ReceiveProps
<1>2. CASE HighlightsReady(c)
  <2> DEFINE q == [page[c] EXCEPT !.ready = TRUE, !.frame = TRUE]
  <2>1. q \in Pages /\ q.expanded \subseteq q.built
    BY DEF Pages
  <2>2. page' = [page EXCEPT ![c] = q]
    BY <1>2 DEF HighlightsReady
  <2>. HIDE DEF q
  <2>3. page' \in [Clients -> Pages]
        /\ \A x \in Clients : page'[x].expanded \subseteq page'[x].built
    BY <2>1, <2>2
  <2> QED
    BY <1>2, <2>3 DEF HighlightsReady
<1>3. CASE Frame(c)
  <2>1. PICK q : /\ page' = [page EXCEPT ![c] = q]
                 /\ q \in Pages /\ q.expanded \subseteq q.built
    BY <1>3, FrameType
  <2>2. page' \in [Clients -> Pages]
        /\ \A x \in Clients : page'[x].expanded \subseteq page'[x].built
    BY <2>1
  <2> QED
    BY <1>3, <2>2 DEF Frame
<1>4. CASE HandleEvent(c)
  <2>1. up[c] \in Seq(Events) /\ up[c] # <<>>
    BY <1>4 DEF HandleEvent
  <2>2. Head(up[c]) \in Events /\ Tail(up[c]) \in Seq(Events)
    BY <2>1
  <2>3. Handler(c, Head(up[c])) /\ up' = [up EXCEPT ![c] = Tail(up[c])]
        /\ UNCHANGED <<scene, down, page, typed, inputs>>
    BY <1>4 DEF HandleEvent
  <2>4. doc' \in Docs /\ owed' \in [Clients -> Nat]
        /\ expanded_cards' \in [Clients -> SUBSET Highlights]
    BY <2>2, <2>3, HandlerDoc
  <2>5. up' \in [Clients -> Seq(Events)]
    BY <2>2, <2>3
  <2> QED
    BY <2>3, <2>4, <2>5
<1>5. CASE TabShown(c)
  <2>1. Tail(up[c]) \in Seq(Events)
    BY <1>5 DEF TabShown
  <2>2. Append(down[c], Props(c, TRUE)) \in Seq(Pushes)
    BY AppendProps
  <2> DEFINE pushes == Append(down[c], Props(c, TRUE))
  <2>3. down' = [down EXCEPT ![c] = pushes] /\ up' = [up EXCEPT ![c] = Tail(up[c])]
        /\ UNCHANGED <<scene, doc, owed, expanded_cards, page, typed, inputs>>
    BY <1>5 DEF TabShown
  <2>. HIDE DEF pushes
  <2>4. down' \in [Clients -> Seq(Pushes)] /\ up' \in [Clients -> Seq(Events)]
    BY <2>1, <2>2, <2>3 DEF pushes
  <2> QED
    BY <2>3, <2>4
<1>6. CASE refresh_from_state(c)
  <2> DEFINE pushes == Append(down[c], Props(c, FALSE))
  <2>1. pushes \in Seq(Pushes)
    BY AppendProps
  <2>2. down' = [down EXCEPT ![c] = pushes] /\ owed' = [owed EXCEPT ![c] = owed[c] - 1]
        /\ owed[c] > 0
        /\ UNCHANGED <<scene, doc, expanded_cards, up, page, typed, inputs>>
    BY <1>6 DEF refresh_from_state
  <2>. HIDE DEF pushes
  <2>3. down' \in [Clients -> Seq(Pushes)] /\ owed' \in [Clients -> Nat]
    BY <2>1, <2>2
  <2> QED
    BY <2>2, <2>3
<1> QED
  BY <1>1, <1>2, <1>3, <1>4, <1>5, <1>6 DEF SystemStep

LEMMA NextShape == Shape /\ [Next]_vars => Shape'
<1> SUFFICES ASSUME Shape, [Next]_vars PROVE Shape'
  OBVIOUS
<1>1. scene.pages \in SUBSET Clients
  BY SceneFacts DEF Shape
<1>2. CASE UserStep
  BY <1>1, <1>2, UserStepInput, InputShape
<1>3. ASSUME NEW c \in scene.pages, SystemStep(c) PROVE Shape'
  BY <1>1, <1>3, SystemShape
<1>4. CASE UNCHANGED vars
  BY <1>4 DEF Shape, vars
<1> QED
  BY <1>2, <1>3, <1>4 DEF Next

LEMMA ShapeIsType == Shape => TypeOK
<1> SUFFICES ASSUME Shape PROVE TypeOK
  OBVIOUS
<1>1. DOMAIN doc \subseteq Highlights /\ \A h \in DOMAIN doc : doc[h] \in Item
  BY DocsFacts DEF Shape
<1>2. ASSUME NEW c \in Clients
      PROVE  /\ \A i \in DOMAIN up[c] : up[c][i].kind \in Kinds
             /\ page[c].expanded \subseteq page[c].built
             /\ page[c].built \subseteq Highlights
             /\ \A h \in DOMAIN page[c].items : page[c].items[h] \in Item
             /\ page[c].drafts \in [Highlights -> Texts \cup {Empty}]
             /\ page[c].refDrafts \in PartialFunctions(Highlights, Refs \cup {Empty})
  <2>1. ASSUME NEW i \in DOMAIN up[c] PROVE up[c][i].kind \in Kinds
    <3>1. up[c] \in Seq(Events)
      BY DEF Shape
    <3>2. up[c][i] \in Events
      BY ONLY <3>1, <2>1, MemberOf
    <3> QED
      BY <3>2 DEF Events
  <2>2. page[c] \in Pages /\ page[c].expanded \subseteq page[c].built
    BY DEF Shape
  <2>3. page[c].items \in Docs
    BY <2>2 DEF Pages
  <2>4. \A h \in DOMAIN page[c].items : page[c].items[h] \in Item
    BY <2>3, DocsFacts
  <2> QED
    BY <2>1, <2>2, <2>4 DEF Pages
<1> QED
  BY <1>1, <1>2 DEF Shape, TypeOK

(* Whatever users type, toggle, submit and delete, and however pushes and  *)
(* events cross, no expanded card is without its details                   *)
(* (annotationsidebar.js, toggleExpand and the watcher of expanded_ids),   *)
(* the component's maps stay within the document's highlights and the      *)
(* server holds only items a client can render.                            *)
THEOREM TypeCorrect == Spec => []TypeOK
<1>1. Spec => []Shape
  BY InitShape, NextShape, PTL DEF Spec
<1> QED
  BY <1>1, ShapeIsType, PTL

-----------------------------------------------------------------------------
(* A page at rest                                                          *)

(* A page that is owed no refresh has, or will get last, the document.     *)
UpToDate(c) ==
  owed[c] = 0 =>
    /\ down[c] = <<>> => page[c].items = doc
    /\ down[c] # <<>> => down[c][Len(down[c])].items = doc

(* What a page shows is laid out, unless its cards are placed again, by a  *)
(* frame that is due or after props that are under way.                    *)
TabUnderWay(c) == \E i \in DOMAIN up[c] : up[c][i].kind = "tab_shown"

Placed(c) ==
  page[c].ready /\ page[c].shown /\ ~page[c].frame =>
    Laid(page[c]) \/ down[c] # <<>> \/ TabUnderWay(c)

AtRest == \A c \in scene.pages : UpToDate(c) /\ Placed(c)

LEMMA NextAfter ==
  ASSUME NEW T, NEW s \in Seq(T), NEW t \in Seq(T), Len(t) > 0
  PROVE  Len(s) + 1 \in DOMAIN (s \o t) /\ (s \o t)[Len(s) + 1] = t[1]
OBVIOUS

LEMMA LastOfTail ==
  ASSUME NEW T, NEW s \in Seq(T), s # <<>>
  PROVE  /\ Len(s) = 1 => Tail(s) = <<>> /\ Head(s) = s[Len(s)]
         /\ Len(s) # 1 => Tail(s) # <<>> /\ Tail(s)[Len(Tail(s))] = s[Len(s)]
<1>1. Len(s) \in Nat \ {0} /\ Head(s) = s[1]
  BY EmptySeq
<1> DEFINE t == Tail(s)
<1>2. t \in Seq(T) /\ Len(t) = Len(s) - 1 /\ \A i \in 1 .. Len(t) : t[i] = s[i + 1]
  BY HeadTailProperties
<1>. HIDE DEF t
<1>3. Len(t) = 0 <=> t = <<>>
  BY <1>2, EmptySeq
<1>4. Len(s) = 1 => t = <<>>
  BY <1>1, <1>2, <1>3
<1>5. ASSUME Len(s) # 1 PROVE t # <<>> /\ t[Len(t)] = s[Len(s)]
  <2>1. Len(t) \in 1 .. Len(t) /\ Len(t) + 1 = Len(s)
    BY <1>1, <1>2, <1>5
  <2> QED
    BY <1>2, <1>3, <2>1
<1> QED
  BY <1>1, <1>4, <1>5 DEF t

LEMMA InitAtRest == Init => AtRest
<1> SUFFICES ASSUME Init, NEW c \in scene.pages PROVE UpToDate(c) /\ Placed(c)
  BY DEF AtRest
<1>1. c \in Clients
  BY SceneFacts DEF Init
<1> DEFINE some == IF scene.fresh THEN {} ELSE scene.highlights
<1>2. page[c] = OpenPage(some) /\ down[c] = <<>>
  BY <1>1 DEF Init
<1>. HIDE DEF some
<1>3. page[c].items = doc
  BY <1>2 DEF OpenPage
<1>4. page[c].ready => page[c].frame
  BY <1>2 DEF OpenPage
<1> QED
  BY <1>2, <1>3, <1>4 DEF UpToDate, Placed

LEMMA InputAtRest ==
  ASSUME Shape, AtRest, NEW c \in Clients, UserInput(c)
  PROVE  AtRest'
<1>1. PICK p, es : Input(c, p, es)
  BY DEF UserInput
<1>2. /\ p \in Pages /\ es \in Seq(Events) /\ p.items = page[c].items
      /\ p.tops = page[c].tops /\ p.ready = page[c].ready
      /\ KeepsLayout(page[c], p, es)
      /\ page' = [page EXCEPT ![c] = p]
      /\ up' = [up EXCEPT ![c] = up[c] \o es]
      /\ UNCHANGED <<scene, doc, owed, expanded_cards, down>>
  BY <1>1 DEF Input, Emits
<1> SUFFICES ASSUME NEW x \in scene.pages PROVE UpToDate(x)' /\ Placed(x)'
  BY <1>2 DEF AtRest
<1>3. x \in Clients /\ UpToDate(x) /\ Placed(x)
  BY SceneFacts DEF Shape, AtRest
<1>4. page'[x].items = page[x].items
  BY <1>2, <1>3 DEF Shape
<1>5. UpToDate(x)'
  BY <1>2, <1>3, <1>4 DEF UpToDate
<1>6. CASE x # c
  <2>1. page'[x] = page[x] /\ up'[x] = up[x]
    BY <1>2, <1>3, <1>6 DEF Shape
  <2>2. Placed(x)'
    BY <1>2, <1>3, <2>1 DEF Placed, Laid, Ends, Height, TabUnderWay
  <2> QED
    BY <1>5, <2>2
<1>7. CASE x = c
  <2>1. page'[x] = p /\ up'[x] = up[x] \o es
    BY <1>2, <1>3, <1>7 DEF Shape
  <2>2. up[x] \in Seq(Events)
    BY <1>3 DEF Shape
  <2>3. CASE p.frame
    BY <1>5, <2>1, <2>3 DEF Placed
  <2>4. CASE ~p.shown
    BY <1>5, <2>1, <2>4 DEF Placed
  <2>5. CASE /\ p.frame = page[c].frame /\ p.expanded = page[c].expanded
             /\ p.shown = page[c].shown
    <3>1. Laid(page[c]) => Laid(p)
      BY <1>2, <2>5 DEF Laid, Ends, Height
    <3>2. TabUnderWay(x) => TabUnderWay(x)'
      <4> SUFFICES ASSUME NEW i \in DOMAIN up[x], up[x][i].kind = "tab_shown"
                   PROVE  TabUnderWay(x)'
        BY DEF TabUnderWay
      <4>1. i \in DOMAIN up'[x] /\ up'[x][i] = up[x][i]
        BY <1>2, <2>1, <2>2
      <4> QED
        BY <4>1 DEF TabUnderWay
    <3>3. Placed(x)'
      BY <1>2, <1>3, <1>7, <2>1, <2>5, <3>1, <3>2 DEF Placed
    <3> QED
      BY <1>5, <3>3
  <2>6. CASE Len(es) > 0 /\ es[1].kind = "tab_shown"
    <3> DEFINE i == Len(up[x]) + 1
    <3>1. i \in DOMAIN (up[x] \o es) /\ (up[x] \o es)[i] = es[1]
      BY <1>2, <2>2, <2>6, NextAfter
    <3>. HIDE DEF i
    <3>2. TabUnderWay(x)'
      BY <2>1, <2>6, <3>1 DEF TabUnderWay
    <3> QED
      BY <1>5, <3>2 DEF Placed
  <2> QED
    BY <1>2, <1>5, <2>3, <2>4, <2>5, <2>6 DEF KeepsLayout
<1> QED
  BY <1>6, <1>7

(* A page none of whose variables an action changes stays as it is.        *)
LEMMA OthersAtRest ==
  ASSUME NEW x, UpToDate(x), Placed(x), page'[x] = page[x], down'[x] = down[x],
         up'[x] = up[x],
         (doc' = doc /\ owed'[x] = owed[x]) \/ owed'[x] # 0
  PROVE  UpToDate(x)' /\ Placed(x)'
<1>1. UpToDate(x)'
  BY DEF UpToDate
<1>2. Placed(x)'
  BY DEF Placed, Laid, Ends, Height, TabUnderWay
<1> QED
  BY <1>1, <1>2

LEMMA SystemAtRest ==
  ASSUME Shape, AtRest, NEW c \in scene.pages, SystemStep(c)
  PROVE  AtRest'
<1>1. c \in Clients
  BY SceneFacts DEF Shape
<1>2. scene' = scene
  BY DEF SystemStep, ReceiveProps, HighlightsReady, Frame, HandleEvent, TabShown,
         refresh_from_state
<1> SUFFICES ASSUME NEW x \in scene.pages PROVE UpToDate(x)' /\ Placed(x)'
  BY <1>2 DEF AtRest
<1>3. x \in Clients /\ UpToDate(x) /\ Placed(x)
  BY SceneFacts DEF Shape, AtRest
<1>4. page[x] \in Pages /\ up[x] \in Seq(Events) /\ down[x] \in Seq(Pushes)
      /\ owed[x] \in Nat
  BY <1>3 DEF Shape
<1>5. CASE ReceiveProps(c)
  <2>1. /\ down[c] # <<>>
        /\ page' = [page EXCEPT ![c] = WithProps(page[c], Head(down[c]))]
        /\ down' = [down EXCEPT ![c] = Tail(down[c])]
        /\ UNCHANGED <<doc, owed, up>>
    BY <1>5 DEF ReceiveProps
  <2>2. CASE x # c
    <3>1. page'[x] = page[x] /\ down'[x] = down[x] /\ up'[x] = up[x]
          /\ UNCHANGED doc /\ owed'[x] = owed[x]
      BY <1>3, <2>1, <2>2 DEF Shape
    <3> QED
      BY <1>3, <3>1, OthersAtRest
  <2>3. CASE x = c
    <3> DEFINE m == Head(down[c])
    <3>1. page'[x] = WithProps(page[c], m) /\ down'[x] = Tail(down[x])
      BY <1>3, <2>1, <2>3 DEF Shape
    <3>2. m \in Pushes
      BY <1>4, <2>1, <2>3
    <3>3. page'[x].frame /\ page'[x].items = m.items
      <4>1. page[c] \in Pages /\ page[c].expanded \subseteq page[c].built
        BY <1>1 DEF Shape
      <4>. HIDE DEF m
      <4> QED
        BY <3>1, <3>2, <4>1, WithPropsType
    <3>4. Placed(x)'
      BY <3>3 DEF Placed
    <3>5. UpToDate(x)'
      <4>1. CASE Len(down[x]) = 1
        <5>1. m = down[x][Len(down[x])] /\ Tail(down[x]) = <<>>
          BY <1>4, <2>1, <2>3, <4>1, LastOfTail
        <5> QED
          BY <1>3, <2>1, <2>3, <3>1, <3>3, <5>1 DEF UpToDate
      <4>2. CASE Len(down[x]) # 1
        <5> DEFINE t == Tail(down[x])
        <5>1. t # <<>> /\ t[Len(t)] = down[x][Len(down[x])]
          BY <1>4, <2>1, <2>3, <4>2, LastOfTail
        <5>. HIDE DEF t
        <5>2. down'[x] = t
          BY <3>1 DEF t
        <5> QED
          BY <1>3, <2>1, <2>3, <5>1, <5>2 DEF UpToDate
      <4> QED
        BY <4>1, <4>2
    <3> QED
      BY <3>4, <3>5
  <2> QED
    BY <2>2, <2>3
<1>6. CASE HighlightsReady(c)
  <2>1. page' = [page EXCEPT ![c].ready = TRUE, ![c].frame = TRUE]
        /\ UNCHANGED <<doc, owed, up, down>>
    BY <1>6 DEF HighlightsReady
  <2>2. page'[x].items = page[x].items /\ (x # c => page'[x] = page[x])
        /\ (x = c => page'[x].frame)
    BY <1>3, <1>4, <2>1 DEF Shape, Pages
  <2>3. CASE x # c
    BY <1>3, <2>1, <2>2, <2>3, OthersAtRest
  <2>4. CASE x = c
    BY <1>3, <2>1, <2>2, <2>4 DEF UpToDate, Placed
  <2> QED
    BY <2>3, <2>4
<1>7. CASE Frame(c)
  <2>1. PICK q : /\ page' = [page EXCEPT ![c] = q]
                 /\ q.items = page[c].items
                 /\ q.ready /\ q.shown => Laid(q)
    BY <1>1, <1>7, FrameType
  <2>2. UNCHANGED <<doc, owed, up, down>>
    BY <1>7 DEF Frame
  <2>3. CASE x # c
    <3>1. page'[x] = page[x]
      BY <1>3, <2>1, <2>3 DEF Shape
    <3> QED
      BY <1>3, <2>2, <3>1, OthersAtRest
  <2>4. CASE x = c
    <3>1. page'[x] = q
      BY <1>3, <2>1, <2>4 DEF Shape
    <3> QED
      BY <1>3, <2>1, <2>2, <2>4, <3>1 DEF UpToDate, Placed
  <2> QED
    BY <2>3, <2>4
<1>8. CASE HandleEvent(c)
  <2>1. /\ up[c] # <<>> /\ Head(up[c]).kind # "tab_shown"
        /\ Handler(c, Head(up[c])) /\ up' = [up EXCEPT ![c] = Tail(up[c])]
        /\ UNCHANGED <<scene, down, page, typed, inputs>>
    BY <1>8 DEF HandleEvent
  <2>2. Head(up[c]) \in Events
    <3>1. up[c] \in Seq(Events)
      BY <1>1 DEF Shape
    <3> QED
      BY <2>1, <3>1
  <2>3. UNCHANGED <<doc, owed>> \/ owed'[x] > 0
    BY <1>1, <2>1, <2>2, HandlerOwes
  <2>4. UpToDate(x)'
    BY <1>3, <2>1, <2>3 DEF UpToDate
  <2>5. TabUnderWay(x) => TabUnderWay(x)'
    <3>1. CASE x # c
      <4>1. up'[x] = up[x]
        BY <1>3, <2>1, <3>1 DEF Shape
      <4> QED
        BY <4>1 DEF TabUnderWay
    <3>2. CASE x = c
      <4> SUFFICES ASSUME NEW i \in DOMAIN up[x], up[x][i].kind = "tab_shown"
                   PROVE  TabUnderWay(x)'
        BY DEF TabUnderWay
      <4>1. i # 1 /\ i \in 1 .. Len(up[x])
        BY <1>4, <2>1, <3>2
      <4>2. up'[x] = Tail(up[x])
        BY <1>3, <2>1, <3>2 DEF Shape
      <4>3. i - 1 \in DOMAIN Tail(up[x]) /\ Tail(up[x])[i - 1] = up[x][i]
        BY <1>4, <4>1
      <4> QED
        BY <4>2, <4>3 DEF TabUnderWay
    <3> QED
      BY <3>1, <3>2
  <2>6. Placed(x)'
    BY <1>3, <2>1, <2>5 DEF Placed, Laid, Ends, Height
  <2> QED
    BY <2>4, <2>6
<1>9. CASE TabShown(c) \/ refresh_from_state(c)
  <2>1. PICK r \in BOOLEAN : /\ down' = [down EXCEPT ![c] = Append(down[c], Props(c, r))]
                             /\ UNCHANGED <<doc, page>>
                             /\ \A y \in Clients \ {c} : up'[y] = up[y] /\ owed'[y] = owed[y]
    BY <1>1, <1>9 DEF TabShown, refresh_from_state, Shape
  <2>2. CASE x # c
    <3>1. page'[x] = page[x] /\ down'[x] = down[x] /\ up'[x] = up[x]
          /\ UNCHANGED doc /\ owed'[x] = owed[x]
      BY <1>3, <2>1, <2>2 DEF Shape
    <3> QED
      BY <1>3, <3>1, OthersAtRest
  <2>3. CASE x = c
    <3> DEFINE m == Props(c, r)
               d == Append(down[c], m)
    <3>1. m \in Pushes /\ m.items = doc
      BY <1>1, <2>1, PropsType
    <3>2. down'[x] = d
      BY <1>3, <2>1, <2>3 DEF Shape
    <3>. HIDE DEF m
    <3>3. d # <<>> /\ d[Len(d)] = m
      BY <1>4, <2>3, <3>1
    <3>. HIDE DEF d
    <3>4. down'[x] # <<>> /\ down'[x][Len(down'[x])].items = doc'
      BY <2>1, <3>1, <3>2, <3>3
    <3> QED
      BY <3>4 DEF UpToDate, Placed
  <2> QED
    BY <2>2, <2>3
<1> QED
  BY <1>5, <1>6, <1>7, <1>8, <1>9 DEF SystemStep

LEMMA NextAtRest == Shape /\ AtRest /\ [Next]_vars => AtRest'
<1> SUFFICES ASSUME Shape, AtRest, [Next]_vars PROVE AtRest'
  OBVIOUS
<1>1. scene.pages \in SUBSET Clients
  BY SceneFacts DEF Shape
<1>2. CASE UserStep
  BY <1>1, <1>2, UserStepInput, InputAtRest
<1>3. ASSUME NEW c \in scene.pages, SystemStep(c) PROVE AtRest'
  BY <1>3, SystemAtRest
<1>4. CASE UNCHANGED vars
  BY <1>4 DEF AtRest, UpToDate, Placed, Laid, Ends, Height, TabUnderWay, vars
<1> QED
  BY <1>2, <1>3, <1>4 DEF Next

LEMMA RestIsSettled == Shape /\ AtRest => SettledPage
<1> SUFFICES ASSUME Shape, AtRest, NEW c \in scene.pages, Quiet(c)
             PROVE  /\ page[c].items = doc
                    /\ page[c].ready /\ page[c].shown /\ ~page[c].frame => Laid(page[c])
  BY Zenon DEF SettledPage, Laid, Ends
<1>1. UpToDate(c) /\ Placed(c) /\ up[c] = <<>> /\ down[c] = <<>> /\ owed[c] = 0
  BY DEF AtRest, Quiet
<1>2. ~TabUnderWay(c)
  BY <1>1 DEF TabUnderWay
<1> QED
  BY <1>1, <1>2 DEF UpToDate, Placed

(* Once no event, no push and no refresh is under way, a page shows the    *)
(* document (_persist_and_broadcast refreshes every page after the last    *)
(* change), and once no frame is due positionCards has put every card at   *)
(* its text or right below the card that pushes it down, clear of all      *)
(* others, in whatever order it took cards that start at the same place.   *)
THEOREM SettledShowsDocument == Spec => []SettledPage
<1>1. Spec => []Shape
  BY InitShape, NextShape, PTL DEF Spec
<1>2. Spec => []AtRest
  BY <1>1, InitAtRest, NextAtRest, PTL DEF Spec
<1> QED
  BY <1>1, <1>2, RestIsSettled, PTL

-----------------------------------------------------------------------------
(* Comments                                                                *)

(* The text t as a draft, under way, and posted; pointwise.                *)
IsDraft(t, c, h) == page[c].drafts[h] = t
IsUp(t, c, i) == i \in DOMAIN up[c] /\ IsSent(t, up[c][i])
IsPosted(t, h, i) ==
  /\ h \in DOMAIN doc
  /\ i \in DOMAIN doc[h].comments
  /\ doc[h].comments[i].text = t

OneDraft(t) == \A c, d \in Clients, h, k \in Highlights :
                 IsDraft(t, c, h) /\ IsDraft(t, d, k) => c = d /\ h = k
OneSent(t) == \A c, d \in Clients : \A i, j :
                IsUp(t, c, i) /\ IsUp(t, d, j) => c = d /\ i = j
OnePosted(t) == \A h, k, i, j :
                  IsPosted(t, h, i) /\ IsPosted(t, k, j) => h = k /\ i = j

NoDraft(t) == \A c \in Clients, h \in Highlights : ~IsDraft(t, c, h)
NoneSent(t) == \A c \in Clients : \A i : ~IsUp(t, c, i)
NonePosted(t) == \A h, i : ~IsPosted(t, h, i)

(* In one place at most, and nowhere before it is typed: what makes the    *)
(* count inductive is that no two of the three can hold together.          *)
One(t) ==
  /\ OneDraft(t) /\ OneSent(t) /\ OnePosted(t)
  /\ NoDraft(t) \/ NoneSent(t)
  /\ NoDraft(t) \/ NonePosted(t)
  /\ NoneSent(t) \/ NonePosted(t)
  /\ t \notin typed => NoDraft(t) /\ NoneSent(t) /\ NonePosted(t)

OnePlaceEach == \A t \in Texts : One(t)

LEMMA InitOnePlace == Init => OnePlaceEach
<1> SUFFICES ASSUME Init, NEW t \in Texts PROVE One(t)
  BY DEF OnePlaceEach
<1>1. NoDraft(t)
  <2> DEFINE some == IF scene.fresh THEN {} ELSE scene.highlights
  <2>1. \A c \in Clients : page[c] = OpenPage(some)
    BY DEF Init
  <2>. HIDE DEF some
  <2>2. \A c \in Clients, h \in Highlights : page[c].drafts[h] = Empty
    BY <2>1 DEF OpenPage
  <2> QED
    BY <2>2, EmptyAssumption DEF NoDraft, IsDraft
<1>2. NoneSent(t)
  BY DEF NoneSent, IsUp, Init
<1>3. NonePosted(t)
  <2> DEFINE First == [tag : {CHOOSE g \in Tags : TRUE},
                       para_ref : Refs \cup {Empty}, comments : {<<>>}]
  <2>1. doc \in [scene.highlights -> First]
    BY Zenon DEF Init
  <2>2. \A r \in First : r.comments = <<>>
    OBVIOUS
  <2>. HIDE DEF First
  <2>3. \A h \in DOMAIN doc : doc[h].comments = <<>>
    BY ONLY <2>1, <2>2
  <2> QED
    BY <2>3 DEF NonePosted, IsPosted
<1> QED
  BY <1>1, <1>2, <1>3 DEF One, OneDraft, OneSent, OnePosted, NoDraft, NoneSent, NonePosted

(* What a step leaves as it is: at most one place stays at most one, and   *)
(* none stays none.                                                        *)
KeepsDraft(t) == (OneDraft(t) => OneDraft(t)') /\ (NoDraft(t) => NoDraft(t)')
KeepsSent(t) == (OneSent(t) => OneSent(t)') /\ (NoneSent(t) => NoneSent(t)')
KeepsPosted(t) == (OnePosted(t) => OnePosted(t)') /\ (NonePosted(t) => NonePosted(t)')

LEMMA AllKept ==
  ASSUME NEW t, One(t), KeepsDraft(t), KeepsSent(t), KeepsPosted(t),
         typed \subseteq typed'
  PROVE  One(t)'
BY DEF One, KeepsDraft, KeepsSent, KeepsPosted

LEMMA SameDraft ==
  ASSUME NEW t, \A c \in Clients, h \in Highlights : IsDraft(t, c, h)' => IsDraft(t, c, h)
  PROVE  KeepsDraft(t)
BY DEF KeepsDraft, OneDraft, NoDraft

LEMMA SameSent ==
  ASSUME NEW t, \A c \in Clients : \A i : IsUp(t, c, i)' => IsUp(t, c, i)
  PROVE  KeepsSent(t)
BY DEF KeepsSent, OneSent, NoneSent

LEMMA SamePosted ==
  ASSUME NEW t, \A h, i : IsPosted(t, h, i)' => IsPosted(t, h, i)
  PROVE  KeepsPosted(t)
BY DEF KeepsPosted, OnePosted, NonePosted

(* The first event of a page is gone, the others move up.                  *)
LEMMA TailSent ==
  ASSUME Shape, NEW t, NEW c \in Clients, up[c] # <<>>,
         up' = [up EXCEPT ![c] = Tail(up[c])]
  PROVE  /\ KeepsSent(t)
         /\ OneSent(t) /\ IsSent(t, Head(up[c])) => NoneSent(t)'
<1> DEFINE at(x, i) == IF x = c THEN i + 1 ELSE i
<1>1. ASSUME NEW x \in Clients, NEW i, IsUp(t, x, i)'
      PROVE  IsUp(t, x, at(x, i)) /\ i \in Nat \ {0}
  <2>1. up[x] \in Seq(Events) /\ up[c] \in Seq(Events)
    BY DEF Shape
  <2>2. CASE x = c
    <3> DEFINE s == Tail(up[c])
    <3>1. s \in Seq(Events) /\ Len(s) = Len(up[c]) - 1
          /\ \A j \in 1 .. Len(s) : s[j] = up[c][j + 1]
      BY <2>1, HeadTailProperties
    <3>2. up'[x] = s
      BY <2>2 DEF Shape
    <3>. HIDE DEF s
    <3>3. i \in DOMAIN s /\ IsSent(t, s[i])
      BY <1>1, <3>2 DEF IsUp, IsSent
    <3>4. i \in 1 .. Len(s)
      BY <3>1, <3>3
    <3>5. i + 1 \in DOMAIN up[c] /\ s[i] = up[c][i + 1]
      BY <2>1, <3>1, <3>4
    <3> QED
      BY <2>2, <3>3, <3>4, <3>5 DEF IsUp
  <2>3. CASE x # c
    <3>1. up'[x] = up[x]
      BY <2>3 DEF Shape
    <3>2. i \in DOMAIN up[x] /\ IsSent(t, up[x][i])
      BY <1>1, <3>1 DEF IsUp, IsSent
    <3> QED
      BY <2>1, <2>3, <3>2 DEF IsUp
  <2> QED
    BY <2>2, <2>3
<1>2. ASSUME NoneSent(t) PROVE NoneSent(t)'
  BY <1>1, <1>2 DEF NoneSent
<1>3. ASSUME OneSent(t), NEW x \in Clients, NEW y \in Clients, NEW i, NEW j,
             IsUp(t, x, i)', IsUp(t, y, j)'
      PROVE  x = y /\ i = j
  <2>1. IsUp(t, x, at(x, i)) /\ IsUp(t, y, at(y, j)) /\ i \in Nat /\ j \in Nat
    BY <1>1, <1>3
  <2>. HIDE DEF at
  <2>2. x = y /\ at(x, i) = at(y, j)
    BY <1>3, <2>1 DEF OneSent
  <2> QED
    BY <2>1, <2>2 DEF at
<1>4. ASSUME OneSent(t), IsSent(t, Head(up[c])), NEW x \in Clients, NEW i, IsUp(t, x, i)'
      PROVE  FALSE
  <2>1. IsUp(t, c, 1)
    <3>1. up[c] \in Seq(Events)
      BY DEF Shape
    <3>2. 1 \in DOMAIN up[c] /\ up[c][1] = Head(up[c])
      BY <3>1
    <3> QED
      BY <1>4, <3>2 DEF IsUp
  <2>2. IsUp(t, x, at(x, i)) /\ i \in Nat \ {0}
    BY <1>1, <1>4
  <2>. HIDE DEF at
  <2>3. x = c /\ at(x, i) = 1
    BY <1>4, <2>1, <2>2 DEF OneSent
  <2> QED
    BY <2>2, <2>3 DEF at
<1>5. OneSent(t) => OneSent(t)'
  BY <1>3 DEF OneSent
<1>6. OneSent(t) /\ IsSent(t, Head(up[c])) => NoneSent(t)'
  BY <1>4 DEF NoneSent
<1> QED
  BY <1>2, <1>5, <1>6 DEF KeepsSent

LEMMA InputOnePlace ==
  ASSUME Shape, NEW t \in Texts, One(t), NEW c \in Clients, UserInput(c)
  PROVE  One(t)'
<1>1. PICK p, es : Input(c, p, es)
                   /\ (Calm(c, p, es) \/ Typing(c, p, es) \/ Sending(c, p, es))
  BY DEF UserInput
<1>2. /\ es \in Seq(Events)
      /\ page' = [page EXCEPT ![c] = p]
      /\ up' = [up EXCEPT ![c] = up[c] \o es]
      /\ UNCHANGED doc
  BY <1>1 DEF Input, Emits
<1>3. KeepsPosted(t)
  BY <1>2, SamePosted DEF IsPosted
<1>4. \A x \in Clients : page'[x] = IF x = c THEN p ELSE page[x]
  BY <1>2 DEF Shape
<1>5. \A x \in Clients : up'[x] = IF x = c THEN up[c] \o es ELSE up[x]
  BY <1>2 DEF Shape
<1>6. page[c].drafts \in [Highlights -> Texts \cup {Empty}] /\ up[c] \in Seq(Events)
  BY DEF Shape, Pages
<1>7. ASSUME NEW x \in Clients, NEW i, IsUp(t, x, i)'
      PROVE  \/ IsUp(t, x, i)
             \/ /\ x = c /\ i - Len(up[c]) \in 1 .. Len(es)
                /\ IsSent(t, es[i - Len(up[c])])
  <2>1. CASE x # c
    BY <1>5, <1>7, <2>1 DEF IsUp, IsSent
  <2>2. CASE x = c
    <3> DEFINE s == up[c] \o es
    <3>1. s \in Seq(Events) /\ Len(s) = Len(up[c]) + Len(es)
          /\ \A j \in 1 .. Len(s) :
               s[j] = IF j <= Len(up[c]) THEN up[c][j] ELSE es[j - Len(up[c])]
      BY <1>2, <1>6
    <3>2. up'[x] = s
      BY <1>5, <2>2
    <3>. HIDE DEF s
    <3>3. i \in DOMAIN s /\ IsSent(t, s[i])
      BY <1>7, <3>2 DEF IsUp, IsSent
    <3>4. i \in 1 .. Len(s) /\ Len(up[c]) \in Nat /\ Len(es) \in Nat
      BY <1>2, <1>6, <3>1, <3>3
    <3>5. CASE i <= Len(up[c])
      <4>1. i \in DOMAIN up[c] /\ s[i] = up[c][i]
        BY <1>6, <3>1, <3>4, <3>5
      <4> QED
        BY <2>2, <3>3, <4>1 DEF IsUp
    <3>6. CASE ~(i <= Len(up[c]))
      <4>1. i - Len(up[c]) \in 1 .. Len(es) /\ s[i] = es[i - Len(up[c])]
        BY <3>1, <3>4, <3>6
      <4> QED
        BY <2>2, <3>3, <4>1
    <3> QED
      BY <3>5, <3>6
  <2> QED
    BY <2>1, <2>2
<1>8. CASE Calm(c, p, es)
  <2>1. KeepsDraft(t)
    BY <1>4, <1>8, SameDraft DEF Calm, IsDraft
  <2>2. KeepsSent(t)
    <3>1. \A i \in 1 .. Len(es) : ~IsSent(t, es[i])
      BY <1>8 DEF Calm, IsSent
    <3> QED
      BY <1>7, <3>1, SameSent
  <2> QED
    BY <1>3, <1>8, <2>1, <2>2, AllKept DEF Calm
<1>9. CASE Typing(c, p, es)
  <2>1. PICK h \in Highlights, text \in Texts \ typed :
          /\ p.drafts = [page[c].drafts EXCEPT ![h] = text]
          /\ es = <<>>
          /\ typed' = typed \cup {text}
    BY <1>9 DEF Typing
  <2>2. \A x \in Clients : \A i : IsUp(t, x, i)' => IsUp(t, x, i)
    <3>1. Len(es) = 0
      BY <2>1
    <3> QED
      BY <1>7, <3>1
  <2>3. ASSUME NEW x \in Clients, NEW k \in Highlights, IsDraft(t, x, k)'
        PROVE  IsDraft(t, x, k) \/ (t = text /\ x = c /\ k = h)
    BY <1>4, <1>6, <2>1, <2>3 DEF IsDraft
  <2>4. CASE t # text
    <3>1. KeepsDraft(t)
      BY <2>3, <2>4, SameDraft
    <3> QED
      BY <1>3, <2>1, <2>2, <3>1, SameSent, AllKept
  <2>5. CASE t = text
    <3>1. NoDraft(t) /\ NoneSent(t) /\ NonePosted(t)
      BY <2>1, <2>5 DEF One
    <3>2. OneDraft(t)'
      BY <2>3, <3>1 DEF OneDraft, NoDraft
    <3>3. NoneSent(t)' /\ NonePosted(t)'
      BY <1>3, <2>2, <3>1 DEF NoneSent, KeepsPosted
    <3>4. t \in typed'
      BY <2>1, <2>5
    <3> QED
      BY <3>2, <3>3, <3>4 DEF One, OneSent, OnePosted, NoneSent, NonePosted
  <2> QED
    BY <2>4, <2>5
<1>10. CASE Sending(c, p, es)
  <2>1. PICK h \in Highlights :
          /\ page[c].drafts[h] # Empty
          /\ p.drafts = [page[c].drafts EXCEPT ![h] = Empty]
          /\ es = <<Event("submit_comment", h, page[c].drafts[h])>>
          /\ typed' = typed
    BY <1>10 DEF Sending
  <2> DEFINE text == page[c].drafts[h]
  <2>2. Len(es) = 1 /\ es[1].value = text
    BY <2>1 DEF Event
  <2>3. t # Empty
    BY EmptyAssumption
  <2>4. ASSUME NEW x \in Clients, NEW k \in Highlights, IsDraft(t, x, k)'
        PROVE  IsDraft(t, x, k) /\ ~(x = c /\ k = h)
    BY <1>4, <1>6, <2>1, <2>3, <2>4 DEF IsDraft
  <2>5. ASSUME NEW x \in Clients, NEW i, IsUp(t, x, i)'
        PROVE  IsUp(t, x, i) \/ (t = text /\ x = c /\ i = Len(up[c]) + 1)
    <3>1. CASE x = c /\ i - Len(up[c]) \in 1 .. Len(es) /\ IsSent(t, es[i - Len(up[c])])
      <4>1. i - Len(up[c]) = 1
        BY <2>2, <3>1
      <4>2. t = text
        BY <2>2, <3>1, <4>1 DEF IsSent
      <4>3. i \in Int
        <5>1. up'[c] \in Seq(Events)
          BY <1>2, <1>5, <1>6
        <5> QED
          BY <2>5, <3>1, <5>1 DEF IsUp
      <4> QED
        BY <1>6, <3>1, <4>1, <4>2, <4>3
    <3> QED
      BY <1>7, <2>5, <3>1
  <2>6. KeepsDraft(t)
    BY <2>4, SameDraft
  <2>7. CASE t # text
    <3>1. KeepsSent(t)
      BY <2>5, <2>7, SameSent
    <3> QED
      BY <1>3, <2>1, <2>6, <3>1, AllKept
  <2>8. CASE t = text
    <3>1. IsDraft(t, c, h)
      BY <2>8 DEF IsDraft
    <3>2. NoneSent(t) /\ NonePosted(t) /\ OneDraft(t) /\ t \in typed
      BY <3>1 DEF One, NoDraft
    <3>3. NoDraft(t)'
      BY <2>4, <3>1, <3>2 DEF NoDraft, OneDraft
    <3>4. OneSent(t)'
      BY <2>5, <3>2 DEF OneSent, NoneSent
    <3>5. NonePosted(t)'
      BY <1>3, <3>2 DEF KeepsPosted
    <3>6. t \in typed'
      BY <2>1, <3>2
    <3> QED
      BY <3>3, <3>4, <3>5, <3>6 DEF One, OneDraft, OnePosted, NoDraft, NonePosted
  <2> QED
    BY <2>7, <2>8
<1> QED
  BY <1>1, <1>8, <1>9, <1>10

(* A comment submitted is posted at the end, any other handler adds none.  *)
PostsIt(t, e) ==
  /\ IsSent(t, e) /\ e.id \in DOMAIN doc
  /\ \A h, i : IsPosted(t, h, i)' =>
       IsPosted(t, h, i) \/ (h = e.id /\ i = Len(doc[e.id].comments) + 1)

LEMMA HandlerPosts ==
  ASSUME Shape, NEW t, NEW c \in Clients, NEW e \in Events, Handler(c, e)
  PROVE  KeepsPosted(t) \/ PostsIt(t, e)
<1>1. doc \in Docs
  BY DEF Shape
<1>2. \A h \in DOMAIN doc : doc[h] \in Item
  BY <1>1, DocsFacts
<1>3. doc = [h \in DOMAIN doc |-> doc[h]]
  BY <1>1, DocsFacts
<1>4. ASSUME DOMAIN doc' = DOMAIN doc,
             \A h \in DOMAIN doc : doc'[h].comments = doc[h].comments
      PROVE  KeepsPosted(t)
  BY <1>4, SamePosted DEF IsPosted
<1>5. CASE e.kind = "toggle_expand" /\ on_toggle_expand(c, e)
  BY <1>4, <1>5 DEF on_toggle_expand
<1>6. CASE e.kind = "change_tag" /\ on_change_tag(c, e)
  <2>1. CASE e.id \in DOMAIN doc
    <3>1. doc' = [doc EXCEPT ![e.id].tag = e.value]
      BY <1>6, <2>1 DEF on_change_tag
    <3>2. doc[e.id] \in Item
      BY <1>2, <2>1
    <3>3. DOMAIN doc' = DOMAIN doc
          /\ \A h \in DOMAIN doc : doc'[h].comments = doc[h].comments
      BY <1>3, <3>1, <3>2 DEF Item
    <3> QED
      BY <1>4, <3>3
  <2>2. CASE e.id \notin DOMAIN doc
    BY <1>4, <1>6, <2>2 DEF on_change_tag
  <2> QED
    BY <2>1, <2>2
<1>7. CASE e.kind = "submit_comment" /\ on_submit_comment(c, e)
  <2>1. CASE e.id \in DOMAIN doc
    <3> DEFINE old  == doc[e.id].comments
               more == Append(old, [text |-> e.value, by |-> c])
    <3>1. doc' = [doc EXCEPT ![e.id].comments = more]
      BY <1>7, <2>1 DEF on_submit_comment
    <3>2. doc[e.id] \in Item /\ old \in Seq([text : Texts, by : Clients])
      BY <1>2, <2>1 DEF Item
    <3>3. /\ Len(old) \in Nat /\ DOMAIN more = 1 .. Len(old) + 1 /\ DOMAIN old = 1 .. Len(old)
          /\ \A i \in 1 .. Len(old) : more[i] = old[i]
          /\ more[Len(old) + 1].text = e.value
      BY <3>2, SMTT(30)
    <3>. HIDE DEF more
    <3>4. /\ DOMAIN doc' = DOMAIN doc
          /\ doc'[e.id].comments = more
          /\ \A h \in DOMAIN doc \ {e.id} : doc'[h].comments = doc[h].comments
      BY <1>3, <2>1, <3>1, <3>2 DEF Item
    <3>5. ASSUME NEW h, NEW i, IsPosted(t, h, i)'
          PROVE  IsPosted(t, h, i)
                 \/ (h = e.id /\ i = Len(old) + 1 /\ e.value = t)
      <4>1. CASE h # e.id
        BY <3>4, <3>5, <4>1 DEF IsPosted
      <4>2. CASE h = e.id
        <5>1. i \in DOMAIN more /\ more[i].text = t
          BY <3>4, <3>5, <4>2 DEF IsPosted
        <5>2. CASE i = Len(old) + 1
          BY <3>3, <4>2, <5>1, <5>2
        <5>3. CASE i # Len(old) + 1
          <6>1. i \in 1 .. Len(old)
            BY <3>3, <5>1, <5>3
          <6>2. i \in DOMAIN old /\ old[i].text = t
            BY <3>3, <5>1, <6>1
          <6> QED
            BY <2>1, <4>2, <6>2 DEF IsPosted
        <5> QED
          BY <5>2, <5>3
      <4> QED
        BY <4>1, <4>2
    <3>. HIDE DEF old
    <3>6. CASE e.value = t
      BY <1>7, <2>1, <3>5, <3>6 DEF PostsIt, IsSent, old
    <3>7. CASE e.value # t
      BY <3>5, <3>7, SamePosted
    <3> QED
      BY <3>6, <3>7
  <2>2. CASE e.id \notin DOMAIN doc
    BY <1>4, <1>7, <2>2 DEF on_submit_comment
  <2> QED
    BY <2>1, <2>2
<1>8. CASE e.kind = "delete_comment" /\ on_delete_comment(c, e)
  <2>1. \/ UNCHANGED doc
        \/ /\ e.id \in DOMAIN doc
           /\ \E r \in DOMAIN doc[e.id].comments :
                doc' = [doc EXCEPT ![e.id].comments = RemoveAt(@, r)]
    BY <1>8 DEF on_delete_comment
  <2>2. CASE UNCHANGED doc
    BY <1>4, <2>2
  <2>3. ASSUME e.id \in DOMAIN doc, NEW r \in DOMAIN doc[e.id].comments,
               doc' = [doc EXCEPT ![e.id].comments = RemoveAt(@, r)]
        PROVE  KeepsPosted(t)
    <3> DEFINE old     == doc[e.id].comments
               fewer   == RemoveAt(old, r)
               at(h, i) == IF h = e.id /\ ~(i < r) THEN i + 1 ELSE i
    <3>1. doc[e.id] \in Item /\ old \in Seq([text : Texts, by : Clients])
      BY <1>2, <2>3 DEF Item
    <3>2. /\ fewer \in Seq([text : Texts, by : Clients])
          /\ Len(fewer) = Len(old) - 1
          /\ \A j \in 1 .. Len(old) - 1 : fewer[j] = old[IF j < r THEN j ELSE j + 1]
      BY <2>3, <3>1, RemoveAtFacts
    <3>3. Len(old) \in Nat /\ DOMAIN old = 1 .. Len(old) /\ r \in 1 .. Len(old)
      BY <2>3, <3>1
    <3>4. doc' = [doc EXCEPT ![e.id].comments = fewer]
      BY <2>3
    <3>. HIDE DEF fewer
    <3>5. DOMAIN fewer = 1 .. Len(old) - 1
      BY <3>2, <3>3
    <3>6. /\ DOMAIN doc' = DOMAIN doc
          /\ doc'[e.id].comments = fewer
          /\ \A h \in DOMAIN doc \ {e.id} : doc'[h].comments = doc[h].comments
      BY <1>3, <2>3, <3>1, <3>4 DEF Item
    <3>7. ASSUME NEW h, NEW i, IsPosted(t, h, i)'
          PROVE  IsPosted(t, h, at(h, i)) /\ (h = e.id => i \in Nat)
      <4>1. CASE h # e.id
        BY <3>6, <3>7, <4>1 DEF IsPosted
      <4>2. CASE h = e.id
        <5>1. i \in 1 .. Len(old) - 1 /\ fewer[i].text = t
          BY <3>5, <3>6, <3>7, <4>2 DEF IsPosted
        <5>2. at(h, i) \in DOMAIN old /\ fewer[i] = old[at(h, i)]
          BY <3>2, <3>3, <4>2, <5>1
        <5> QED
          BY <2>3, <4>2, <5>1, <5>2 DEF IsPosted
      <4> QED
        BY <4>1, <4>2
    <3>8. ASSUME NEW h, NEW k, NEW i, NEW j, h = k, at(h, i) = at(k, j),
                 h = e.id => i \in Nat /\ j \in Nat
          PROVE  i = j
      BY <3>3, <3>8
    <3>. HIDE DEF at
    <3>9. OnePosted(t) => OnePosted(t)'
      <4> SUFFICES ASSUME OnePosted(t), NEW h, NEW k, NEW i, NEW j,
                          IsPosted(t, h, i)', IsPosted(t, k, j)'
                   PROVE  h = k /\ i = j
        BY DEF OnePosted
      <4>1. IsPosted(t, h, at(h, i)) /\ IsPosted(t, k, at(k, j))
        BY <3>7
      <4>2. h = k /\ at(h, i) = at(k, j)
        BY <4>1 DEF OnePosted
      <4> QED
        BY <3>7, <3>8, <4>2
    <3>10. NonePosted(t) => NonePosted(t)'
      BY <3>7 DEF NonePosted
    <3> QED
      BY <3>9, <3>10 DEF KeepsPosted
  <2> QED
    BY <2>1, <2>2, <2>3
<1>9. CASE e.kind = "delete_highlight" /\ on_delete_highlight(c, e)
  <2>1. doc' = Restrict(doc, DOMAIN doc \ {e.id})
    BY <1>9 DEF on_delete_highlight
  <2>2. DOMAIN doc' = DOMAIN doc \ {e.id} /\ \A h \in DOMAIN doc \ {e.id} : doc'[h] = doc[h]
    BY <2>1 DEF Restrict
  <2>3. ASSUME NEW h, NEW i, IsPosted(t, h, i)' PROVE IsPosted(t, h, i)
    <3>1. h \in DOMAIN doc' /\ i \in DOMAIN doc'[h].comments
          /\ doc'[h].comments[i].text = t
      BY <2>3 DEF IsPosted
    <3>2. h \in DOMAIN doc /\ doc'[h] = doc[h]
      BY <2>2, <3>1
    <3> QED
      BY <3>1, <3>2 DEF IsPosted
  <2> QED
    BY <2>3, SamePosted
<1>10. CASE e.kind = "edit_para_ref" /\ on_edit_para_ref(c, e)
  <2>1. CASE e.value # Empty /\ e.id \in DOMAIN doc
    <3>1. doc' = [doc EXCEPT ![e.id].para_ref = e.value]
      BY <1>10, <2>1 DEF on_edit_para_ref
    <3>2. doc[e.id] \in Item
      BY <1>2, <2>1
    <3>3. DOMAIN doc' = DOMAIN doc
          /\ \A h \in DOMAIN doc : doc'[h].comments = doc[h].comments
      BY <1>3, <3>1, <3>2 DEF Item
    <3> QED
      BY <1>4, <3>3
  <2>2. CASE ~(e.value # Empty /\ e.id \in DOMAIN doc)
    BY <1>4, <1>10, <2>2 DEF on_edit_para_ref
  <2> QED
    BY <2>1, <2>2
<1> QED
  BY <1>5, <1>6, <1>7, <1>8, <1>9, <1>10 DEF Handler

LEMMA SystemOnePlace ==
  ASSUME Shape, NEW t \in Texts, One(t), NEW c \in Clients, SystemStep(c)
  PROVE  One(t)'
<1>1. typed' = typed
  BY DEF SystemStep, ReceiveProps, HighlightsReady, Frame, HandleEvent, TabShown,
         refresh_from_state
<1>2. ASSUME UNCHANGED page PROVE KeepsDraft(t)
  BY <1>2, SameDraft DEF IsDraft
<1>3. ASSUME UNCHANGED up PROVE KeepsSent(t)
  BY <1>3, SameSent DEF IsUp
<1>4. ASSUME UNCHANGED doc PROVE KeepsPosted(t)
  BY <1>4, SamePosted DEF IsPosted
<1>5. ASSUME NEW q, page' = [page EXCEPT ![c] = q], q.drafts = page[c].drafts
      PROVE  KeepsDraft(t)
  <2>1. \A x \in Clients : page'[x].drafts = page[x].drafts
    BY <1>5 DEF Shape
  <2> QED
    BY <2>1, SameDraft DEF IsDraft
<1>6. CASE ReceiveProps(c)
  <2> DEFINE m == Head(down[c])
             q == WithProps(page[c], m)
  <2>1. page' = [page EXCEPT ![c] = q] /\ UNCHANGED <<up, doc>>
    BY <1>6 DEF ReceiveProps
  <2>2. m \in Pushes /\ page[c] \in Pages /\ page[c].expanded \subseteq page[c].built
    BY <1>6 DEF ReceiveProps, Shape
  <2>. HIDE DEF m
  <2>3. q.drafts = page[c].drafts
    BY <2>2, WithPropsType
  <2>. HIDE DEF q
  <2> QED
    BY <1>1, <1>3, <1>4, <1>5, <2>1, <2>3, AllKept
<1>7. CASE HighlightsReady(c)
  <2> DEFINE q == [page[c] EXCEPT !.ready = TRUE, !.frame = TRUE]
  <2>1. page' = [page EXCEPT ![c] = q] /\ UNCHANGED <<up, doc>>
    BY <1>7 DEF HighlightsReady, Shape
  <2>2. q.drafts = page[c].drafts
    BY DEF Shape, Pages
  <2>. HIDE DEF q
  <2> QED
    BY <1>1, <1>3, <1>4, <1>5, <2>1, <2>2, AllKept
<1>8. CASE Frame(c)
  <2>1. PICK q : page' = [page EXCEPT ![c] = q] /\ q.drafts = page[c].drafts
    BY <1>8, FrameType
  <2>2. UNCHANGED <<up, doc>>
    BY <1>8 DEF Frame
  <2> QED
    BY <1>1, <1>3, <1>4, <1>5, <2>1, <2>2, AllKept
<1>9. CASE HandleEvent(c)
  <2> DEFINE e == Head(up[c])
  <2>1. up[c] # <<>> /\ Handler(c, e) /\ up' = [up EXCEPT ![c] = Tail(up[c])]
        /\ UNCHANGED page
    BY <1>9 DEF HandleEvent
  <2>2. e \in Events
    <3>1. up[c] \in Seq(Events)
      BY DEF Shape
    <3> QED
      BY <2>1, <3>1
  <2>3. KeepsSent(t) /\ (OneSent(t) /\ IsSent(t, e) => NoneSent(t)')
    BY <2>1, TailSent
  <2>4. KeepsPosted(t) \/ PostsIt(t, e)
    BY <2>1, <2>2, HandlerPosts
  <2>5. CASE KeepsPosted(t)
    BY <1>1, <1>2, <2>1, <2>3, <2>5, AllKept
  <2>6. CASE PostsIt(t, e)
    <3>1. IsUp(t, c, 1)
      <4>1. up[c] \in Seq(Events)
        BY DEF Shape
      <4>2. 1 \in DOMAIN up[c] /\ up[c][1] = e
        BY <2>1, <4>1
      <4>. HIDE DEF e
      <4> QED
        BY <2>6, <4>2 DEF IsUp, PostsIt
    <3>. HIDE DEF e
    <3>2. NoDraft(t) /\ NonePosted(t) /\ OneSent(t) /\ t \in typed
      BY <3>1 DEF One, NoneSent
    <3>3. NoneSent(t)'
      BY <2>3, <2>6, <3>2 DEF PostsIt
    <3>4. NoDraft(t)'
      BY <1>2, <2>1, <3>2 DEF KeepsDraft
    <3>5. OnePosted(t)'
      BY <2>6, <3>2 DEF PostsIt, OnePosted, NonePosted
    <3> QED
      BY <1>1, <3>2, <3>3, <3>4, <3>5 DEF One, OneDraft, OneSent, NoDraft, NoneSent
  <2> QED
    BY <2>4, <2>5, <2>6
<1>10. CASE TabShown(c)
  <2>1. up[c] # <<>> /\ up' = [up EXCEPT ![c] = Tail(up[c])] /\ UNCHANGED <<page, doc>>
    BY <1>10 DEF TabShown
  <2>2. KeepsSent(t)
    BY <2>1, TailSent
  <2> QED
    BY <1>1, <1>2, <1>4, <2>1, <2>2, AllKept
<1>11. CASE refresh_from_state(c)
  <2>1. UNCHANGED <<page, doc, up>>
    BY <1>11 DEF refresh_from_state
  <2> QED
    BY <1>1, <1>2, <1>3, <1>4, <2>1, AllKept
<1> QED
  BY <1>6, <1>7, <1>8, <1>9, <1>10, <1>11 DEF SystemStep

LEMMA NextOnePlace == Shape /\ OnePlaceEach /\ [Next]_vars => OnePlaceEach'
<1> SUFFICES ASSUME Shape, OnePlaceEach, [Next]_vars, NEW t \in Texts PROVE One(t)'
  BY DEF OnePlaceEach
<1>1. scene.pages \in SUBSET Clients
  BY SceneFacts DEF Shape
<1>2. One(t)
  BY DEF OnePlaceEach
<1>3. CASE UserStep
  BY <1>1, <1>2, <1>3, UserStepInput, InputOnePlace
<1>4. ASSUME NEW c \in scene.pages, SystemStep(c) PROVE One(t)'
  BY <1>1, <1>2, <1>4, SystemOnePlace
<1>5. CASE UNCHANGED vars
  <2>1. KeepsDraft(t) /\ KeepsSent(t) /\ KeepsPosted(t)
    BY <1>5, SameDraft, SameSent, SamePosted DEF vars, IsDraft, IsUp, IsPosted
  <2> QED
    BY <1>2, <1>5, <2>1, AllKept DEF vars
<1> QED
  BY <1>3, <1>4, <1>5 DEF Next

(* A set with at most one member.                                          *)
LEMMA AtMostOne ==
  ASSUME NEW S, \A x, y \in S : x = y
  PROVE  /\ Cardinality(S) \in {0, 1}
         /\ S = {} => Cardinality(S) = 0
<1>1. CASE S = {}
  BY <1>1, FS_EmptySet
<1>2. CASE S # {}
  <2>1. PICK x : x \in S
    BY <1>2
  <2>2. S = {x}
    BY <2>1
  <2> QED
    BY <1>2, <2>2, FS_Singleton
<1> QED
  BY <1>1, <1>2

LEMMA OnePlaceCounts == OnePlaceEach => EachCommentOnce
<1> SUFFICES ASSUME NEW t \in Texts, One(t)
             PROVE  Cardinality(Drafted(t)) + Cardinality(Sent(t))
                      + Cardinality(Posted(t)) <= 1
  BY DEF OnePlaceEach, EachCommentOnce
<1>1. \A x, y \in Drafted(t) : x = y
  <2> SUFFICES ASSUME NEW x \in Drafted(t), NEW y \in Drafted(t) PROVE x = y
    OBVIOUS
  <2>1. /\ x \in Clients \X Highlights /\ IsDraft(t, x[1], x[2])
        /\ y \in Clients \X Highlights /\ IsDraft(t, y[1], y[2])
    BY DEF Drafted, IsDraft
  <2>2. x[1] = y[1] /\ x[2] = y[2]
    BY <2>1 DEF One, OneDraft
  <2> QED
    BY <2>1, <2>2
<1>2. NoDraft(t) => Drafted(t) = {}
  BY DEF NoDraft, Drafted, IsDraft
<1>3. ASSUME NEW x \in Sent(t)
      PROVE  x[1] \in Clients /\ IsUp(t, x[1], x[2]) /\ x = <<x[1], x[2]>>
  BY DEF Sent, IsUp
<1>4. \A x, y \in Sent(t) : x = y
  BY <1>3 DEF One, OneSent
<1>5. NoneSent(t) => Sent(t) = {}
  BY <1>3 DEF NoneSent
<1>6. ASSUME NEW x \in Posted(t)
      PROVE  IsPosted(t, x[1], x[2]) /\ x = <<x[1], x[2]>>
  BY DEF Posted, IsPosted
<1>7. \A x, y \in Posted(t) : x = y
  BY <1>6 DEF One, OnePosted
<1>8. NonePosted(t) => Posted(t) = {}
  BY <1>6 DEF NonePosted
<1>9. /\ Cardinality(Drafted(t)) \in {0, 1} /\ Cardinality(Sent(t)) \in {0, 1}
      /\ Cardinality(Posted(t)) \in {0, 1}
      /\ NoDraft(t) => Cardinality(Drafted(t)) = 0
      /\ NoneSent(t) => Cardinality(Sent(t)) = 0
      /\ NonePosted(t) => Cardinality(Posted(t)) = 0
  BY <1>1, <1>2, <1>4, <1>5, <1>7, <1>8, AtMostOne
<1> QED
  BY <1>9 DEF One

(* A comment typed once is a draft, or on its way, or posted, and never    *)
(* two of these: onSubmitComment empties the draft as it emits, so that    *)
(* Enter and the Post button cannot both send it, on_submit_comment        *)
(* appends it once, and no refresh, which may arrive between the two,      *)
(* brings a draft back.                                                    *)
THEOREM CommentsAreUnique == Spec => []EachCommentOnce
<1>1. Spec => []Shape
  BY InitShape, NextShape, PTL DEF Spec
<1>2. Spec => []OnePlaceEach
  BY <1>1, InitOnePlace, NextOnePlace, PTL DEF Spec
<1> QED
  BY <1>2, OnePlaceCounts, PTL

====
