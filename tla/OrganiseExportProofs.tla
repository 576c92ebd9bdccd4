------------------------ MODULE OrganiseExportProofs ------------------------
(***************************************************************************)
(* Proofs about two components that have nothing to do with each other     *)
(* and share this module only: the Organise tab (its specification is      *)
(* OrganiseSpec) and the export queue (Spec).                              *)
(*                                                                         *)
(* Organise: the page that drops a card is never rendered again, so what   *)
(* it shows must be what the document will say once its own events have    *)
(* been handled.  The invariant therefore speaks of the document after     *)
(* each event on its way, and of the last rendering on its way, if there   *)
(* is one: all the events before it are then lost.                         *)
(*                                                                         *)
(* Export queue: its invariants need to know where the worker is.  The job *)
(* it exports is running (or its row is gone), was not given up before and *)
(* has its directory, the job whose output it removes is not completed,    *)
(* and the directories it sweeps belong to rows that are gone for good,    *)
(* since a new job never takes the place of an old one.                    *)
(***************************************************************************)
EXTENDS Organise, ExportQueue, FiniteSetTheorems, SequenceTheorems, TLAPS

(***************************************************************************)
(* Part 1: the Organise tab                                                *)
(***************************************************************************)

(* Counting the members up to i numbers a finite set of positions.         *)
LEMMA Ranks ==
  ASSUME NEW n \in Nat, NEW places \in SUBSET (1 .. n)
  PROVE  LET rank(i) == Cardinality({k \in places : k <= i})
         IN  /\ Cardinality(places) \in Nat
             /\ \A i \in places : rank(i) \in 1 .. Cardinality(places)
             /\ \A i, j \in places : rank(i) = rank(j) => i = j
             /\ \A m \in 1 .. Cardinality(places) : \E i \in places : rank(i) = m
<1> DEFINE rank(i) == Cardinality({k \in places : k <= i})
           r == [i \in places |-> rank(i)]
<1>1. IsFiniteSet(places) /\ Cardinality(places) \in Nat
  <2>1. IsFiniteSet(1 .. n)
    BY FS_Interval
  <2> QED
    BY <2>1, FS_Subset, FS_CardinalityType
<1>2. ASSUME NEW i \in places PROVE rank(i) \in 1 .. Cardinality(places)
  <2>1. i \in {k \in places : k <= i} /\ {k \in places : k <= i} \in SUBSET places
    OBVIOUS
  <2>2. IsFiniteSet({k \in places : k <= i}) /\ rank(i) <= Cardinality(places)
    BY <1>1, <2>1, FS_Subset
  <2>3. rank(i) \in Nat /\ rank(i) # 0
    BY <2>1, <2>2, FS_CardinalityType, FS_EmptySet
  <2> QED
    BY <1>1, <2>2, <2>3
<1>3. ASSUME NEW i \in places, NEW j \in places, i < j PROVE rank(i) # rank(j)
  <2> DEFINE I == {k \in places : k <= i}
             J == {k \in places : k <= j}
  <2>1. i \in Int /\ j \in Int /\ \A k \in places : k \in Int
    OBVIOUS
  <2>2. I \in SUBSET J /\ j \in J /\ j \notin I
    <3>1. \A k \in places : k <= i => k <= j
      BY <1>3, <2>1
    <3>2. j <= j /\ ~(j <= i)
      BY <1>3, <2>1
    <3> QED
      BY <3>1, <3>2
  <2>3. IsFiniteSet(J)
    BY <1>1, FS_Subset
  <2>4. Cardinality(I) # Cardinality(J)
    BY <2>2, <2>3, FS_Subset
  <2> QED
    BY <2>4
<1>4. ASSUME NEW i \in places, NEW j \in places, rank(i) = rank(j) PROVE i = j
  <2>1. i \in Int /\ j \in Int
    OBVIOUS
  <2>2. ~(i < j) /\ ~(j < i)
    BY <1>3, <1>4
  <2> QED
    BY <2>1, <2>2
<1>5. \A m \in 1 .. Cardinality(places) : \E i \in places : rank(i) = m
  <2>1. r \in [places -> 1 .. Cardinality(places)]
    BY <1>2
  <2>2. r \in Injection(places, 1 .. Cardinality(places))
    BY <2>1, <1>4 DEF Injection, IsInjective
  <2>3. /\ IsFiniteSet(1 .. Cardinality(places))
        /\ Cardinality(1 .. Cardinality(places)) = Cardinality(places)
    BY <1>1, FS_Interval
  <2>4. r \in Surjection(places, 1 .. Cardinality(places))
    BY <2>2, <2>3, FS_Injection
  <2> QED
    BY <2>4 DEF Surjection
<1> QED
  BY <1>1, <1>2, <1>4, <1>5

(* What the loops of _render_ordered_cards go through.                     *)
LEMMA AmongFacts ==
  ASSUME NEW T, NEW s \in Seq(T), NEW S
  PROVE  /\ Among(s, S) \in Seq(T)
         /\ Range(Among(s, S)) = Range(s) \cap S
<1> DEFINE places  == {i \in DOMAIN s : s[i] \in S}
           rank(i) == Cardinality({k \in places : k <= i})
           at(m)   == CHOOSE i \in places : rank(i) = m
           p       == [m \in 1 .. Cardinality(places) |-> s[at(m)]]
<1>1. Len(s) \in Nat /\ DOMAIN s = 1 .. Len(s) /\ s \in [1 .. Len(s) -> T]
  OBVIOUS
<1>2. places \in SUBSET (1 .. Len(s))
  BY <1>1
<1>3. /\ Cardinality(places) \in Nat
      /\ \A i \in places : rank(i) \in 1 .. Cardinality(places)
      /\ \A i, j \in places : rank(i) = rank(j) => i = j
      /\ \A m \in 1 .. Cardinality(places) : \E i \in places : rank(i) = m
  BY <1>1, <1>2, Ranks
<1>4. Among(s, S) = p
  BY DEF Among
<1>5. \A m \in 1 .. Cardinality(places) : at(m) \in places /\ rank(at(m)) = m
  BY <1>3
<1>. HIDE DEF rank, at
<1>6. \A i \in places : at(rank(i)) = i
  BY <1>3, <1>5
<1>7. p \in Seq(T)
  <2>1. p \in [1 .. Cardinality(places) -> T]
    BY <1>1, <1>2, <1>5
  <2> QED
    BY <1>3, <2>1, SeqDef
<1>8. ASSUME NEW x \in Range(p) PROVE x \in Range(s) \cap S
  <2>1. PICK m \in 1 .. Cardinality(places) : x = s[at(m)]
    BY DEF Range
  <2>2. at(m) \in DOMAIN s /\ s[at(m)] \in S
    BY <1>5, <2>1
  <2> QED
    BY <2>1, <2>2 DEF Range
<1>9. ASSUME NEW x \in Range(s) \cap S PROVE x \in Range(p)
  <2>1. PICK i \in DOMAIN s : s[i] = x
    BY DEF Range
  <2>2. i \in places
    BY <2>1
  <2>3. rank(i) \in DOMAIN p /\ p[rank(i)] = s[at(rank(i))]
    BY <1>3, <2>2
  <2>4. p[rank(i)] = x
    BY <1>6, <2>1, <2>2, <2>3
  <2> QED
    BY <2>3, <2>4 DEF Range
<1> QED
  BY <1>4, <1>7, <1>8, <1>9

(* Nothing is skipped, or everything.                                      *)
LEMMA AmongAll ==
  ASSUME NEW T, NEW s \in Seq(T), NEW S, Range(s) \subseteq S
  PROVE  Among(s, S) = s
<1> DEFINE places  == {i \in DOMAIN s : s[i] \in S}
           rank(i) == Cardinality({k \in places : k <= i})
           at(m)   == CHOOSE i \in places : rank(i) = m
<1>1. Len(s) \in Nat /\ DOMAIN s = 1 .. Len(s) /\ s \in [1 .. Len(s) -> T]
  OBVIOUS
<1>2. places = 1 .. Len(s)
  BY <1>1 DEF Range
<1>0. \A n \in Nat : Cardinality(1 .. n) = n
  BY FS_Interval
<1>3. Cardinality(places) = Len(s)
  BY <1>0, <1>1, <1>2
<1>4. ASSUME NEW i \in 1 .. Len(s) PROVE rank(i) = i
  <2>1. {k \in places : k <= i} = 1 .. i
    BY <1>1, <1>2
  <2>2. Cardinality(1 .. i) = i
    BY <1>0, <1>1
  <2> QED
    BY <2>1, <2>2, Zenon
<1>. HIDE DEF rank
<1>5. ASSUME NEW m \in 1 .. Len(s) PROVE at(m) = m
  <2>1. m \in places /\ rank(m) = m
    BY <1>2, <1>4
  <2>2. at(m) \in places /\ rank(at(m)) = m
    BY <2>1
  <2> QED
    BY <1>2, <1>4, <2>2
<1>6. Among(s, S) = [m \in 1 .. Len(s) |-> s[at(m)]]
  BY <1>3 DEF Among, rank
<1>. HIDE DEF at
<1>7. [m \in 1 .. Len(s) |-> s[at(m)]] = [m \in 1 .. Len(s) |-> s[m]]
  BY <1>5
<1> QED
  BY <1>1, <1>6, <1>7

LEMMA AmongNone ==
  ASSUME NEW T, NEW s \in Seq(T), NEW S, Range(s) \cap S = {}
  PROVE  Among(s, S) = <<>>
<1>1. Among(s, S) \in Seq(T) /\ Range(Among(s, S)) = {}
  BY AmongFacts
<1>. HIDE DEF Among
<1>2. DOMAIN Among(s, S) = 1 .. Len(Among(s, S)) /\ Len(Among(s, S)) \in Nat
  BY <1>1, LenProperties
<1>3. ~(1 <= Len(Among(s, S)))
  <2> SUFFICES ASSUME 1 <= Len(Among(s, S)) PROVE FALSE
    OBVIOUS
  <2>1. 1 \in DOMAIN Among(s, S)
    BY <1>2
  <2> QED
    BY <1>1, <2>1, Zenon DEF Range
<1> QED
  BY <1>1, <1>2, <1>3, EmptySeq

(* SortableJS and list.insert put one card in.                             *)
LEMMA InsertAtFacts ==
  ASSUME NEW T, NEW s \in Seq(T), NEW e \in T, NEW i \in 1 .. Len(s) + 1
  PROVE  /\ InsertAt(s, i, e) \in Seq(T)
         /\ Range(InsertAt(s, i, e)) = Range(s) \cup {e}
<1> DEFINE front == SubSeq(s, 1, i - 1)
           back  == SubSeq(s, i, Len(s))
<1>1. Len(s) \in Nat /\ DOMAIN s = 1 .. Len(s) /\ \A k \in 1 .. Len(s) : s[k] \in T
  OBVIOUS
<1>2. /\ front \in Seq(T) /\ Len(front) = i - 1
      /\ \A k \in 1 .. i - 1 : front[k] = s[k]
  <2>1. \A k \in 1 .. i - 1 : s[k] \in T
    BY <1>1
  <2> QED
    BY <2>1, <1>1, SubSeqProperties
<1>3. /\ back \in Seq(T) /\ Len(back) = Len(s) - i + 1
      /\ \A k \in 1 .. Len(s) - i + 1 : back[k] = s[i + k - 1]
  <2>1. \A k \in i .. Len(s) : s[k] \in T
    BY <1>1
  <2> QED
    BY <2>1, <1>1, SubSeqProperties
<1>. HIDE DEF front, back
<1>4. /\ <<e>> \in Seq(T) /\ Len(<<e>>) = 1 /\ <<e>>[1] = e
  OBVIOUS
<1>5. /\ front \o <<e>> \in Seq(T) /\ Len(front \o <<e>>) = i
      /\ \A k \in 1 .. i - 1 : (front \o <<e>>)[k] = s[k]
      /\ (front \o <<e>>)[i] = e
  <2>1. /\ front \o <<e>> \in Seq(T) /\ Len(front \o <<e>>) = Len(front) + Len(<<e>>)
        /\ \A k \in 1 .. Len(front) + Len(<<e>>) :
             (front \o <<e>>)[k] = IF k <= Len(front) THEN front[k] ELSE <<e>>[k - Len(front)]
    BY <1>2, <1>4, ConcatProperties
  <2> QED
    BY <2>1, <1>2, <1>4
<1> DEFINE start == front \o <<e>>
           all == start \o back
<1>. HIDE DEF start
<1>6. /\ all \in Seq(T) /\ Len(all) = Len(s) + 1
      /\ \A k \in 1 .. Len(s) + 1 : all[k] = IF k <= i THEN start[k] ELSE back[k - i]
  <2>1. start \in Seq(T) /\ Len(start) = i
    BY <1>5 DEF start
  <2>2. /\ all \in Seq(T) /\ Len(all) = Len(start) + Len(back)
        /\ \A k \in 1 .. Len(start) + Len(back) :
             all[k] = IF k <= Len(start) THEN start[k] ELSE back[k - Len(start)]
    BY <1>3, <2>1, ConcatProperties
  <2>3. Len(start) + Len(back) = Len(s) + 1
    BY <1>1, <1>3, <2>1
  <2>. HIDE DEF all
  <2> QED
    BY <2>1, <2>2, <2>3
<1>7. InsertAt(s, i, e) = all
  BY DEF InsertAt, start, front, back
<1>. HIDE DEF all
<1>8. \A k \in 1 .. Len(s) + 1 :
        all[k] = IF k < i THEN s[k] ELSE IF k = i THEN e ELSE s[k - 1]
  <2> TAKE k \in 1 .. Len(s) + 1
  <2>1. CASE k < i
    <3>1. k \in 1 .. i - 1 /\ k <= i
      BY <2>1
    <3>2. start[k] = s[k]
      BY <3>1, <1>5 DEF start
    <3> QED
      BY <2>1, <3>1, <3>2, <1>6
  <2>2. CASE k = i
    BY <2>2, <1>5, <1>6 DEF start
  <2>3. CASE k > i
    <3>1. k - i \in 1 .. Len(s) - i + 1 /\ i + (k - i) - 1 = k - 1
      BY <2>3, <1>1
    <3>2. all[k] = back[k - i]
      BY <2>3, <1>6
    <3>3. back[k - i] = s[k - 1]
      BY <3>1, <1>3
    <3> QED
      BY <2>3, <3>2, <3>3
  <2> QED
    BY <2>1, <2>2, <2>3
<1>9. DOMAIN all = 1 .. Len(s) + 1
  BY <1>6
<1>10. ASSUME NEW x \in Range(all) PROVE x \in Range(s) \cup {e}
  <2>1. PICK k \in 1 .. Len(s) + 1 : x = all[k]
    BY <1>9 DEF Range
  <2>2. k < i => k \in 1 .. Len(s)
    BY <1>1
  <2>3. k > i => k - 1 \in 1 .. Len(s)
    BY <1>1
  <2> QED
    BY <2>1, <2>2, <2>3, <1>1, <1>8 DEF Range
<1>11. ASSUME NEW x \in Range(s) \cup {e} PROVE x \in Range(all)
  <2>1. CASE x = e
    BY <2>1, <1>8, <1>9 DEF Range
  <2>2. ASSUME NEW k \in 1 .. Len(s), x = s[k] PROVE x \in Range(all)
    <3>1. k < i => k \in 1 .. Len(s) + 1 /\ all[k] = s[k]
      BY <1>1, <1>8
    <3>2. k >= i => k + 1 \in 1 .. Len(s) + 1 /\ all[k + 1] = s[k]
      BY <1>1, <1>8
    <3> QED
      BY <2>2, <3>1, <3>2, <1>9 DEF Range
  <2> QED
    BY <2>1, <2>2, <1>1 DEF Range
<1> QED
  BY <1>6, <1>7, <1>10, <1>11

(* list.insert, whose position is clamped.                                 *)
LEMMA insertFacts ==
  ASSUME NEW T, NEW s \in Seq(T), NEW e \in T, NEW position \in Nat
  PROVE  /\ insert(s, position, e) \in Seq(T)
         /\ position <= Len(s) => insert(s, position, e) = InsertAt(s, position + 1, e)
<1>1. (IF position > Len(s) THEN Len(s) + 1 ELSE position + 1) \in 1 .. Len(s) + 1
  OBVIOUS
<1>2. insert(s, position, e) \in Seq(T)
  BY <1>1, InsertAtFacts DEF insert
<1>3. position <= Len(s) => (IF position > Len(s) THEN Len(s) + 1 ELSE position + 1) = position + 1
  OBVIOUS
<1> QED
  BY <1>2, <1>3 DEF insert

(* A set of positions has a least one: the number of its members that are  *)
(* not above it is one.                                                    *)
LEMMA LeastPlace ==
  ASSUME NEW n \in Nat, NEW I \in SUBSET (1 .. n), I # {}
  PROVE  \E i \in I : \A k \in I : i <= k
<1> DEFINE rank(i) == Cardinality({k \in I : k <= i})
<1>1. /\ Cardinality(I) \in Nat
      /\ \A i \in I : rank(i) \in 1 .. Cardinality(I)
      /\ \A m \in 1 .. Cardinality(I) : \E i \in I : rank(i) = m
  BY Ranks
<1>2. 1 \in 1 .. Cardinality(I)
  <2>1. PICK i \in I : TRUE
    OBVIOUS
  <2>2. rank(i) \in 1 .. Cardinality(I)
    BY <1>1
  <2>. HIDE DEF rank
  <2> QED
    BY <1>1, <2>2
<1>3. PICK i \in I : rank(i) = 1
  BY <1>1, <1>2
<1>4. ASSUME NEW k \in I PROVE i <= k
  <2> SUFFICES ASSUME ~(i <= k) PROVE FALSE
    OBVIOUS
  <2> DEFINE J == {m \in I : m <= i}
             K == {m \in I : m <= k}
  <2>1. i \in Int /\ k \in Int /\ \A m \in I : m \in Int
    OBVIOUS
  <2>2. K \in SUBSET J /\ i \in J /\ i \notin K
    <3>1. \A m \in I : m <= k => m <= i
      BY <2>1
    <3>2. i <= i
      BY <2>1
    <3> QED
      BY <3>1, <3>2
  <2>3. IsFiniteSet(J)
    <3>1. IsFiniteSet(1 .. n)
      BY FS_Interval
    <3> QED
      BY <3>1, FS_Subset
  <2>4. Cardinality(K) <= Cardinality(J) /\ Cardinality(K) # Cardinality(J)
    BY <2>2, <2>3, FS_Subset
  <2>5. Cardinality(J) = 1 /\ Cardinality(K) \in 1 .. Cardinality(I)
    BY <1>1, <1>3
  <2> QED
    BY <2>4, <2>5
<1> QED
  BY <1>4

(* RemoveFirst takes one occurrence away.                                  *)
LEMMA RemoveFirstFacts ==
  ASSUME NEW T, NEW s \in Seq(T), NEW e
  PROVE  /\ RemoveFirst(s, e) \in Seq(T)
         /\ Range(RemoveFirst(s, e)) \subseteq Range(s)
         /\ Range(s) \ {e} \subseteq Range(RemoveFirst(s, e))
<1>1. Len(s) \in Nat /\ DOMAIN s = 1 .. Len(s) /\ \A k \in 1 .. Len(s) : s[k] \in T
  OBVIOUS
<1>2. CASE ~ \E i \in 1 .. Len(s) : s[i] = e
  <2>1. RemoveFirst(s, e) = s
    BY <1>2 DEF RemoveFirst
  <2> QED
    BY <2>1
<1>3. CASE \E i \in 1 .. Len(s) : s[i] = e
  <2> DEFINE I == {i \in 1 .. Len(s) : s[i] = e}
             j == SelectInSeq(s, LAMBDA v : v = e)
  <2>1. RemoveFirst(s, e) = RemoveAt(s, j)
    BY <1>3 DEF RemoveFirst
  <2>2. j \in 1 .. Len(s) /\ s[j] = e
    <3>1. PICK i \in I : \A k \in I : i <= k
      BY <1>1, <1>3, LeastPlace
    <3>2. Min(I) \in I
      BY <3>1 DEF Min
    <3>3. j = Min(I)
      BY <1>3 DEF SelectInSeq
    <3> QED
      BY <3>2, <3>3
  <2>. HIDE DEF j
  <2> DEFINE front == SubSeq(s, 1, j - 1)
             back  == SubSeq(s, j + 1, Len(s))
             rest  == front \o back
  <2>3. /\ front \in Seq(T) /\ Len(front) = j - 1
        /\ \A k \in 1 .. j - 1 : front[k] = s[k]
    <3>1. \A k \in 1 .. j - 1 : s[k] \in T
      BY <1>1, <2>2
    <3> QED
      BY <3>1, <1>1, <2>2, SubSeqProperties
  <2>4. /\ back \in Seq(T) /\ Len(back) = Len(s) - j
        /\ \A k \in 1 .. Len(s) - j : back[k] = s[j + k]
    <3>1. \A k \in j + 1 .. Len(s) : s[k] \in T
      BY <1>1, <2>2
    <3>2. /\ back \in Seq(T)
          /\ Len(back) = IF j + 1 <= Len(s) THEN Len(s) - (j + 1) + 1 ELSE 0
          /\ \A k \in 1 .. Len(s) - (j + 1) + 1 : back[k] = s[j + 1 + k - 1]
      <4>1. j + 1 \in Int /\ Len(s) \in Int
        BY <1>1, <2>2
      <4> HIDE DEF j
      <4> QED
        BY <3>1, <4>1, SubSeqProperties, SMTT(30)
    <3>. HIDE DEF back
    <3>3. Len(back) = Len(s) - j
      <4>1. \A m, n \in Nat : m <= n =>
              (IF m + 1 <= n THEN n - (m + 1) + 1 ELSE 0) = n - m
        OBVIOUS
      <4>2. j \in Nat /\ j <= Len(s)
        BY <1>1, <2>2
      <4> QED
        BY <1>1, <3>2, <4>1, <4>2
    <3>4. ASSUME NEW k \in 1 .. Len(s) - j PROVE back[k] = s[j + k]
      <4>1. k \in 1 .. Len(s) - (j + 1) + 1 /\ j + 1 + k - 1 = j + k
        BY <1>1, <2>2
      <4> QED
        BY <3>2, <4>1
    <3> QED
      BY <3>2, <3>3, <3>4
  <2>. HIDE DEF front, back
  <2>5. /\ rest \in Seq(T) /\ Len(rest) = Len(s) - 1
        /\ \A k \in 1 .. Len(s) - 1 : rest[k] = IF k < j THEN s[k] ELSE s[k + 1]
    <3>1. /\ rest \in Seq(T) /\ Len(rest) = Len(front) + Len(back)
          /\ \A k \in 1 .. Len(front) + Len(back) :
               rest[k] = IF k <= Len(front) THEN front[k] ELSE back[k - Len(front)]
      BY <2>3, <2>4, ConcatProperties
    <3>. HIDE DEF rest
    <3>2. Len(front) + Len(back) = Len(s) - 1
      BY <1>1, <2>2, <2>3, <2>4
    <3>3. ASSUME NEW k \in 1 .. Len(s) - 1
          PROVE  rest[k] = IF k < j THEN s[k] ELSE s[k + 1]
      <4>1. CASE k < j
        BY <4>1, <1>1, <2>2, <2>3, <3>1, <3>2
      <4>2. CASE ~(k < j)
        <5>1. k - (j - 1) \in 1 .. Len(s) - j /\ j + (k - (j - 1)) = k + 1 /\ ~(k <= j - 1)
          BY <4>2, <1>1, <2>2
        <5>2. rest[k] = back[k - (j - 1)]
          BY <5>1, <2>3, <3>1, <3>2
        <5> QED
          BY <4>2, <5>1, <5>2, <2>4
      <4> QED
        BY <4>1, <4>2
    <3> QED
      BY <3>1, <3>2, <3>3
  <2>6. RemoveFirst(s, e) = rest
    BY <2>1 DEF RemoveAt, front, back
  <2>. HIDE DEF rest
  <2>7. DOMAIN rest = 1 .. Len(s) - 1
    BY <2>5, <1>1, LenProperties
  <2>8. ASSUME NEW x \in Range(rest) PROVE x \in Range(s)
    <3>1. PICK k \in 1 .. Len(s) - 1 : x = rest[k]
      BY <2>7 DEF Range
    <3>2. k \in DOMAIN s /\ k + 1 \in DOMAIN s
      BY <1>1
    <3> QED
      BY <3>1, <3>2, <2>5 DEF Range
  <2>9. ASSUME NEW x \in Range(s) \ {e} PROVE x \in Range(rest)
    <3>1. PICK k \in 1 .. Len(s) : x = s[k]
      BY <1>1 DEF Range
    <3>2. k # j
      BY <2>2, <3>1
    <3>3. k < j => k \in 1 .. Len(s) - 1 /\ rest[k] = s[k]
      BY <1>1, <2>2, <2>5
    <3>4. k > j => k - 1 \in 1 .. Len(s) - 1 /\ rest[k - 1] = s[k]
      BY <1>1, <2>2, <2>5
    <3> QED
      BY <3>1, <3>2, <3>3, <3>4, <1>1, <2>2, <2>7 DEF Range
  <2> QED
    BY <2>5, <2>6, <2>8, <2>9
<1> QED
  BY <1>2, <1>3

LEMMA RangeOfConcat ==
  ASSUME NEW T, NEW a \in Seq(T), NEW b \in Seq(T)
  PROVE  a \o b \in Seq(T) /\ Range(a \o b) = Range(a) \cup Range(b)
<1>1. /\ Len(a) \in Nat /\ DOMAIN a = 1 .. Len(a)
      /\ Len(b) \in Nat /\ DOMAIN b = 1 .. Len(b)
  OBVIOUS
<1>2. /\ a \o b \in Seq(T) /\ Len(a \o b) = Len(a) + Len(b)
      /\ \A k \in 1 .. Len(a) + Len(b) :
           (a \o b)[k] = IF k <= Len(a) THEN a[k] ELSE b[k - Len(a)]
  BY ConcatProperties
<1> DEFINE s == a \o b
<1>3. DOMAIN s = 1 .. Len(a) + Len(b)
  BY <1>2, LenProperties
<1>. HIDE DEF s
<1>4. ASSUME NEW x \in Range(s) PROVE x \in Range(a) \cup Range(b)
  <2>1. PICK k \in 1 .. Len(a) + Len(b) : x = s[k]
    BY <1>3 DEF Range
  <2>2. k <= Len(a) => k \in DOMAIN a /\ x = a[k]
    BY <1>1, <1>2, <2>1 DEF s
  <2>3. ~(k <= Len(a)) => k - Len(a) \in DOMAIN b /\ x = b[k - Len(a)]
    BY <1>1, <1>2, <2>1 DEF s
  <2> QED
    BY <2>2, <2>3 DEF Range
<1>5. ASSUME NEW k \in DOMAIN a PROVE a[k] \in Range(s)
  <2>1. k \in DOMAIN s /\ s[k] = a[k]
    BY <1>1, <1>2, <1>3 DEF s
  <2> QED
    BY <2>1 DEF Range
<1>6. ASSUME NEW k \in DOMAIN b PROVE b[k] \in Range(s)
  <2>1. k + Len(a) \in 1 .. Len(a) + Len(b) /\ ~(k + Len(a) <= Len(a)) /\ k + Len(a) - Len(a) = k
    BY <1>1
  <2>2. s[k + Len(a)] = b[k]
    BY <1>2, <2>1 DEF s
  <2> QED
    BY <1>3, <2>1, <2>2 DEF Range
<1>7. Range(s) = Range(a) \cup Range(b)
  BY <1>4, <1>5, <1>6 DEF Range
<1> QED
  BY <1>2, <1>7 DEF s

-----------------------------------------------------------------------------
(* The values of the variables.                                            *)

Keys == Tags \cup {Untagged}
Children == Highlights \cup {Label}

TagMaps    == UNION {[D -> Keys] : D \in SUBSET Highlights}
Lists      == [Tags -> Seq(Highlights)]
Documents  == [tag : TagMaps, order : Lists]
Shown      == UNION {[D -> Seq(Children)] : D \in SUBSET Keys}
SortEnds   == [gen : Nat, item : Highlights, from : Keys, to : Keys, newIndex : Nat]
Renderings == [gen : Nat, columns : Shown]

Types ==
  /\ scene \in Scenes
  /\ tag \in TagMaps /\ order \in Lists
  /\ columns \in [Clients -> Shown]
  /\ shownGen \in [Clients -> Nat] /\ gen \in [Clients -> Nat]
  /\ active \in [Clients -> BOOLEAN] /\ exact \in [Clients -> BOOLEAN]
  /\ up \in [Clients -> Seq(SortEnds)] /\ down \in [Clients -> Seq(Renderings)]
  /\ owed \in [Clients -> Nat]

(* Every highlight has a card in the column of its tag, and every card is  *)
(* of a highlight there is.                                                *)
Shows(cols, tags) ==
  /\ \A h \in DOMAIN tags : tags[h] \in DOMAIN cols /\ h \in Range(cols[tags[h]])
  /\ \A t \in DOMAIN cols : Range(cols[t]) \subseteq DOMAIN tags \cup {Label}

(* Every column of a tag is its list.                                      *)
InOrder(cols, lists) == \A t \in Tags : t \in DOMAIN cols /\ cols[t] = lists[t]

LEMMA TagMapFacts ==
  ASSUME NEW f
  PROVE  f \in TagMaps <=> /\ f = [h \in DOMAIN f |-> f[h]]
                           /\ DOMAIN f \subseteq Highlights
                           /\ \A h \in DOMAIN f : f[h] \in Keys
BY DEF TagMaps

LEMMA ShownFacts ==
  ASSUME NEW f
  PROVE  f \in Shown <=> /\ f = [t \in DOMAIN f |-> f[t]]
                         /\ DOMAIN f \subseteq Keys
                         /\ \A t \in DOMAIN f : f[t] \in Seq(Children)
BY DEF Shown

(* An order of the map has every highlight there is.                       *)
LEMMA MapOrderFacts ==
  ASSUME NEW S \in SUBSET Highlights, NEW mapOrder \in SetToSeqs(S)
  PROVE  mapOrder \in Seq(Highlights) /\ Range(mapOrder) = S
<1> DEFINE n == Cardinality(S)
<1>1. IsFiniteSet(S) /\ n \in Nat
  BY NamesAssumption, FS_Subset, FS_CardinalityType
<1>2. /\ mapOrder \in [1 .. n -> S]
      /\ \A i, j \in 1 .. n : mapOrder[i] = mapOrder[j] => i = j
  BY DEF SetToSeqs
<1>3. IsFiniteSet(1 .. n) /\ Cardinality(1 .. n) = Cardinality(S)
  BY <1>1, FS_Interval
<1>4. mapOrder \in Injection(1 .. n, S)
  BY <1>2 DEF Injection, IsInjective
<1>. HIDE DEF n
<1>5. mapOrder \in Surjection(1 .. n, S)
  BY <1>1, <1>3, <1>4, FS_Injection
<1>6. Range(mapOrder) = S
  BY <1>2, <1>5 DEF Surjection, Range
<1>7. mapOrder \in [1 .. n -> Highlights]
  BY <1>2
<1>8. mapOrder \in Seq(Highlights)
  BY <1>1, <1>7, SeqDef
<1> QED
  BY <1>6, <1>8

-----------------------------------------------------------------------------
(* A rendering.                                                            *)

LEMMA ColumnFacts ==
  ASSUME tag \in TagMaps, order \in Lists, NEW mapOrder \in SetToSeqs(DOMAIN tag),
         NEW t \in Keys
  PROVE  /\ render_ordered_cards(t, mapOrder) \in Seq(Children)
         /\ Tagged(t) \subseteq Range(render_ordered_cards(t, mapOrder))
         /\ Range(render_ordered_cards(t, mapOrder)) \subseteq Tagged(t) \cup {Label}
         /\ t \in Tags /\ ListsComplete => render_ordered_cards(t, mapOrder) = order[t]
<1> DEFINE column == render_ordered_cards(t, mapOrder)
           list   == get_tag_highlights(t)
           listed == Among(list, Tagged(t))
           others == Among(mapOrder, Tagged(t) \ Range(listed))
<1>1. list \in Seq(Highlights) /\ (t \in Tags => list = order[t])
  BY DEF get_tag_highlights, Lists
<1>2. mapOrder \in Seq(Highlights) /\ Range(mapOrder) = DOMAIN tag
  BY MapOrderFacts, TagMapFacts
<1>3. Tagged(t) \subseteq DOMAIN tag
  BY DEF Tagged
<1>4. column = IF Tagged(t) = {} THEN <<Label>> ELSE listed \o others
  BY DEF render_ordered_cards
<1>. HIDE DEF column, list
<1>5. listed \in Seq(Highlights) /\ Range(listed) = Range(list) \cap Tagged(t)
  BY <1>1, AmongFacts
<1>. HIDE DEF listed
<1>6. /\ others \in Seq(Highlights)
      /\ Range(others) = Range(mapOrder) \cap (Tagged(t) \ Range(listed))
  BY <1>2, AmongFacts
<1>7. t \in Tags /\ ListsComplete => others = <<>> /\ listed = order[t]
  <2> SUFFICES ASSUME t \in Tags, ListsComplete PROVE others = <<>> /\ listed = order[t]
    OBVIOUS
  <2>1. Range(list) = Tagged(t)
    BY <1>1 DEF ListsComplete
  <2>2. listed = list
    BY <1>1, <2>1, AmongAll DEF listed
  <2>3. Range(mapOrder) \cap (Tagged(t) \ Range(listed)) = {}
    BY <1>5, <2>1
  <2>4. others = <<>>
    BY <1>2, <2>3, AmongNone
  <2> QED
    BY <1>1, <2>2, <2>4
<1>. HIDE DEF others
<1>8. listed \o others \in Seq(Highlights) /\ Range(listed \o others) = Range(listed) \cup Range(others)
  BY <1>5, <1>6, RangeOfConcat
<1>9. Range(listed) \cup Range(others) = Tagged(t)
  BY <1>2, <1>3, <1>5, <1>6
<1>10. CASE Tagged(t) = {}
  <2>1. column = <<Label>> /\ Range(column) = {Label} /\ <<Label>> \in Seq(Children)
    BY <1>4, <1>10 DEF Range, Children
  <2>2. t \in Tags => ~ListsComplete
    BY <1>10 DEF ListsComplete
  <2> QED
    BY <2>1, <2>2, <1>10 DEF column
<1>11. CASE Tagged(t) # {}
  <2>1. column = listed \o others
    BY <1>4, <1>11
  <2>2. column \in Seq(Children)
    BY <2>1, <1>8 DEF Children
  <2>3. t \in Tags /\ ListsComplete => column = order[t]
    BY <2>1, <1>7, <1>5, ConcatEmptySeq
  <2> QED
    BY <2>1, <2>2, <2>3, <1>8, <1>9 DEF column
<1> QED
  BY <1>10, <1>11

LEMMA RenderingFacts ==
  ASSUME tag \in TagMaps, order \in Lists, NEW mapOrder \in SetToSeqs(DOMAIN tag)
  PROVE  /\ render_organise_tab(mapOrder) \in Shown
         /\ Shows(render_organise_tab(mapOrder), tag)
         /\ ListsComplete => InOrder(render_organise_tab(mapOrder), order)
<1> DEFINE cols == render_organise_tab(mapOrder)
           D    == Tags \cup (IF Tagged(Untagged) = {} THEN {} ELSE {Untagged})
<1>1. D \subseteq Keys /\ Tags \subseteq D
  BY DEF Keys
<1>2. cols = [t \in D |-> render_ordered_cards(t, mapOrder)]
  BY DEF render_organise_tab
<1>3. ASSUME NEW t \in D
      PROVE  /\ cols[t] \in Seq(Children)
             /\ Tagged(t) \subseteq Range(cols[t])
             /\ Range(cols[t]) \subseteq Tagged(t) \cup {Label}
             /\ t \in Tags /\ ListsComplete => cols[t] = order[t]
  <2>1. cols[t] = render_ordered_cards(t, mapOrder)
    BY <1>2
  <2>2. t \in Keys
    BY <1>1
  <2> QED
    BY <2>1, <2>2, ColumnFacts
<1>4. DOMAIN cols = D
  BY <1>2
<1>. HIDE DEF cols
<1>5. cols \in Shown
  BY <1>1, <1>2, <1>3, <1>4, ShownFacts
<1>6. ASSUME NEW h \in DOMAIN tag PROVE tag[h] \in D /\ h \in Range(cols[tag[h]])
  <2>1. h \in Tagged(tag[h]) /\ tag[h] \in Keys
    BY TagMapFacts DEF Tagged
  <2>2. tag[h] \in D
    BY <2>1 DEF Keys
  <2> QED
    BY <2>1, <2>2, <1>3
<1>7. ASSUME NEW t \in D PROVE Range(cols[t]) \subseteq DOMAIN tag \cup {Label}
  BY <1>3 DEF Tagged
<1>8. Shows(cols, tag)
  BY <1>4, <1>6, <1>7 DEF Shows
<1>9. ListsComplete => InOrder(cols, order)
  BY <1>1, <1>3, <1>4 DEF InOrder
<1> QED
  BY <1>5, <1>8, <1>9 DEF cols

-----------------------------------------------------------------------------
(* A drop, in the browser and in the document.                             *)

(* What _on_organise_sort_end makes of document d for event e.             *)
Result(e, d) ==
  [tag |-> IF e.from = e.to \/ e.item \notin DOMAIN d.tag THEN d.tag
           ELSE [d.tag EXCEPT ![e.item] = e.to],
   order |->
     IF e.from = e.to
       THEN IF e.to \in Tags
              THEN [d.order EXCEPT ![e.to] =
                      insert(RemoveFirst(@, e.item), e.newIndex, e.item)]
              ELSE d.order
       ELSE IF e.item \notin DOMAIN d.tag THEN d.order
            ELSE [t \in Tags |->
                    IF t = e.from THEN RemoveFirst(d.order[t], e.item)
                    ELSE IF t = e.to THEN insert(d.order[t], e.newIndex, e.item)
                    ELSE d.order[t]]]

Document == [tag |-> tag, order |-> order]

LEMMA ResultIsApplied ==
  ASSUME NEW e, ApplySortReorderOrMove(e)
  PROVE  Document' = Result(e, Document)
<1>1. CASE e.from = e.to
  BY <1>1 DEF ApplySortReorderOrMove, Document, Result
<1>2. CASE e.from # e.to /\ e.item \notin DOMAIN tag
  BY <1>2 DEF ApplySortReorderOrMove, move_highlight_to_tag, document, Document, Result
<1>3. CASE e.from # e.to /\ e.item \in DOMAIN tag
  BY <1>3 DEF ApplySortReorderOrMove, move_highlight_to_tag, Document, Result
<1> QED
  BY <1>1, <1>2, <1>3

LEMMA ResultTyped ==
  ASSUME NEW e \in SortEnds, NEW d \in Documents
  PROVE  Result(e, d) \in Documents
<1>1. /\ e.item \in Highlights /\ e.from \in Keys /\ e.to \in Keys /\ e.newIndex \in Nat
      /\ d.tag \in TagMaps /\ d.order \in [Tags -> Seq(Highlights)]
  BY DEF SortEnds, Documents, Lists
<1>2. \A t \in Tags : /\ RemoveFirst(d.order[t], e.item) \in Seq(Highlights)
                      /\ insert(d.order[t], e.newIndex, e.item) \in Seq(Highlights)
                      /\ insert(RemoveFirst(d.order[t], e.item), e.newIndex, e.item)
                           \in Seq(Highlights)
  BY <1>1, RemoveFirstFacts, insertFacts
<1>3. Result(e, d).order \in Lists
  BY <1>1, <1>2 DEF Result, Lists
<1>4. Result(e, d).tag \in TagMaps
  <2>1. CASE e.from = e.to \/ e.item \notin DOMAIN d.tag
    BY <1>1, <2>1 DEF Result
  <2>2. CASE e.from # e.to /\ e.item \in DOMAIN d.tag
    <3>1. Result(e, d).tag = [d.tag EXCEPT ![e.item] = e.to]
      BY <2>2 DEF Result
    <3>2. d.tag \in [DOMAIN d.tag -> Keys] /\ DOMAIN d.tag \subseteq Highlights
      BY <1>1, TagMapFacts
    <3>3. [d.tag EXCEPT ![e.item] = e.to] \in [DOMAIN d.tag -> Keys]
      BY <1>1, <3>2
    <3> QED
      BY <3>1, <3>2, <3>3 DEF TagMaps
  <2> QED
    BY <2>1, <2>2
<1>5. Result(e, d) = [tag |-> Result(e, d).tag, order |-> Result(e, d).order]
  BY DEF Result
<1> QED
  BY <1>3, <1>4, <1>5 DEF Documents

(* The columns after a drop: card h lifted from one, dropped at i of another. *)
Dropped(cols, from, to, h, i) ==
  LET lifted == [cols EXCEPT ![from] = RemoveFirst(@, h)]
  IN  [lifted EXCEPT ![to] = InsertAt(@, i, h)]

LEMMA DropShown ==
  ASSUME NEW cols \in Shown, NEW from \in DOMAIN cols, NEW to \in DOMAIN cols,
         NEW h \in Highlights, NEW i \in Nat, NEW new,
         LET lifted == [cols EXCEPT ![from] = RemoveFirst(@, h)]
         IN  i \in 1 .. Len(lifted[to]) + 1,
         new = Dropped(cols, from, to, h, i)
  PROVE  /\ new \in Shown /\ DOMAIN new = DOMAIN cols
         /\ \A t \in DOMAIN cols : /\ Range(cols[t]) \ {h} \subseteq Range(new[t])
                                   /\ Range(new[t]) \subseteq Range(cols[t]) \cup {h}
                                   /\ t # from => Range(cols[t]) \subseteq Range(new[t])
         /\ h \in Range(new[to])
         /\ \A t \in DOMAIN cols :
              new[t] = IF t = to
                         THEN insert(IF t = from THEN RemoveFirst(cols[t], h) ELSE cols[t], i - 1, h)
                         ELSE IF t = from THEN RemoveFirst(cols[t], h) ELSE cols[t]
<1> DEFINE L(t) == IF t = from THEN RemoveFirst(cols[t], h) ELSE cols[t]
<1>1. /\ DOMAIN cols \subseteq Keys /\ cols = [t \in DOMAIN cols |-> cols[t]]
      /\ \A t \in DOMAIN cols : cols[t] \in Seq(Children)
      /\ h \in Children
  BY ShownFacts DEF Children
<1>2. /\ i \in 1 .. Len(L(to)) + 1
      /\ new = [t \in DOMAIN cols |-> IF t = to THEN InsertAt(L(t), i, h) ELSE L(t)]
  BY <1>1 DEF Dropped
<1>3. ASSUME NEW t \in DOMAIN cols
      PROVE  /\ L(t) \in Seq(Children)
             /\ Range(L(t)) \subseteq Range(cols[t])
             /\ Range(cols[t]) \ {h} \subseteq Range(L(t))
             /\ t # from => L(t) = cols[t]
  BY <1>1, RemoveFirstFacts
<1>. HIDE DEF L
<1>4. /\ InsertAt(L(to), i, h) \in Seq(Children)
      /\ Range(InsertAt(L(to), i, h)) = Range(L(to)) \cup {h}
  BY <1>1, <1>2, <1>3, InsertAtFacts
<1>5. insert(L(to), i - 1, h) = InsertAt(L(to), i, h)
  <2>1. i - 1 \in Nat /\ i - 1 <= Len(L(to)) /\ (i - 1) + 1 = i
    <3>1. Len(L(to)) \in Nat
      BY <1>3, LenProperties
    <3> QED
      BY <1>2, <3>1
  <2>2. insert(L(to), i - 1, h) = InsertAt(L(to), (i - 1) + 1, h)
    BY <1>1, <1>3, <2>1, insertFacts
  <2> QED
    BY <2>1, <2>2
<1>6. DOMAIN new = DOMAIN cols
  BY <1>2
<1>7. ASSUME NEW t \in DOMAIN cols
      PROVE  /\ new[t] = IF t = to THEN insert(L(t), i - 1, h) ELSE L(t)
             /\ new[t] \in Seq(Children)
             /\ Range(cols[t]) \ {h} \subseteq Range(new[t])
             /\ Range(new[t]) \subseteq Range(cols[t]) \cup {h}
             /\ t # from => Range(cols[t]) \subseteq Range(new[t])
  <2>1. CASE t = to
    <3>1. new[t] = InsertAt(L(to), i, h)
      BY <1>2, <2>1
    <3> QED
      BY <2>1, <3>1, <1>3, <1>4, <1>5
  <2>2. CASE t # to
    <3>1. new[t] = L(t)
      BY <1>2, <2>2
    <3> QED
      BY <2>2, <3>1, <1>3
  <2> QED
    BY <2>1, <2>2
<1>8. new \in Shown
  <2>1. new = [t \in DOMAIN new |-> new[t]]
    BY <1>2
  <2> QED
    BY <2>1, <1>1, <1>6, <1>7, ShownFacts
<1>9. h \in Range(new[to])
  BY <1>2, <1>4
<1> QED
  BY <1>6, <1>7, <1>8, <1>9 DEF L

(* The document says of a drop what the browser shows of it.               *)
LEMMA DropFacts ==
  ASSUME NEW cols \in Shown, NEW d \in Documents, Shows(cols, d.tag),
         NEW e \in SortEnds, e.from \in DOMAIN cols, e.to \in DOMAIN cols,
         e.item \in Range(cols[e.from]),
         LET lifted == [cols EXCEPT ![e.from] = RemoveFirst(@, e.item)]
         IN  e.newIndex + 1 \in 1 .. Len(lifted[e.to]) + 1
  PROVE  LET new == Dropped(cols, e.from, e.to, e.item, e.newIndex + 1)
         IN  /\ new \in Shown
             /\ Shows(new, Result(e, d).tag)
             /\ InOrder(cols, d.order) => InOrder(new, Result(e, d).order)
<1> DEFINE h == e.item
           from == e.from
           to == e.to
           new == Dropped(cols, from, to, h, e.newIndex + 1)
           r == Result(e, d)
<1>1. /\ h \in Highlights /\ e.newIndex \in Nat /\ e.newIndex + 1 \in Nat
      /\ (e.newIndex + 1) - 1 = e.newIndex
      /\ d.tag \in TagMaps /\ d.order \in Lists
      /\ from \in Keys /\ to \in Keys
  BY DEF SortEnds, Documents
<1>2. /\ new \in Shown /\ DOMAIN new = DOMAIN cols
      /\ \A t \in DOMAIN cols : /\ Range(cols[t]) \ {h} \subseteq Range(new[t])
                                /\ Range(new[t]) \subseteq Range(cols[t]) \cup {h}
                                /\ t # from => Range(cols[t]) \subseteq Range(new[t])
      /\ h \in Range(new[to])
      /\ \A t \in DOMAIN cols :
           new[t] = IF t = to
                      THEN insert(IF t = from THEN RemoveFirst(cols[t], h) ELSE cols[t],
                                  (e.newIndex + 1) - 1, h)
                      ELSE IF t = from THEN RemoveFirst(cols[t], h) ELSE cols[t]
  BY <1>1, DropShown
<1>3. h \in DOMAIN d.tag
  <2>1. h # Label
    BY <1>1, NamesAssumption
  <2> QED
    BY <2>1 DEF Shows
<1>4. r.tag = IF from = to THEN d.tag ELSE [d.tag EXCEPT ![h] = to]
  BY <1>3 DEF Result
<1>5. d.tag = [x \in DOMAIN d.tag |-> d.tag[x]]
  BY <1>1, TagMapFacts
<1>6. /\ DOMAIN r.tag = DOMAIN d.tag
      /\ \A x \in DOMAIN d.tag : r.tag[x] = IF from # to /\ x = h THEN to ELSE d.tag[x]
  BY <1>4, <1>5
<1>7. r.order = IF from = to
                  THEN IF to \in Tags
                         THEN [d.order EXCEPT ![to] = insert(RemoveFirst(@, h), e.newIndex, h)]
                         ELSE d.order
                  ELSE [t \in Tags |->
                          IF t = from THEN RemoveFirst(d.order[t], h)
                          ELSE IF t = to THEN insert(d.order[t], e.newIndex, h)
                          ELSE d.order[t]]
  BY <1>3 DEF Result
<1>. HIDE DEF new, r, h
<1>8. ASSUME NEW x \in DOMAIN d.tag PROVE r.tag[x] \in DOMAIN cols /\ x \in Range(new[r.tag[x]])
  <2>1. d.tag[x] \in DOMAIN cols /\ x \in Range(cols[d.tag[x]])
    BY DEF Shows
  <2>2. CASE from # to /\ x = h
    BY <2>2, <1>2, <1>6
  <2>3. CASE x # h
    <3>1. r.tag[x] = d.tag[x]
      BY <2>3, <1>6
    <3> QED
      BY <2>1, <2>3, <3>1, <1>2
  <2>4. CASE from = to /\ x = h
    <3>1. r.tag[x] = d.tag[x]
      BY <2>4, <1>6
    <3>2. CASE d.tag[x] = to
      BY <2>1, <2>4, <3>1, <3>2, <1>2
    <3>3. CASE d.tag[x] # to
      BY <2>1, <2>4, <3>1, <3>3, <1>2
    <3> QED
      BY <3>2, <3>3
  <2> QED
    BY <2>2, <2>3, <2>4
<1>9. ASSUME NEW t \in DOMAIN cols PROVE Range(new[t]) \subseteq DOMAIN d.tag \cup {Label}
  BY <1>2, <1>3 DEF Shows
<1>10. Shows(new, r.tag)
  BY <1>2, <1>6, <1>8, <1>9 DEF Shows
<1>11. ASSUME InOrder(cols, d.order), NEW t \in Tags
       PROVE  t \in DOMAIN new /\ new[t] = r.order[t]
  <2>1. t \in DOMAIN cols /\ cols[t] = d.order[t]
    BY <1>11 DEF InOrder
  <2>2. new[t] = IF t = to
                   THEN insert(IF t = from THEN RemoveFirst(d.order[t], h) ELSE d.order[t],
                               e.newIndex, h)
                   ELSE IF t = from THEN RemoveFirst(d.order[t], h) ELSE d.order[t]
    BY <2>1, <1>1, <1>2
  <2>3. d.order \in [Tags -> Seq(Highlights)]
    BY <1>1 DEF Lists
  <2>4. CASE from # to
    <3>1. r.order[t] = IF t = from THEN RemoveFirst(d.order[t], h)
                       ELSE IF t = to THEN insert(d.order[t], e.newIndex, h)
                       ELSE d.order[t]
      BY <1>7, <2>4
    <3> QED
      BY <2>1, <2>2, <2>4, <3>1, <1>2
  <2>5. CASE from = to /\ t = to
    <3>1. r.order[t] = insert(RemoveFirst(d.order[t], h), e.newIndex, h)
      BY <1>7, <2>3, <2>5
    <3> QED
      BY <2>1, <2>2, <2>5, <3>1, <1>2
  <2>6. CASE from = to /\ t # to
    <3>1. r.order[t] = d.order[t]
      BY <1>7, <2>3, <2>6
    <3> QED
      BY <2>1, <2>2, <2>6, <3>1, <1>2
  <2> QED
    BY <2>4, <2>5, <2>6
<1>12. InOrder(cols, d.order) => InOrder(new, r.order)
  BY <1>11 DEF InOrder
<1> QED
  BY <1>2, <1>10, <1>12 DEF new, r, h

-----------------------------------------------------------------------------
(* What a page will show and what the document will say.                   *)

(* The columns show document d, and its lists if nobody else changed it.   *)
Fits(cols, d, ordered) ==
  Shows(cols, d.tag) /\ (ordered => InOrder(cols, d.order))

(* The documents d becomes as the events of q are handled one by one, when *)
(* the elements there are belong to rendering g.                           *)
Handled(q, g, d, docs) ==
  /\ docs \in [1 .. Len(q) + 1 -> Documents]
  /\ docs[1] = d
  /\ \A k \in 1 .. Len(q) :
       docs[k + 1] = IF q[k].gen = g THEN Result(q[k], docs[k]) ELSE docs[k]

(* A page that shows cols, with the events q and the renderings rs on      *)
(* their way, will show what document d will then say.                     *)
Agrees(cols, q, rs, g, d, ordered) ==
  IF rs # <<>> THEN Fits(rs[Len(rs)].columns, d, ordered)
  ELSE \E docs : Handled(q, g, d, docs) /\ Fits(cols, docs[Len(q) + 1], ordered)

(* Another rendering is sent.                                              *)
LEMMA AgreesRendered ==
  ASSUME NEW cols, NEW q, NEW rs \in Seq(Renderings), NEW g, NEW d, NEW ordered,
         NEW r \in Renderings, Fits(r.columns, d, ordered)
  PROVE  Agrees(cols, q, Append(rs, r), g, d, ordered)
<1>1. /\ Append(rs, r) # <<>>
      /\ Append(rs, r)[Len(Append(rs, r))] = r
  BY AppendProperties
<1> QED
  BY <1>1 DEF Agrees

(* A rendering arrives: the events of the elements it replaces are lost.   *)
LEMMA AgreesReceived ==
  ASSUME NEW cols, NEW q \in Seq(SortEnds), NEW rs \in Seq(Renderings), rs # <<>>,
         NEW g, NEW d \in Documents, NEW ordered,
         \A k \in 1 .. Len(q) : q[k].gen # g,
         Agrees(cols, q, rs, g, d, ordered)
  PROVE  Agrees(Head(rs).columns, q, Tail(rs), g, d, ordered)
<1>1. Fits(rs[Len(rs)].columns, d, ordered)
  BY DEF Agrees
<1>2. /\ Tail(rs) \in Seq(Renderings) /\ Len(Tail(rs)) = Len(rs) - 1
      /\ \A k \in 1 .. Len(Tail(rs)) : Tail(rs)[k] = rs[k + 1]
      /\ Head(rs) = rs[1] /\ Len(rs) \in Nat /\ Len(rs) # 0
  BY HeadTailProperties, EmptySeq
<1>3. CASE Tail(rs) # <<>>
  <2>1. Len(Tail(rs)) \in Nat /\ Len(Tail(rs)) # 0
    BY <1>2, <1>3, EmptySeq
  <2>2. Len(Tail(rs)) \in 1 .. Len(Tail(rs)) /\ Len(Tail(rs)) + 1 = Len(rs)
    BY <1>2, <2>1
  <2>3. Tail(rs)[Len(Tail(rs))] = rs[Len(rs)]
    BY <1>2, <2>2
  <2> QED
    BY <1>1, <1>3, <2>3 DEF Agrees
<1>4. CASE Tail(rs) = <<>>
  <2>1. Len(rs) = 1
    <3>1. Len(Tail(rs)) = 0
      BY <1>4, EmptySeq
    <3>2. Len(Tail(rs)) = Len(rs) - 1 /\ Len(rs) \in Nat
      BY <1>2
    <3> QED
      BY ONLY <3>1, <3>2
  <2>2. Fits(Head(rs).columns, d, ordered)
    BY <1>1, <1>2, <2>1
  <2> DEFINE docs == [k \in 1 .. Len(q) + 1 |-> d]
  <2>3. Len(q) \in Nat
    BY LenProperties
  <2>4. docs[Len(q) + 1] = d /\ docs[1] = d /\ \A k \in 1 .. Len(q) : docs[k] = d /\ docs[k + 1] = d
    BY <2>3
  <2>5. docs \in [1 .. Len(q) + 1 -> Documents]
    OBVIOUS
  <2>. HIDE DEF docs
  <2>6. Handled(q, g, d, docs)
    BY <2>4, <2>5 DEF Handled
  <2>7. Fits(Head(rs).columns, docs[Len(q) + 1], ordered)
    BY <2>2, <2>4
  <2> QED
    BY <1>4, <2>6, <2>7 DEF Agrees
<1> QED
  BY <1>3, <1>4

(* A card is dropped.                                                      *)
LEMMA AgreesDropped ==
  ASSUME NEW cols \in Shown, NEW q \in Seq(SortEnds), NEW rs \in Seq(Renderings),
         NEW g, NEW d \in Documents, NEW ordered,
         NEW e \in SortEnds, e.from \in DOMAIN cols, e.to \in DOMAIN cols,
         e.item \in Range(cols[e.from]),
         LET lifted == [cols EXCEPT ![e.from] = RemoveFirst(@, e.item)]
         IN  e.newIndex + 1 \in 1 .. Len(lifted[e.to]) + 1,
         rs = <<>> => e.gen = g,
         Agrees(cols, q, rs, g, d, ordered)
  PROVE  Agrees(Dropped(cols, e.from, e.to, e.item, e.newIndex + 1), Append(q, e), rs, g, d,
                ordered)
<1>1. CASE rs # <<>>
  BY <1>1 DEF Agrees
<1>2. CASE rs = <<>>
  <2> DEFINE new == Dropped(cols, e.from, e.to, e.item, e.newIndex + 1)
             n == Len(q)
             q2 == Append(q, e)
  <2>1. PICK docs : Handled(q, g, d, docs) /\ Fits(cols, docs[n + 1], ordered)
    BY <1>2 DEF Agrees
  <2>2. n \in Nat
    BY LenProperties
  <2>3. /\ Len(q2) = n + 1
        /\ \A k \in 1 .. n : q2[k] = q[k]
        /\ q2[n + 1] = e
    BY AppendProperties
  <2>4. /\ docs \in [1 .. n + 1 -> Documents] /\ docs[1] = d
        /\ \A k \in 1 .. n : docs[k + 1] = IF q[k].gen = g THEN Result(q[k], docs[k]) ELSE docs[k]
    BY <2>1 DEF Handled
  <2>5. docs[n + 1] \in Documents
    BY <2>2, <2>4
  <2>6. /\ Shows(new, Result(e, docs[n + 1]).tag)
        /\ InOrder(cols, docs[n + 1].order) => InOrder(new, Result(e, docs[n + 1]).order)
    BY <2>1, <2>5, DropFacts DEF Fits
  <2>7. Fits(new, Result(e, docs[n + 1]), ordered)
    BY <2>1, <2>6 DEF Fits
  <2> DEFINE docs2 == [k \in 1 .. n + 2 |-> IF k <= n + 1 THEN docs[k] ELSE Result(e, docs[n + 1])]
  <2>8. docs2 \in [1 .. n + 2 -> Documents]
    <3>1. \A k \in 1 .. n + 2 : k <= n + 1 => k \in 1 .. n + 1
      BY <2>2
    <3> QED
      BY <3>1, <2>4, <2>5, ResultTyped
  <2>9. /\ \A k \in 1 .. n + 1 : docs2[k] = docs[k]
        /\ docs2[n + 2] = Result(e, docs[n + 1])
    <3>1. n + 2 \in 1 .. n + 2 /\ ~(n + 2 <= n + 1)
      BY <2>2
    <3>2. \A k \in 1 .. n + 1 : k \in 1 .. n + 2 /\ k <= n + 1
      BY <2>2
    <3> QED
      BY <3>1, <3>2
  <2>. HIDE DEF docs2, q2, new, n
  <2>10. ASSUME NEW k \in 1 .. n + 1
         PROVE  docs2[k + 1] = IF q2[k].gen = g THEN Result(q2[k], docs2[k]) ELSE docs2[k]
    <3>1. CASE k = n + 1
      <4>1. k + 1 = n + 2 /\ q2[k] = e /\ docs2[k] = docs[n + 1]
        BY <3>1, <2>2, <2>3, <2>9
      <4> QED
        BY <4>1, <1>2, <2>9
    <3>2. CASE k \in 1 .. n
      <4>1. k + 1 \in 1 .. n + 1 /\ q2[k] = q[k]
        BY <3>2, <2>2, <2>3
      <4> QED
        BY <3>2, <4>1, <2>4, <2>9
    <3> QED
      BY <3>1, <3>2, <2>2
  <2>11. Handled(q2, g, d, docs2) /\ docs2[Len(q2) + 1] = Result(e, docs[n + 1])
    <3>1. Len(q2) + 1 = n + 2 /\ 1 \in 1 .. n + 1
      BY <2>2, <2>3
    <3> QED
      BY <3>1, <2>3, <2>4, <2>8, <2>9, <2>10 DEF Handled
  <2>12. \E ds : Handled(q2, g, d, ds) /\ Fits(new, ds[Len(q2) + 1], ordered)
    BY <2>7, <2>11
  <2> QED
    BY <1>2, <2>12 DEF Agrees, q2, new
<1> QED
  BY <1>1, <1>2

(* The first event is handled, or finds no handler.                        *)
LEMMA AgreesHandled ==
  ASSUME NEW cols, NEW q \in Seq(SortEnds), q # <<>>, NEW rs, NEW g, NEW d, NEW ordered,
         rs # <<>> => Head(q).gen # g,
         Agrees(cols, q, rs, g, d, ordered)
  PROVE  Agrees(cols, Tail(q), rs, g,
                IF Head(q).gen = g THEN Result(Head(q), d) ELSE d, ordered)
<1>1. CASE rs # <<>>
  BY <1>1 DEF Agrees
<1>2. CASE rs = <<>>
  <2> DEFINE n == Len(q)
             tl == Tail(q)
             d2 == IF Head(q).gen = g THEN Result(Head(q), d) ELSE d
  <2>1. PICK docs : Handled(q, g, d, docs) /\ Fits(cols, docs[n + 1], ordered)
    BY <1>2 DEF Agrees
  <2>2. /\ n \in Nat /\ n # 0 /\ Len(tl) = n - 1 /\ Head(q) = q[1]
        /\ \A k \in 1 .. Len(tl) : tl[k] = q[k + 1]
    BY HeadTailProperties, EmptySeq
  <2>4. /\ docs \in [1 .. n + 1 -> Documents] /\ docs[1] = d
        /\ \A k \in 1 .. n : docs[k + 1] = IF q[k].gen = g THEN Result(q[k], docs[k]) ELSE docs[k]
    BY <2>1 DEF Handled
  <2>5. docs[2] = d2
    <3>1. 1 \in 1 .. n /\ 1 + 1 = 2
      BY <2>2
    <3> QED
      BY <3>1, <2>2, <2>4
  <2> DEFINE docs2 == [k \in 1 .. n |-> docs[k + 1]]
  <2>6. docs2 \in [1 .. n -> Documents]
    <3>1. \A k \in 1 .. n : k + 1 \in 1 .. n + 1
      BY <2>2
    <3> QED
      BY <3>1, <2>4
  <2>7. \A k \in 1 .. n : docs2[k] = docs[k + 1]
    OBVIOUS
  <2>. HIDE DEF docs2, d2, tl, n
  <2>8. ASSUME NEW k \in 1 .. Len(tl)
        PROVE  docs2[k + 1] = IF tl[k].gen = g THEN Result(tl[k], docs2[k]) ELSE docs2[k]
    <3>1. k \in 1 .. n /\ k + 1 \in 1 .. n /\ tl[k] = q[k + 1]
      BY <2>2
    <3>2. docs2[k] = docs[k + 1] /\ docs2[k + 1] = docs[(k + 1) + 1]
      BY <3>1, <2>7
    <3> QED
      BY <3>1, <3>2, <2>4
  <2>9. 1 \in 1 .. n /\ n \in 1 .. n /\ Len(tl) + 1 = n /\ 1 + 1 = 2
    BY <2>2
  <2>10. docs2[1] = d2 /\ docs2[Len(tl) + 1] = docs[n + 1]
    BY <2>5, <2>7, <2>9
  <2>11. Handled(tl, g, d2, docs2)
    BY <2>6, <2>8, <2>9, <2>10 DEF Handled
  <2>12. \E ds : Handled(tl, g, d2, ds) /\ Fits(cols, ds[Len(tl) + 1], ordered)
    BY <2>1, <2>10, <2>11
  <2> QED
    BY <1>2, <2>12 DEF Agrees, tl, d2
<1> QED
  BY <1>1, <1>2

-----------------------------------------------------------------------------
(* The inductive invariant.                                                *)

(* A browser is behind the server by the renderings on their way to it,    *)
(* and its events are of renderings it has shown.                          *)
Generations ==
  \A c \in Clients :
    /\ gen[c] = shownGen[c] + Len(down[c])
    /\ \A k \in 1 .. Len(down[c]) : down[c][k].gen = shownGen[c] + k
    /\ \A k \in 1 .. Len(up[c]) : up[c][k].gen <= shownGen[c]

(* Every page that is not about to be rendered shows what the document     *)
(* will say.                                                               *)
Settling ==
  \A c \in scene.pages : active[c] /\ (owed[c] = 0 \/ exact[c]) =>
    Agrees(columns[c], up[c], down[c], gen[c], Document, exact[c])

OrganiseIInv == Types /\ Generations /\ Settling

LEMMA PagesAreClients == Types => scene.pages \subseteq Clients
BY ScenesAssumption DEF Types

LEMMA OrganiseInitIInv == OrganiseInit => OrganiseIInv
<1> SUFFICES ASSUME OrganiseInit PROVE OrganiseIInv
  OBVIOUS
<1>1. scene \in Scenes /\ scene.highlights \subseteq Highlights
  BY ScenesAssumption DEF OrganiseInit
<1>2. tag \in TagMaps
  BY <1>1 DEF OrganiseInit, TagMaps, Keys
<1>3. order \in Lists
  <2>1. CASE order = [t \in Tags |-> <<>>]
    BY <2>1 DEF Lists
  <2>2. CASE ListedInSomeOrder
    <3>1. PICK all \in SetToSeqs(DOMAIN tag) :
            order = [t \in Tags |-> Among(all, Tagged(t))]
      BY <2>2 DEF ListedInSomeOrder
    <3>2. all \in Seq(Highlights)
      BY <1>2, TagMapFacts, MapOrderFacts
    <3>3. \A t \in Tags : Among(all, Tagged(t)) \in Seq(Highlights)
      BY <3>2, AmongFacts
    <3> QED
      BY <3>1, <3>3 DEF Lists
  <2> QED
    BY <2>1, <2>2 DEF OrganiseInit
<1>4. <<>> \in Shown
  <2>1. DOMAIN <<>> = {} /\ <<>> = [t \in {} |-> <<>>[t]]
    OBVIOUS
  <2> QED
    BY <2>1, ShownFacts
<1>5. Types
  BY <1>1, <1>2, <1>3, <1>4 DEF OrganiseInit, Types
<1>6. Generations
  BY DEF OrganiseInit, Generations
<1>7. Settling
  BY <1>5, PagesAreClients DEF OrganiseInit, Settling
<1> QED
  BY <1>5, <1>6, <1>7 DEF OrganiseIInv

(* Renders, for the page it is about.                                      *)
LEMMA RendersFacts ==
  ASSUME Types, Generations, NEW c \in Clients, Renders(c), UNCHANGED <<shownGen, up>>
  PROVE  /\ gen' \in [Clients -> Nat] /\ down' \in [Clients -> Seq(Renderings)]
         /\ exact' \in [Clients -> BOOLEAN]
         /\ Generations'
         /\ \A x \in Clients : x # c => gen'[x] = gen[x] /\ down'[x] = down[x] /\ exact'[x] = exact[x]
         /\ \A cols, q : Agrees(cols, q, down'[c], gen'[c], Document, exact'[c])
<1>1. PICK mapOrder \in SetToSeqs(DOMAIN tag) :
        /\ gen' = [gen EXCEPT ![c] = @ + 1]
        /\ down' = [down EXCEPT ![c] =
                      Append(@, [gen |-> gen[c] + 1, columns |-> render_organise_tab(mapOrder)])]
        /\ exact' = [exact EXCEPT ![c] = ListsComplete]
  BY DEF Renders
<1> DEFINE r == [gen |-> gen[c] + 1, columns |-> render_organise_tab(mapOrder)]
<1>2. /\ gen \in [Clients -> Nat] /\ shownGen \in [Clients -> Nat]
      /\ down \in [Clients -> Seq(Renderings)] /\ exact \in [Clients -> BOOLEAN]
      /\ tag \in TagMaps /\ order \in Lists
  BY DEF Types
<1>3. /\ render_organise_tab(mapOrder) \in Shown
      /\ Shows(render_organise_tab(mapOrder), tag)
      /\ ListsComplete => InOrder(render_organise_tab(mapOrder), order)
  BY <1>2, RenderingFacts
<1>4. r \in Renderings
  BY <1>2, <1>3 DEF Renderings
<1>5. Fits(r.columns, Document, ListsComplete)
  BY <1>3 DEF Fits, Document
<1>6. ListsComplete \in BOOLEAN
  BY DEF ListsComplete
<1>7. /\ gen'[c] = gen[c] + 1 /\ down'[c] = Append(down[c], r) /\ exact'[c] = ListsComplete
      /\ r.gen = gen[c] + 1
  BY <1>1, <1>2
<1>. HIDE DEF r
<1>8. /\ gen' \in [Clients -> Nat] /\ down' \in [Clients -> Seq(Renderings)]
  <2>1. gen[c] + 1 \in Nat /\ Append(down[c], r) \in Seq(Renderings)
    BY <1>2, <1>4, AppendProperties
  <2> QED
    BY <2>1, <1>1, <1>2 DEF r
<1>9. exact' \in [Clients -> BOOLEAN]
  BY <1>1, <1>2, <1>6
<1>10. \A x \in Clients : x # c => gen'[x] = gen[x] /\ down'[x] = down[x] /\ exact'[x] = exact[x]
  BY <1>1, <1>2
<1>11. \A cols, q : Agrees(cols, q, down'[c], gen'[c], Document, exact'[c])
  BY <1>2, <1>4, <1>5, <1>7, AgreesRendered
<1>12. ASSUME NEW x \in Clients
       PROVE  /\ gen'[x] = shownGen[x] + Len(down'[x])
              /\ \A k \in 1 .. Len(down'[x]) : down'[x][k].gen = shownGen[x] + k
  <2>0. /\ gen[x] = shownGen[x] + Len(down[x])
        /\ \A k \in 1 .. Len(down[x]) : down[x][k].gen = shownGen[x] + k
        /\ Len(down[x]) \in Nat /\ shownGen[x] \in Nat
    BY <1>2, LenProperties DEF Generations
  <2>1. CASE x # c
    BY <2>0, <2>1, <1>10
  <2>2. CASE x = c
    <3>1. /\ Len(down'[c]) = Len(down[c]) + 1
          /\ \A k \in 1 .. Len(down[c]) : down'[c][k] = down[c][k]
          /\ down'[c][Len(down[c]) + 1] = r
      BY <1>2, <1>4, <1>7, AppendProperties
    <3>2. gen'[c] = shownGen[c] + Len(down'[c])
      <4>1. gen'[c] = gen[c] + 1 /\ Len(down'[c]) = Len(down[c]) + 1
        BY <1>7, <3>1
      <4>2. gen[c] = shownGen[c] + Len(down[c]) /\ Len(down[c]) \in Nat /\ shownGen[c] \in Nat
        BY <2>0, <2>2
      <4> QED
        BY <4>1, <4>2
    <3>3. ASSUME NEW k \in 1 .. Len(down'[c]) PROVE down'[c][k].gen = shownGen[c] + k
      <4>1. CASE k \in 1 .. Len(down[c])
        BY <4>1, <2>0, <2>2, <3>1
      <4>2. CASE k = Len(down[c]) + 1
        <5>1. down'[c][k] = r /\ r.gen = gen[c] + 1
          BY <4>2, <1>7, <3>1
        <5>2. gen[c] = shownGen[c] + Len(down[c]) /\ Len(down[c]) \in Nat /\ shownGen[c] \in Nat
          BY <2>0, <2>2
        <5> QED
          BY <4>2, <5>1, <5>2
      <4> QED
        BY <4>1, <4>2, <2>0, <2>2, <3>1
    <3> QED
      BY <2>2, <3>2, <3>3
  <2> QED
    BY <2>1, <2>2
<1>13. Generations'
  BY <1>12 DEF Generations
<1> QED
  BY <1>8, <1>9, <1>10, <1>11, <1>13

(* A page whose messages and columns stay as they are, as does the         *)
(* document, agrees as before.                                             *)
LEMMA SettlingKept ==
  ASSUME Types, Settling, NEW x \in scene.pages, Document' = Document,
         columns'[x] = columns[x], up'[x] = up[x], down'[x] = down[x], gen'[x] = gen[x],
         exact'[x] = exact[x], active'[x] = active[x], owed'[x] = owed[x],
         active'[x], owed'[x] = 0 \/ exact'[x]
  PROVE  Agrees(columns'[x], up'[x], down'[x], gen'[x], Document', exact'[x])
BY Zenon DEF Settling

LEMMA DropKeeps ==
  ASSUME OrganiseIInv, NEW c \in scene.pages,
         NEW from \in DOMAIN columns[c], NEW to \in DOMAIN columns[c],
         NEW h \in Range(columns[c][from]), NEW i \in 1 .. Len(columns[c][to]) + 1,
         Drop(c, from, to, h, i)
  PROVE  OrganiseIInv'
<1> DEFINE e == [gen |-> shownGen[c], item |-> h, from |-> from, to |-> to, newIndex |-> i - 1]
           new == Dropped(columns[c], from, to, h, i)
<1>1. /\ c \in Clients /\ columns \in [Clients -> Shown] /\ up \in [Clients -> Seq(SortEnds)]
      /\ down \in [Clients -> Seq(Renderings)] /\ shownGen \in [Clients -> Nat]
      /\ columns[c] \in Shown /\ Document \in Documents
  BY PagesAreClients DEF OrganiseIInv, Types, Document, Documents
<1>2. /\ h # Label
      /\ LET lifted == [columns[c] EXCEPT ![from] = RemoveFirst(@, h)]
         IN  i \in 1 .. Len(lifted[to]) + 1
      /\ columns' = [columns EXCEPT ![c] = new]
      /\ up' = [up EXCEPT ![c] = Append(@, e)]
      /\ UNCHANGED <<scene, tag, order, shownGen, gen, active, exact, down, owed>>
  BY DEF Drop, Dropped, document, server
<1>3. /\ from \in Keys /\ to \in Keys /\ columns[c][from] \in Seq(Children)
      /\ columns[c][to] \in Seq(Children)
  BY <1>1, ShownFacts
<1>4. h \in Highlights
  <2>1. h \in Children
    BY <1>3 DEF Range
  <2> QED
    BY <1>2, <2>1 DEF Children
<1>5. i \in Nat /\ i - 1 \in Nat /\ (i - 1) + 1 = i
  BY <1>3, LenProperties
<1>6. /\ e \in SortEnds /\ e.gen = shownGen[c] /\ e.from = from /\ e.to = to /\ e.item = h
      /\ e.newIndex + 1 = i
  BY <1>1, <1>3, <1>4, <1>5 DEF SortEnds
<1>7. new \in Shown
  BY <1>1, <1>2, <1>4, <1>5, DropShown
<1>. HIDE DEF e, new
<1>8. Document' = Document
  BY <1>2 DEF Document
<1>9. Types'
  <2>1. columns' \in [Clients -> Shown]
    BY <1>1, <1>2, <1>7
  <2>2. up' \in [Clients -> Seq(SortEnds)]
    <3>1. Append(up[c], e) \in Seq(SortEnds)
      BY <1>1, <1>6, AppendProperties
    <3> QED
      BY <1>1, <1>2, <3>1
  <2> QED
    BY <1>2, <2>1, <2>2 DEF OrganiseIInv, Types
<1>10. up'[c] = Append(up[c], e) /\ columns'[c] = new
  BY <1>1, <1>2
<1>11. Generations'
  <2>1. ASSUME NEW x \in Clients, NEW k \in 1 .. Len(up'[x]) PROVE up'[x][k].gen <= shownGen[x]
    <3>1. CASE x # c
      <4>1. up'[x] = up[x]
        BY <1>2, <3>1, <1>1
      <4> QED
        BY <4>1, <2>1 DEF OrganiseIInv, Generations
    <3>2. CASE x = c
      <4>1. /\ Len(up'[c]) = Len(up[c]) + 1 /\ Len(up[c]) \in Nat
            /\ \A j \in 1 .. Len(up[c]) : up'[c][j] = up[c][j]
            /\ up'[c][Len(up[c]) + 1] = e
        BY <1>1, <1>6, <1>10, AppendProperties, LenProperties
      <4>2. CASE k \in 1 .. Len(up[c])
        BY <1>1, <3>2, <4>1, <4>2 DEF OrganiseIInv, Generations
      <4>3. CASE k = Len(up[c]) + 1
        BY <1>1, <1>6, <3>2, <4>1, <4>3
      <4> QED
        BY <3>2, <4>1, <4>2, <4>3
    <3> QED
      BY <3>1, <3>2
  <2> QED
    BY <1>2, <2>1 DEF OrganiseIInv, Generations
<1>12. ASSUME NEW x \in scene.pages, active'[x], owed'[x] = 0 \/ exact'[x]
       PROVE  Agrees(columns'[x], up'[x], down'[x], gen'[x], Document', exact'[x])
  <2>1. CASE x # c
    <3>1. x \in Clients /\ columns'[x] = columns[x] /\ up'[x] = up[x]
      BY <1>1, <1>2, <2>1, PagesAreClients DEF OrganiseIInv
    <3> QED
      BY <3>1, <1>2, <1>8, <1>12, SettlingKept DEF OrganiseIInv
  <2>2. CASE x = c
    <3>1. Agrees(columns[c], up[c], down[c], gen[c], Document, exact[c])
      BY <1>2, <1>12, <2>2 DEF OrganiseIInv, Settling
    <3>2. down[c] = <<>> => e.gen = gen[c]
      <4>1. gen[c] = shownGen[c] + Len(down[c]) /\ shownGen[c] \in Nat
        BY <1>1 DEF OrganiseIInv, Generations
      <4>2. down[c] = <<>> => Len(down[c]) = 0
        BY EmptySeq
      <4> QED
        BY <4>1, <4>2, <1>6
    <3>3. up[c] \in Seq(SortEnds) /\ down[c] \in Seq(Renderings)
      BY <1>1
    <3>4. Agrees(Dropped(columns[c], e.from, e.to, e.item, e.newIndex + 1), Append(up[c], e),
                 down[c], gen[c], Document, exact[c])
      BY <1>1, <1>2, <1>6, <3>1, <3>2, <3>3, AgreesDropped
    <3>5. Agrees(new, Append(up[c], e), down[c], gen[c], Document, exact[c])
      BY <3>4, <1>6 DEF new
    <3> QED
      BY <3>5, <2>2, <1>2, <1>8, <1>10
  <2> QED
    BY <2>1, <2>2
<1>13. Settling'
  BY <1>2, <1>12 DEF Settling
<1> QED
  BY <1>9, <1>11, <1>13 DEF OrganiseIInv

LEMMA ReceiveRenderingKeeps ==
  ASSUME OrganiseIInv, NEW c \in scene.pages, ReceiveRendering(c)
  PROVE  OrganiseIInv'
<1>1. /\ c \in Clients /\ columns \in [Clients -> Shown] /\ up \in [Clients -> Seq(SortEnds)]
      /\ down \in [Clients -> Seq(Renderings)] /\ shownGen \in [Clients -> Nat]
      /\ gen \in [Clients -> Nat] /\ Document \in Documents
  BY PagesAreClients DEF OrganiseIInv, Types, Document, Documents
<1>2. /\ down[c] # <<>>
      /\ columns' = [columns EXCEPT ![c] = Head(down[c]).columns]
      /\ shownGen' = [shownGen EXCEPT ![c] = Head(down[c]).gen]
      /\ down' = [down EXCEPT ![c] = Tail(@)]
      /\ UNCHANGED <<scene, tag, order, gen, active, exact, up, owed>>
  BY DEF ReceiveRendering, document, server, counters
<1>3. /\ Head(down[c]) \in Renderings /\ Tail(down[c]) \in Seq(Renderings)
      /\ Len(Tail(down[c])) = Len(down[c]) - 1 /\ Len(down[c]) \in Nat /\ Len(down[c]) # 0
      /\ \A k \in 1 .. Len(Tail(down[c])) : Tail(down[c])[k] = down[c][k + 1]
      /\ Head(down[c]) = down[c][1]
  <2>1. down[c] \in Seq(Renderings)
    BY <1>1
  <2> QED
    BY <1>2, <2>1, HeadTailProperties, EmptySeq
<1>4. Head(down[c]).columns \in Shown /\ Head(down[c]).gen \in Nat
  BY <1>3 DEF Renderings
<1>5. Document' = Document
  BY <1>2 DEF Document
<1>6. Types'
  <2>1. columns' \in [Clients -> Shown] /\ shownGen' \in [Clients -> Nat]
    BY <1>1, <1>2, <1>4
  <2>2. down' \in [Clients -> Seq(Renderings)]
    BY <1>1, <1>2, <1>3
  <2> QED
    BY <1>2, <2>1, <2>2 DEF OrganiseIInv, Types
<1>7. /\ down'[c] = Tail(down[c]) /\ shownGen'[c] = Head(down[c]).gen
      /\ columns'[c] = Head(down[c]).columns
      /\ \A x \in Clients : x # c => /\ down'[x] = down[x] /\ shownGen'[x] = shownGen[x]
                                     /\ columns'[x] = columns[x]
  BY <1>1, <1>2
<1>8. /\ gen[c] = shownGen[c] + Len(down[c])
      /\ \A k \in 1 .. Len(down[c]) : down[c][k].gen = shownGen[c] + k
      /\ \A k \in 1 .. Len(up[c]) : up[c][k].gen <= shownGen[c]
      /\ shownGen[c] \in Nat
  BY <1>1 DEF OrganiseIInv, Generations
<1>9. shownGen'[c] = shownGen[c] + 1
  <2>1. 1 \in 1 .. Len(down[c])
    BY <1>3
  <2> QED
    BY <1>3, <1>7, <1>8, <2>1
<1>10. \A k \in 1 .. Len(up[c]) : up[c][k] \in SortEnds /\ up[c][k].gen \in Nat
  <2>1. up[c] \in Seq(SortEnds)
    BY <1>1
  <2>2. \A k \in 1 .. Len(up[c]) : up[c][k] \in SortEnds
    BY <2>1, ElementOfSeq
  <2> QED
    BY <2>2 DEF SortEnds
<1>11. Generations'
  <2>1. ASSUME NEW x \in Clients
        PROVE  /\ gen[x] = shownGen'[x] + Len(down'[x])
               /\ \A k \in 1 .. Len(down'[x]) : down'[x][k].gen = shownGen'[x] + k
               /\ \A k \in 1 .. Len(up[x]) : up[x][k].gen <= shownGen'[x]
    <3>1. CASE x # c
      BY <3>1, <1>7 DEF OrganiseIInv, Generations
    <3>2. CASE x = c
      <4>1. gen[c] = shownGen'[c] + Len(down'[c])
        <5>1. Len(down'[c]) = Len(down[c]) - 1
          BY <1>3, <1>7
        <5>2. gen[c] = shownGen[c] + Len(down[c]) /\ shownGen[c] \in Nat /\ Len(down[c]) \in Nat
          BY <1>3, <1>8
        <5> QED
          BY ONLY <5>1, <5>2, <1>9
      <4>2. ASSUME NEW k \in 1 .. Len(down'[c]) PROVE down'[c][k].gen = shownGen'[c] + k
        <5>1. k + 1 \in 1 .. Len(down[c]) /\ down'[c][k] = down[c][k + 1]
          BY <1>3, <1>7
        <5>2. down'[c][k].gen = shownGen[c] + (k + 1)
          BY <5>1, <1>8
        <5>3. shownGen[c] \in Nat /\ k \in Nat
          BY <1>8
        <5> QED
          BY ONLY <5>2, <5>3, <1>9
      <4>3. ASSUME NEW k \in 1 .. Len(up[c]) PROVE up[c][k].gen <= shownGen'[c]
        <5>1. up[c][k].gen <= shownGen[c] /\ up[c][k].gen \in Nat
          BY <1>8, <1>10
        <5> QED
          BY <5>1, <1>8, <1>9
      <4> QED
        BY <3>2, <4>1, <4>2, <4>3
    <3> QED
      BY <3>1, <3>2
  <2> QED
    BY <1>2, <2>1 DEF Generations
<1>12. ASSUME NEW x \in scene.pages, active'[x], owed'[x] = 0 \/ exact'[x]
       PROVE  Agrees(columns'[x], up'[x], down'[x], gen'[x], Document', exact'[x])
  <2>1. CASE x # c
    <3>1. x \in Clients /\ columns'[x] = columns[x] /\ down'[x] = down[x]
      BY <1>7, <2>1, PagesAreClients DEF OrganiseIInv
    <3> QED
      BY <3>1, <1>2, <1>5, <1>12, SettlingKept DEF OrganiseIInv
  <2>2. CASE x = c
    <3>1. Agrees(columns[c], up[c], down[c], gen[c], Document, exact[c])
      BY <1>2, <1>12, <2>2 DEF OrganiseIInv, Settling
    <3>2. ASSUME NEW k \in 1 .. Len(up[c]) PROVE up[c][k].gen # gen[c]
      <4>1. up[c][k].gen <= shownGen[c] /\ up[c][k].gen \in Nat
        BY <1>8, <1>10
      <4> QED
        BY <4>1, <1>3, <1>8
    <3>3. up[c] \in Seq(SortEnds) /\ down[c] \in Seq(Renderings)
      BY <1>1
    <3>4. Agrees(Head(down[c]).columns, up[c], Tail(down[c]), gen[c], Document, exact[c])
      BY <1>1, <1>2, <3>1, <3>2, <3>3, AgreesReceived
    <3> QED
      BY <3>4, <2>2, <1>2, <1>5, <1>7
  <2> QED
    BY <2>1, <2>2
<1>13. Settling'
  BY <1>2, <1>12 DEF Settling
<1> QED
  BY <1>6, <1>11, <1>13 DEF OrganiseIInv

LEMMA OnSortEndKeeps ==
  ASSUME OrganiseIInv, NEW c \in scene.pages, OnSortEnd(c)
  PROVE  OrganiseIInv'
<1> DEFINE e == Head(up[c])
<1>1. /\ c \in Clients /\ up \in [Clients -> Seq(SortEnds)] /\ owed \in [Clients -> Nat]
      /\ exact \in [Clients -> BOOLEAN] /\ tag \in TagMaps /\ order \in Lists
      /\ Document \in Documents
  BY PagesAreClients DEF OrganiseIInv, Types, Document, Documents
<1>2. /\ up[c] # <<>>
      /\ up' = [up EXCEPT ![c] = Tail(@)]
      /\ UNCHANGED <<scene, columns, shownGen, gen, active, down>>
      /\ e.gen = gen[c] => /\ ApplySortReorderOrMove(e)
                           /\ BroadcastFrom(c)
                           /\ exact' = ChangedBy(c)
      /\ e.gen # gen[c] => UNCHANGED <<tag, order, owed, exact>>
  BY DEF OnSortEnd, document, browser, counters
<1>3. /\ e \in SortEnds /\ Tail(up[c]) \in Seq(SortEnds)
      /\ Len(Tail(up[c])) = Len(up[c]) - 1 /\ Len(up[c]) \in Nat /\ Len(up[c]) # 0
      /\ \A k \in 1 .. Len(Tail(up[c])) : Tail(up[c])[k] = up[c][k + 1]
      /\ e = up[c][1]
  <2>1. up[c] \in Seq(SortEnds)
    BY <1>1
  <2> QED
    BY <1>2, <2>1, HeadTailProperties, EmptySeq
<1>4. /\ up'[c] = Tail(up[c])
      /\ \A x \in Clients : x # c => up'[x] = up[x]
      /\ up' \in [Clients -> Seq(SortEnds)]
  BY <1>1, <1>2, <1>3
<1>. HIDE DEF e
<1>5. Document' = IF e.gen = gen[c] THEN Result(e, Document) ELSE Document
  <2>1. CASE e.gen = gen[c]
    BY <2>1, <1>2, ResultIsApplied
  <2>2. CASE e.gen # gen[c]
    BY <2>2, <1>2 DEF Document
  <2> QED
    BY <2>1, <2>2
<1>6. tag' \in TagMaps /\ order' \in Lists
  <2>1. Document' \in Documents
    BY <1>1, <1>3, <1>5, ResultTyped
  <2> QED
    BY <2>1 DEF Document, Documents
<1>7. /\ owed' \in [Clients -> Nat] /\ exact' \in [Clients -> BOOLEAN]
      /\ owed'[c] = owed[c] /\ exact'[c] = exact[c]
      /\ e.gen = gen[c] => \A x \in scene.pages \ {c} : owed'[x] # 0 /\ ~exact'[x]
  <2>1. CASE e.gen = gen[c]
    <3>1. /\ owed' = [x \in Clients |-> IF x \in scene.pages \ {c} THEN owed[x] + 1 ELSE owed[x]]
          /\ exact' = [x \in Clients |-> exact[x] /\ x = c]
      BY <2>1, <1>2 DEF BroadcastFrom, ChangedBy
    <3>2. scene.pages \subseteq Clients
      BY PagesAreClients DEF OrganiseIInv
    <3>3. owed' \in [Clients -> Nat] /\ owed'[c] = owed[c]
      BY <1>1, <3>1
    <3>4. exact' \in [Clients -> BOOLEAN]
      BY <1>1, <3>1
    <3>5. exact'[c] = exact[c]
      BY <1>1, <3>1
    <3>6. ASSUME NEW x \in scene.pages \ {c} PROVE owed'[x] # 0 /\ ~exact'[x]
      <4>1. x \in Clients /\ owed[x] \in Nat
        BY <1>1, <3>2
      <4>2. owed'[x] = owed[x] + 1 /\ exact'[x] = FALSE
        BY <3>1, <4>1
      <4> QED
        BY <4>1, <4>2
    <3> QED
      BY <3>3, <3>4, <3>5, <3>6
  <2>2. CASE e.gen # gen[c]
    BY <2>2, <1>1, <1>2
  <2> QED
    BY <2>1, <2>2
<1>8. Types'
  BY <1>2, <1>4, <1>6, <1>7 DEF OrganiseIInv, Types
<1>9. Generations'
  <2>1. ASSUME NEW x \in Clients, NEW k \in 1 .. Len(up'[x]) PROVE up'[x][k].gen <= shownGen[x]
    <3>1. CASE x # c
      BY <2>1, <3>1, <1>4 DEF OrganiseIInv, Generations
    <3>2. CASE x = c
      <4>1. k + 1 \in 1 .. Len(up[c]) /\ up'[c][k] = up[c][k + 1]
        BY <3>2, <1>3, <1>4
      <4> QED
        BY <4>1, <3>2, <1>1 DEF OrganiseIInv, Generations
    <3> QED
      BY <3>1, <3>2
  <2> QED
    BY <1>2, <2>1 DEF OrganiseIInv, Generations
<1>10. ASSUME NEW x \in scene.pages, active'[x], owed'[x] = 0 \/ exact'[x]
       PROVE  Agrees(columns'[x], up'[x], down'[x], gen'[x], Document', exact'[x])
  <2>1. CASE x # c
    <3>1. e.gen # gen[c]
      BY <1>7, <1>10, <2>1
    <3>2. x \in Clients /\ up'[x] = up[x] /\ Document' = Document
          /\ owed'[x] = owed[x] /\ exact'[x] = exact[x]
      BY <1>2, <1>4, <1>5, <2>1, <3>1, PagesAreClients DEF OrganiseIInv
    <3> QED
      BY <3>2, <1>2, <1>10, SettlingKept DEF OrganiseIInv
  <2>2. CASE x = c
    <3>1. Agrees(columns[c], up[c], down[c], gen[c], Document, exact[c])
      BY <1>2, <1>7, <1>10, <2>2 DEF OrganiseIInv, Settling
    <3>2. down[c] # <<>> => e.gen # gen[c]
      <4>1. gen[c] = shownGen[c] + Len(down[c]) /\ e.gen <= shownGen[c]
        BY <1>1, <1>3 DEF OrganiseIInv, Generations
      <4>2. shownGen[c] \in Nat /\ down[c] \in Seq(Renderings)
        BY <1>1 DEF OrganiseIInv, Types
      <4>3. e.gen \in Nat
        BY <1>3 DEF SortEnds
      <4>4. Len(down[c]) \in Nat /\ (down[c] # <<>> => Len(down[c]) # 0)
        BY <4>2, EmptySeq, LenProperties
      <4> QED
        BY <4>1, <4>2, <4>3, <4>4
    <3>3. up[c] \in Seq(SortEnds)
      BY <1>1
    <3>4. Agrees(columns[c], Tail(up[c]), down[c], gen[c],
                 IF e.gen = gen[c] THEN Result(e, Document) ELSE Document, exact[c])
      BY <1>2, <3>1, <3>2, <3>3, AgreesHandled DEF e
    <3> QED
      BY <3>4, <2>2, <1>2, <1>4, <1>5, <1>7
  <2> QED
    BY <2>1, <2>2
<1>11. Settling'
  BY <1>2, <1>10 DEF Settling
<1> QED
  BY <1>8, <1>9, <1>11 DEF OrganiseIInv

(* Another rendering for page c, whatever else the step does to it.        *)
LEMMA RenderingKeeps ==
  ASSUME OrganiseIInv, NEW c \in scene.pages, Renders(c),
         UNCHANGED <<scene, tag, order, columns, shownGen, up>>,
         active' \in [Clients -> BOOLEAN], owed' \in [Clients -> Nat],
         \A x \in Clients : x # c => active'[x] = active[x] /\ owed'[x] = owed[x]
  PROVE  OrganiseIInv'
<1>1. c \in Clients
  BY PagesAreClients DEF OrganiseIInv
<1>2. /\ gen' \in [Clients -> Nat] /\ down' \in [Clients -> Seq(Renderings)]
      /\ exact' \in [Clients -> BOOLEAN]
      /\ Generations'
      /\ \A x \in Clients : x # c => gen'[x] = gen[x] /\ down'[x] = down[x] /\ exact'[x] = exact[x]
      /\ \A cols, q : Agrees(cols, q, down'[c], gen'[c], Document, exact'[c])
  BY <1>1, RendersFacts DEF OrganiseIInv
<1>3. Types'
  BY <1>2 DEF OrganiseIInv, Types
<1>4. Document' = Document
  BY DEF Document
<1>5. ASSUME NEW x \in scene.pages, active'[x], owed'[x] = 0 \/ exact'[x]
      PROVE  Agrees(columns'[x], up'[x], down'[x], gen'[x], Document', exact'[x])
  <2>1. CASE x # c
    <3>1. x \in Clients
      BY PagesAreClients DEF OrganiseIInv
    <3> QED
      BY <2>1, <3>1, <1>2, <1>4, <1>5, SettlingKept DEF OrganiseIInv
  <2>2. CASE x = c
    BY <2>2, <1>2, <1>4
  <2> QED
    BY <2>1, <2>2
<1>6. Settling'
  BY <1>5 DEF Settling
<1> QED
  BY <1>2, <1>3, <1>6 DEF OrganiseIInv

(* Fewer pages may show the tab, or fewer broadcasts be owed to a page     *)
(* that does not.                                                          *)
LEMMA HiddenKeeps ==
  ASSUME OrganiseIInv, NEW c \in scene.pages,
         UNCHANGED <<scene, tag, order, columns, shownGen, gen, up, down, exact>>,
         active' \in [Clients -> BOOLEAN], owed' \in [Clients -> Nat],
         ~active'[c],
         \A x \in Clients : x # c => active'[x] = active[x] /\ owed'[x] = owed[x]
  PROVE  OrganiseIInv'
<1>1. Types' /\ Generations'
  BY DEF OrganiseIInv, Types, Generations
<1>2. ASSUME NEW x \in scene.pages, active'[x], owed'[x] = 0 \/ exact'[x]
      PROVE  Agrees(columns'[x], up'[x], down'[x], gen'[x], Document', exact'[x])
  <2>1. x # c /\ x \in Clients /\ Document' = Document
    BY <1>2, PagesAreClients DEF OrganiseIInv, Document
  <2> QED
    BY <2>1, <1>2, SettlingKept DEF OrganiseIInv
<1>3. Settling'
  BY <1>2 DEF Settling
<1> QED
  BY <1>1, <1>3 DEF OrganiseIInv

LEMMA HandleRemoteUpdateKeeps ==
  ASSUME OrganiseIInv, NEW c \in scene.pages, HandleRemoteUpdate(c)
  PROVE  OrganiseIInv'
<1>1. /\ c \in Clients /\ owed \in [Clients -> Nat] /\ active \in [Clients -> BOOLEAN]
  BY PagesAreClients DEF OrganiseIInv, Types
<1>2. /\ owed[c] > 0 /\ owed' = [owed EXCEPT ![c] = @ - 1]
      /\ UNCHANGED <<scene, tag, order, columns, shownGen, active, up>>
  BY DEF HandleRemoteUpdate, document, browser, counters
<1>3. /\ owed' \in [Clients -> Nat]
      /\ \A x \in Clients : x # c => owed'[x] = owed[x]
  BY <1>1, <1>2
<1>4. CASE active[c]
  <2>1. Renders(c)
    BY <1>4 DEF HandleRemoteUpdate
  <2> QED
    BY <2>1, <1>1, <1>2, <1>3, RenderingKeeps
<1>5. CASE ~active[c]
  <2>1. UNCHANGED <<gen, down, exact>>
    BY <1>5 DEF HandleRemoteUpdate
  <2> QED
    BY <2>1, <1>1, <1>2, <1>3, <1>5, HiddenKeeps
<1> QED
  BY <1>4, <1>5

LEMMA OpenTabKeeps ==
  ASSUME OrganiseIInv, NEW c \in scene.pages, OpenTab(c)
  PROVE  OrganiseIInv'
<1>1. /\ c \in Clients /\ owed \in [Clients -> Nat] /\ active \in [Clients -> BOOLEAN]
  BY PagesAreClients DEF OrganiseIInv, Types
<1>2. /\ Renders(c) /\ active' = [active EXCEPT ![c] = TRUE]
      /\ UNCHANGED <<scene, tag, order, columns, shownGen, up, owed>>
  BY DEF OpenTab, document, browser, counters
<1>3. /\ active' \in [Clients -> BOOLEAN]
      /\ \A x \in Clients : x # c => active'[x] = active[x]
  BY <1>1, <1>2
<1> QED
  BY <1>1, <1>2, <1>3, RenderingKeeps

LEMMA LeaveTabKeeps ==
  ASSUME OrganiseIInv, NEW c \in scene.pages, LeaveTab(c)
  PROVE  OrganiseIInv'
<1>1. /\ c \in Clients /\ owed \in [Clients -> Nat] /\ active \in [Clients -> BOOLEAN]
  BY PagesAreClients DEF OrganiseIInv, Types
<1>2. /\ active' = [active EXCEPT ![c] = FALSE]
      /\ UNCHANGED <<scene, tag, order, columns, shownGen, gen, up, down, owed, exact>>
  BY DEF LeaveTab, document, browser, channels
<1>3. /\ active' \in [Clients -> BOOLEAN] /\ ~active'[c]
      /\ \A x \in Clients : x # c => active'[x] = active[x]
  BY <1>1, <1>2
<1> QED
  BY <1>1, <1>2, <1>3, HiddenKeeps

LEMMA EditKeeps ==
  ASSUME OrganiseIInv, NEW c \in scene.pages, Edit(c)
  PROVE  OrganiseIInv'
<1>1. /\ c \in Clients /\ owed \in [Clients -> Nat] /\ scene.pages \subseteq Clients
      /\ tag \in TagMaps /\ scene.highlights \subseteq Highlights
  BY PagesAreClients, ScenesAssumption DEF OrganiseIInv, Types
<1>2. /\ ~active[c]
      /\ owed' = [x \in Clients |-> IF x \in scene.pages \ {c} THEN owed[x] + 1 ELSE owed[x]]
      /\ exact' = [x \in Clients |-> FALSE]
      /\ UNCHANGED <<scene, order, columns, shownGen, gen, active, up, down>>
  BY DEF Edit, BroadcastFrom, browser
<1>3. /\ tag = [h \in DOMAIN tag |-> tag[h]] /\ DOMAIN tag \subseteq Highlights
      /\ \A h \in DOMAIN tag : tag[h] \in Keys
  BY <1>1, TagMapFacts
<1>4. tag' \in TagMaps
  <2>1. ASSUME NEW h \in scene.highlights \ DOMAIN tag, NEW t \in Tags,
               tag' = [x \in DOMAIN tag \cup {h} |-> IF x = h THEN t ELSE tag[x]]
        PROVE  tag' \in TagMaps
    <3>2. DOMAIN tag \cup {h} \in SUBSET Highlights
      BY <1>1, <1>3
    <3>3. tag' \in [DOMAIN tag \cup {h} -> Keys]
      BY <2>1, <1>3 DEF Keys
    <3> QED
      BY <3>2, <3>3 DEF TagMaps
  <2>2. ASSUME NEW h \in DOMAIN tag, tag' = Restrict(tag, DOMAIN tag \ {h})
        PROVE  tag' \in TagMaps
    <3>1. tag' \in [DOMAIN tag \ {h} -> Keys]
      BY <2>2, <1>3 DEF Restrict
    <3> QED
      BY <3>1, <1>3 DEF TagMaps
  <2>3. ASSUME NEW h \in DOMAIN tag, NEW t \in Tags, tag' = [tag EXCEPT ![h] = t]
        PROVE  tag' \in TagMaps
    <3>1. tag' \in [DOMAIN tag -> Keys]
      BY <2>3, <1>3 DEF Keys
    <3> QED
      BY <3>1, <1>3 DEF TagMaps
  <2> QED
    BY <2>1, <2>2, <2>3 DEF Edit
<1>5. Types'
  <2>1. owed' \in [Clients -> Nat] /\ exact' \in [Clients -> BOOLEAN]
    BY <1>1, <1>2
  <2> QED
    BY <2>1, <1>2, <1>4 DEF OrganiseIInv, Types
<1>6. Generations'
  BY <1>2 DEF OrganiseIInv, Generations
<1>7. ASSUME NEW x \in scene.pages, active'[x] PROVE owed'[x] # 0 /\ ~exact'[x]
  <2>1. x \in scene.pages \ {c} /\ x \in Clients /\ owed[x] \in Nat
    BY <1>1, <1>2, <1>7
  <2>2. owed'[x] = owed[x] + 1 /\ exact'[x] = FALSE
    BY <1>2, <2>1
  <2> QED
    BY <2>1, <2>2
<1>8. Settling'
  BY <1>2, <1>7 DEF Settling
<1> QED
  BY <1>5, <1>6, <1>8 DEF OrganiseIInv

LEMMA OrganiseStepIInv == OrganiseIInv /\ [OrganiseNext]_organise => OrganiseIInv'
<1> SUFFICES ASSUME OrganiseIInv, [OrganiseNext]_organise PROVE OrganiseIInv'
  OBVIOUS
<1>1. ASSUME NEW c \in scene.pages,
             \/ \E from, to \in DOMAIN columns[c] :
                  \E h \in Range(columns[c][from]), i \in 1 .. (Len(columns[c][to]) + 1) :
                    Drop(c, from, to, h, i)
             \/ ReceiveRendering(c) \/ OnSortEnd(c) \/ HandleRemoteUpdate(c)
             \/ OpenTab(c) \/ LeaveTab(c) \/ Edit(c)
      PROVE  OrganiseIInv'
  BY <1>1, DropKeeps, ReceiveRenderingKeeps, OnSortEndKeeps, HandleRemoteUpdateKeeps,
     OpenTabKeeps, LeaveTabKeeps, EditKeeps
<1>2. CASE UNCHANGED organise
  <2>1. UNCHANGED <<scene, tag, order, columns, shownGen, gen, active, up, down, owed, exact>>
    BY <1>2 DEF organise
  <2>2. Types' /\ Generations' /\ Settling'
    BY <2>1 DEF OrganiseIInv, Types, Generations, Settling, Document
  <2> QED
    BY <2>2 DEF OrganiseIInv
<1> QED
  BY <1>1, <1>2 DEF OrganiseNext

(* With nothing on its way, the page shows what the document says.         *)
LEMMA QuietFits ==
  ASSUME OrganiseIInv, NEW c \in scene.pages, active[c], Quiet(c)
  PROVE  Fits(columns[c], Document, exact[c])
<1>1. up[c] = <<>> /\ down[c] = <<>> /\ owed[c] = 0
  BY DEF Quiet
<1>2. Agrees(columns[c], up[c], down[c], gen[c], Document, exact[c])
  BY <1>1 DEF OrganiseIInv, Settling
<1>3. PICK docs : /\ Handled(up[c], gen[c], Document, docs)
                  /\ Fits(columns[c], docs[Len(up[c]) + 1], exact[c])
  BY <1>1, <1>2 DEF Agrees
<1>4. Len(up[c]) + 1 = 1
  <2>1. Len(up[c]) = 0
    BY <1>1, EmptySeq
  <2> QED
    BY <2>1
<1> QED
  BY <1>3, <1>4 DEF Handled

-----------------------------------------------------------------------------
(* Also in the middle of it all: whatever is on its way to and from a page *)
(* with the tab open, unless a broadcast will have it rendered, what it    *)
(* will show is what the document will say when its events are handled.    *)
THEOREM PagesWillAgree == OrganiseSpec => [](Types /\ Generations /\ Settling)
BY OrganiseInitIInv, OrganiseStepIInv, PTL DEF OrganiseSpec, OrganiseIInv

(* Whatever was dragged, tagged or removed in whichever page: a page with  *)
(* the tab open, and nothing on its way to or from it, shows every         *)
(* highlight in the column of its tag and no card of a highlight that is   *)
(* gone, although _on_organise_sort_end renders the others and not itself. *)
THEOREM ColumnsSettle == OrganiseSpec => []SettledColumns
<1>1. OrganiseIInv => SettledColumns
  <2> SUFFICES ASSUME OrganiseIInv, NEW c \in scene.pages, active[c], Quiet(c)
               PROVE  /\ \A h \in DOMAIN tag : h \in Cards(c, tag[h])
                      /\ \A t \in DOMAIN columns[c] : Cards(c, t) \subseteq DOMAIN tag
    BY DEF SettledColumns
  <2>1. Fits(columns[c], Document, exact[c])
    BY QuietFits
  <2>2. DOMAIN tag \subseteq Highlights
    BY TagMapFacts DEF OrganiseIInv, Types
  <2> QED
    BY <2>1, <2>2, NamesAssumption DEF Fits, Shows, Document, Cards
<1> QED
  BY <1>1, OrganiseInitIInv, OrganiseStepIInv, PTL DEF OrganiseSpec

(* Positions among the cards of a column are positions in its list for as  *)
(* long as a page rendered from complete lists is the only one to change   *)
(* the document: the stored order is the one it shows, after any number of *)
(* drops and although it is never rendered again (tab_bar.py:123).         *)
THEOREM OrderStoredAsShown == OrganiseSpec => []StoredAsShown
<1>1. OrganiseIInv => StoredAsShown
  <2> SUFFICES ASSUME OrganiseIInv, NEW c \in scene.pages, active[c], exact[c], Quiet(c),
                      NEW t \in Tags
               PROVE  columns[c][t] = order[t]
    BY DEF StoredAsShown
  <2>1. Fits(columns[c], Document, exact[c])
    BY QuietFits
  <2> QED
    BY <2>1 DEF Fits, InOrder, Document
<1> QED
  BY <1>1, OrganiseInitIInv, OrganiseStepIInv, PTL DEF OrganiseSpec

(***************************************************************************)
(* Part 2: the export queue                                                *)
(***************************************************************************)

(* Rows exist only for jobs created so far. *)
CreatedOnly ==
  /\ \A j \in Jobs : status[j] # "none" => j <= created
  /\ \A j \in logged : j <= created /\ status[j] # "queued"

(* What the worker is doing fits the rows. *)
WorkerFits ==
  /\ worker \in {"claimed", "exporting"} =>
       /\ job \in Jobs /\ job <= created
       /\ status[job] \in {"none", "running"} /\ job \notin logged
  /\ worker = "failing" => /\ job \in Jobs /\ job <= created
                           /\ status[job] \in {"none", "completed"}
  /\ worker = "removing" => /\ job \in Jobs /\ job <= created
                            /\ status[job] \in {"none", "failed"}
  /\ \A j \in swept : j <= created /\ status[j] = "none"

QueueIInv == TypeOK /\ CreatedOnly /\ WorkerFits

(* The file of every completed job is there or went with the worker's /tmp,*)
(* and the one being written is there.                                     *)
FilesThere ==
  /\ \A j \in Jobs : status[j] = "completed" => j \in disk \cup cleared
  /\ worker = "exporting" => job \in disk

USE DEF Jobs

-----------------------------------------------------------------------------
LEMMA InitQueueIInv == Init => QueueIInv
BY NoneAssumption, BoundsAssumption
   DEF Init, QueueIInv, TypeOK, CreatedOnly, WorkerFits, Active, Ended

LEMMA StepQueueIInv == QueueIInv /\ [Next]_vars => QueueIInv'
<1> SUFFICES ASSUME QueueIInv, [Next]_vars PROVE QueueIInv'
  OBVIOUS
<1> USE NoneAssumption, BoundsAssumption
        DEF QueueIInv, TypeOK, CreatedOnly, WorkerFits, Active, Ended, Queued, SetStatus
<1>1. ASSUME NEW u \in Users, CreateJob(u) PROVE QueueIInv'
  BY <1>1 DEF CreateJob, MayCreate
<1>2. ASSUME NEW j \in Jobs, CascadeDelete(j) PROVE QueueIInv'
  BY <1>2 DEF CascadeDelete
<1>3. ASSUME NEW j \in Jobs, Age(j) PROVE QueueIInv'
  BY <1>3 DEF Age
<1>4. CASE StartWorker
  BY <1>4 DEF StartWorker, Orphans
<1>5. CASE Claim
  BY <1>5 DEF Claim
<1>6. CASE MakeDirectory
  BY <1>6 DEF MakeDirectory, rows
<1>7. CASE LoseClaim
  BY <1>7 DEF LoseClaim, LogFailure, rows
<1>8. CASE Complete
  BY <1>8 DEF Complete, Kept
<1>9. CASE Fail
  BY <1>9 DEF Fail
<1>10. CASE GiveUp
  BY <1>10 DEF GiveUp, LogFailure
<1>11. CASE RemoveOutput
  BY <1>11 DEF RemoveOutput, rows
<1>12. CASE DeleteExpired
  BY <1>12 DEF DeleteExpired, Expired
<1>13. CASE RemoveExpired
  BY <1>13 DEF RemoveExpired, rows
<1>14. CASE StopWorker
  BY <1>14 DEF StopWorker, rows
<1>15. CASE UNCHANGED vars
  BY <1>15 DEF vars, rows
<1> QED
  BY <1>1, <1>2, <1>3, <1>4, <1>5, <1>6, <1>7, <1>8, <1>9, <1>10, <1>11, <1>12,
     <1>13, <1>14, <1>15 DEF Next

(* A job that is running is the worker's, or it will be failed, or its     *)
(* failure was logged.                                                     *)
LEMMA StepRunning ==
  QueueIInv /\ RunningIsProcessed /\ [Next]_vars => RunningIsProcessed'
<1> SUFFICES ASSUME QueueIInv, RunningIsProcessed, [Next]_vars
             PROVE  RunningIsProcessed'
  OBVIOUS
<1> USE DEF QueueIInv, TypeOK, WorkerFits, RunningIsProcessed, SetStatus
<1>1. ASSUME NEW u \in Users, CreateJob(u) PROVE RunningIsProcessed'
  BY <1>1 DEF CreateJob
<1>2. ASSUME NEW j \in Jobs, CascadeDelete(j) \/ Age(j) PROVE RunningIsProcessed'
  <2>1. \A k \in Jobs : status'[k] = "running" => status[k] = "running"
    BY <1>2 DEF CascadeDelete, Age
  <2>2. worker' = worker /\ job' = job /\ logged' = logged
    BY <1>2 DEF CascadeDelete, Age
  <2> QED
    BY <2>1, <2>2
<1>3. CASE StartWorker
  BY <1>3 DEF StartWorker, Orphans, Active
<1>4. CASE Claim
  BY <1>4 DEF Claim, Queued
<1>5. CASE MakeDirectory \/ LoseClaim
  BY <1>5 DEF MakeDirectory, LoseClaim, LogFailure, rows
<1>6. CASE Complete \/ Fail
  BY <1>6 DEF Complete, Fail, Kept
<1>7. CASE GiveUp
  BY <1>7 DEF GiveUp, LogFailure
<1>8. CASE DeleteExpired
  BY <1>8 DEF DeleteExpired, Expired
<1>9. CASE RemoveOutput \/ RemoveExpired \/ StopWorker
  BY <1>9 DEF RemoveOutput, RemoveExpired, StopWorker, rows
<1>10. CASE UNCHANGED vars
  BY <1>10 DEF vars, rows
<1> QED
  BY <1>1, <1>2, <1>3, <1>4, <1>5, <1>6, <1>7, <1>8, <1>9, <1>10 DEF Next

(* No step takes away the file of a completed job, except a stop of the    *)
(* worker that deletes its /tmp.                                           *)
LEMMA StepFiles == QueueIInv /\ FilesThere /\ [Next]_vars => FilesThere'
<1> SUFFICES ASSUME QueueIInv, FilesThere, [Next]_vars
             PROVE  FilesThere'
  OBVIOUS
<1> USE DEF QueueIInv, TypeOK, WorkerFits, FilesThere, SetStatus
<1>1. ASSUME NEW u \in Users, CreateJob(u) PROVE FilesThere'
  BY <1>1 DEF CreateJob
<1>2. ASSUME NEW j \in Jobs, CascadeDelete(j) \/ Age(j) PROVE FilesThere'
  BY <1>2 DEF CascadeDelete, Age
<1>3. CASE StartWorker
  BY <1>3 DEF StartWorker
<1>4. CASE Claim \/ MakeDirectory \/ LoseClaim
  BY <1>4 DEF Claim, MakeDirectory, LoseClaim, LogFailure, rows
<1>5. CASE Complete \/ Fail
  BY <1>5 DEF Complete, Fail, Kept
<1>6. CASE DeleteExpired
  BY <1>6 DEF DeleteExpired
<1>7. CASE RemoveOutput
  BY <1>7 DEF RemoveOutput, rows
<1>8. CASE RemoveExpired
  BY <1>8 DEF RemoveExpired, rows
<1>9. CASE GiveUp
  BY <1>9 DEF GiveUp, LogFailure
<1>10. CASE StopWorker
  BY <1>10 DEF StopWorker, rows
<1>11. CASE UNCHANGED vars
  BY <1>11 DEF vars, rows
<1> QED
  BY <1>1, <1>2, <1>3, <1>4, <1>5, <1>6, <1>7, <1>8, <1>9, <1>10, <1>11 DEF Next

-----------------------------------------------------------------------------
(* The types, a token and a path for every completed job, and at most one  *)
(* queued or running job per user, whatever fails.                         *)
THEOREM TypeCorrect == Spec => []TypeOK
<1>1. QueueIInv => TypeOK
  BY DEF QueueIInv
<1> QED
  BY <1>1, InitQueueIInv, StepQueueIInv, PTL DEF Spec

(* A job that says "running" is the worker's, or will be failed when the   *)
(* worker starts, or this worker logged that its iteration failed:         *)
(* whatever fails, a spinner without an end leaves a trace in the log of   *)
(* the worker that runs, and none outlives it.                             *)
THEOREM NoRunningForgotten == Spec => []RunningIsProcessed
<1>1. Init => RunningIsProcessed
  BY DEF Init, RunningIsProcessed
<1>2. QueueIInv /\ RunningIsProcessed /\ [Next]_vars => RunningIsProcessed'
  BY StepRunning
<1> QED
  BY <1>1, <1>2, InitQueueIInv, StepQueueIInv, PTL DEF Spec

(* The link of a completed job leads to a file, through every failure and  *)
(* every stop of the worker between a commit and the removal of files; the *)
(* only thing that takes the file is a stop that deletes the worker's /tmp.*)
THEOREM TokensLeadToFiles == Spec => []ValidTokenServed
<1>1. Init => FilesThere
  BY DEF Init, FilesThere
<1>2. QueueIInv /\ FilesThere /\ [Next]_vars => FilesThere'
  BY StepFiles
<1>3. FilesThere => ValidTokenServed
  BY DEF FilesThere, ValidTokenServed, Served
<1> QED
  BY <1>1, <1>2, <1>3, InitQueueIInv, StepQueueIInv, PTL DEF Spec

-----------------------------------------------------------------------------
(* The queue implements JobTable                                           *)

Working == {j \in Jobs : status[j] = "running" /\ j \notin logged}
Stuck == {j \in Jobs : status[j] = "running" /\ j \in logged}
Offered == {j \in Jobs : Served(j)}

JT == INSTANCE JobTable WITH
        newest <- created, owner <- user_id, waiting <- Queued,
        working <- Working, stuck <- Stuck, offered <- Offered

(* The directory _process_job made is there for as long as it exports.     *)
ExportsHere == worker = "exporting" => job \in disk

JobsIInv == QueueIInv /\ RunningIsProcessed /\ ExportsHere

LEMMA StepExports == QueueIInv /\ ExportsHere /\ [Next]_vars => ExportsHere'
<1> SUFFICES ASSUME QueueIInv, ExportsHere, [Next]_vars PROVE ExportsHere'
  OBVIOUS
<1> USE DEF QueueIInv, TypeOK, WorkerFits, ExportsHere
<1>1. CASE MakeDirectory
  BY <1>1 DEF MakeDirectory
<1>2. CASE ~ MakeDirectory /\ Next
  BY <1>2 DEF Next, CreateJob, CascadeDelete, Age, StartWorker, Claim, LoseClaim,
              LogFailure, Complete, Fail, GiveUp, RemoveOutput, DeleteExpired,
              RemoveExpired, StopWorker, rows
<1>3. CASE UNCHANGED vars
  BY <1>3 DEF vars
<1> QED
  BY <1>1, <1>2, <1>3

(* A step that lets no row come to life, gives up none and offers nothing  *)
(* new drops jobs and results at most.                                     *)
LEMMA DropsOnly ==
  ASSUME UNCHANGED <<created, user_id>>,
         \A j \in Jobs : status'[j] \in {"queued", "running"} =>
           status'[j] = status[j] /\ (j \in logged' <=> j \in logged),
         (pdf_path' \ expired') \cap disk' \subseteq (pdf_path \ expired) \cap disk
  PROVE  JT!Drop
<1>1. Queued' \subseteq Queued /\ Working' \subseteq Working /\ Stuck' \subseteq Stuck
  BY DEF Queued, Working, Stuck
<1>2. Offered' \subseteq Offered
  BY DEF Offered, Served, ValidToken
<1> QED
  BY <1>1, <1>2 DEF JT!Drop

(* check_existing and the partial unique index: whoever has a job queued   *)
(* or running gets no other.                                               *)
LEMMA CreateImplements ==
  ASSUME JobsIInv, NEW u \in Users, CreateJob(u)
  PROVE  JT!Create(u)
<1> USE DEF JobsIInv, QueueIInv, TypeOK, CreatedOnly, CreateJob
<1>1. created + 1 \in Jobs /\ status[created + 1] = "none"
  BY BoundsAssumption
<1>2. Queued' = Queued \cup {created + 1} /\ Working' = Working /\ Stuck' = Stuck
  BY <1>1 DEF Queued, Working, Stuck, SetStatus
<1>3. Offered' = Offered
  BY DEF Offered, Served, ValidToken
<1>4. \A j \in Queued \cup Working \cup Stuck : user_id[j] # u
  BY DEF MayCreate, Active, Queued, Working, Stuck
<1> QED
  BY <1>1, <1>2, <1>3, <1>4 DEF JT!Create

(* claim_next_job: the idle worker left nothing behind that it works on. *)
LEMMA ClaimImplements ==
  ASSUME JobsIInv, Claim
  PROVE  \E j \in Jobs : JT!Begin(j)
<1> USE DEF JobsIInv, QueueIInv, TypeOK
<1>1. PICK j \in Queued : /\ \A k \in Queued : j <= k
                          /\ SetStatus({j}, "running")
  BY DEF Claim
<1>2. j \in Jobs /\ status[j] = "queued" /\ j \notin pdf_path /\ j \notin logged
  BY <1>1 DEF Queued, Ended, CreatedOnly
<1>3. Working = {} /\ logged' = logged
  BY DEF Claim, RunningIsProcessed, Working
<1>4. Queued' = Queued \ {j} /\ Working' = {j} /\ Stuck' = Stuck
  BY <1>1, <1>2, <1>3 DEF Queued, Working, Stuck, SetStatus
<1>5. Offered' = Offered
  BY DEF Claim, Offered, Served, ValidToken
<1>6. UNCHANGED <<created, user_id>>
  BY DEF Claim
<1> QED
  BY <1>1, <1>2, <1>3, <1>4, <1>5, <1>6 DEF JT!Begin

(* complete_job finds the row: the job was the one running, and its        *)
(* directory is still there.                                               *)
LEMMA CompleteImplements ==
  ASSUME JobsIInv, Complete
  PROVE  \E j \in Jobs : JT!Finish(j)
<1> USE DEF JobsIInv, QueueIInv, TypeOK, WorkerFits, Complete
<1>1. job \in Jobs /\ status[job] = "running" /\ job \in disk /\ job \notin logged
  BY DEF ExportsHere
<1>2. Working = {job} /\ job \notin expired
  BY <1>1 DEF RunningIsProcessed, Working, Ended
<1>3. Queued' = Queued /\ Working' = {} /\ Stuck' = Stuck
  BY <1>1, <1>2 DEF Queued, Working, Stuck, SetStatus
<1>4. Offered' = Offered \cup {job}
  BY <1>1, <1>2 DEF Kept, Offered, Served, ValidToken
<1> QED
  BY <1>1, <1>2, <1>3, <1>4 DEF JT!Finish

(* An iteration that failed leaves the job stuck if its row still says     *)
(* running, and drops it otherwise.                                        *)
LEMMA LogImplements ==
  ASSUME JobsIInv, LoseClaim \/ GiveUp
  PROVE  JT!Drop \/ \E j \in Jobs : JT!Abandon(j)
<1> USE DEF JobsIInv, QueueIInv, TypeOK, WorkerFits
<1>1. /\ job \in Jobs /\ logged' = logged \cup {job}
      /\ UNCHANGED <<created, user_id, expired, pdf_path, disk>>
  BY DEF LoseClaim, GiveUp, LogFailure, rows
<1>2. status' = status \/ SetStatus({job}, "failed")
  BY DEF LoseClaim, GiveUp, rows
<1>3. Offered' = Offered
  BY <1>1 DEF Offered, Served, ValidToken
<1>4. CASE status'[job] # "running"
  <2>1. status'[job] # "queued"
    BY <1>1, <1>2 DEF LoseClaim, GiveUp, SetStatus
  <2> QED
    BY <1>1, <1>2, <1>4, <2>1, DropsOnly DEF SetStatus
<1>5. CASE status'[job] = "running"
  <2>1. status' = status /\ status[job] = "running"
    BY <1>1, <1>2, <1>5 DEF SetStatus
  <2>2. worker \in {"claimed", "exporting"} /\ job \notin logged
    BY <2>1 DEF LoseClaim, GiveUp
  <2>3. Working = {job}
    BY <1>1, <2>1, <2>2 DEF Working, RunningIsProcessed
  <2>4. Queued' = Queued /\ Working' = {} /\ Stuck' = Stuck \cup {job}
    BY <1>1, <2>1, <2>3 DEF Queued, Working, Stuck
  <2> QED
    BY <1>1, <1>3, <2>3, <2>4 DEF JT!Abandon
<1> QED
  BY <1>4, <1>5

(* Everything else only takes away: rows that are deleted or failed,       *)
(* tokens that expire, directories that are removed.                       *)
LEMMA RestImplements ==
  ASSUME JobsIInv, Next,
         ~ Claim, ~ Complete, ~ LoseClaim, ~ GiveUp, \A u \in Users : ~ CreateJob(u)
  PROVE  JT!Drop
<1> USE DEF JobsIInv, QueueIInv, TypeOK
<1>1. ASSUME NEW j \in Jobs, CascadeDelete(j) PROVE JT!Drop
  BY <1>1, DropsOnly DEF CascadeDelete, SetStatus, Ended
<1>2. ASSUME NEW j \in Jobs, Age(j) PROVE JT!Drop
  BY <1>2, DropsOnly DEF Age
<1>3. CASE StartWorker
  BY <1>3, DropsOnly DEF StartWorker, SetStatus, Orphans, Active
<1>4. CASE MakeDirectory
  <2>1. job \in Jobs /\ job \notin pdf_path
    BY <1>4 DEF MakeDirectory, WorkerFits, Ended
  <2> QED
    BY <1>4, <2>1, DropsOnly DEF MakeDirectory, rows
<1>5. CASE Fail
  BY <1>5, DropsOnly DEF Fail, SetStatus
<1>6. CASE RemoveOutput \/ RemoveExpired
  BY <1>6, DropsOnly DEF RemoveOutput, RemoveExpired, rows
<1>7. CASE StopWorker
  BY <1>7, DropsOnly DEF StopWorker, rows
<1>8. CASE DeleteExpired
  BY <1>8, DropsOnly DEF DeleteExpired, SetStatus, Expired
<1> QED
  BY <1>1, <1>2, <1>3, <1>4, <1>5, <1>6, <1>7, <1>8 DEF Next

LEMMA QueueStepImplements == JobsIInv /\ [Next]_vars => [JT!Next]_JT!vars
<1> SUFFICES ASSUME JobsIInv, [Next]_vars PROVE [JT!Next]_JT!vars
  OBVIOUS
<1>1. CASE Claim
  BY <1>1, ClaimImplements DEF JT!Next
<1>2. CASE Complete
  BY <1>2, CompleteImplements DEF JT!Next
<1>3. CASE LoseClaim \/ GiveUp
  BY <1>3, LogImplements DEF JT!Next
<1>4. ASSUME NEW u \in Users, CreateJob(u) PROVE JT!Next
  BY <1>4, CreateImplements DEF JT!Next
<1>5. CASE /\ Next
           /\ ~ Claim /\ ~ Complete /\ ~ LoseClaim /\ ~ GiveUp
           /\ \A u \in Users : ~ CreateJob(u)
  BY <1>5, RestImplements DEF JT!Next
<1>6. CASE UNCHANGED vars
  <2>1. /\ Queued' = Queued /\ Working' = Working /\ Stuck' = Stuck
        /\ Offered' = Offered
    BY <1>6 DEF vars, rows, Queued, Working, Stuck, Offered, Served, ValidToken
  <2> QED
    BY <1>6, <2>1 DEF vars, rows, JT!vars
<1> QED
  BY <1>1, <1>2, <1>3, <1>4, <1>5, <1>6

(* The table, the directories and a worker that is stopped and started     *)
(* amount to one line of jobs: first come first served, one at a time, one *)
(* per user, and a link offered only for a job that was worked on.  What a *)
(* failing database or file system adds is that a job may get stuck: the   *)
(* worker goes on to the next, and its owner waits for a restart.          *)
THEOREM RefinesJobTable == Spec => JT!Spec
<1>1. Init => JobsIInv
  BY InitQueueIInv DEF Init, JobsIInv, RunningIsProcessed, ExportsHere
<1>2. JobsIInv /\ [Next]_vars => JobsIInv'
  BY StepQueueIInv, StepRunning, StepExports DEF JobsIInv
<1>3. Init => JT!Init
  BY DEF Init, JT!Init, Queued, Working, Stuck, Offered, Served, ValidToken
<1> QED
  BY <1>1, <1>2, <1>3, QueueStepImplements, PTL DEF Spec, JT!Spec
=============================================================================
