--------------------------- MODULE AdmissionProofs ---------------------------
(***************************************************************************)
(* Proofs about Admission, for every set of users and every value of the   *)
(* sizes.  The deque, the two token dictionaries and the two dictionaries  *)
(* of instants are consistent only together, so one invariant is proved:   *)
(* IInv is TypeOK, QueueMatchesTimes and TokensMatchPlaces.  Order, claims *)
(* and the size of batches follow from it step by step, and so does that   *)
(* Admission implements the abstract TicketQueue.                          *)
(***************************************************************************)
EXTENDS Admission, FiniteSetTheorems, SequenceTheorems, TLAPS

-----------------------------------------------------------------------------
(* Ranks of a finite set of positions: counting the members up to i is a   *)
(* bijection onto 1 .. Cardinality.                                        *)
LEMMA RankBijection ==
  ASSUME NEW n \in Nat, NEW kept \in SUBSET (1 .. n)
  PROVE  LET rank(i) == Cardinality({k \in kept : k <= i})
         IN  /\ IsFiniteSet(kept)
             /\ Cardinality(kept) \in Nat
             /\ \A i \in kept : rank(i) \in 1 .. Cardinality(kept)
             /\ \A i, j \in kept : i < j => rank(i) < rank(j)
             /\ \A m \in 1 .. Cardinality(kept) : \E i \in kept : rank(i) = m
<1> DEFINE rank(i) == Cardinality({k \in kept : k <= i})
           r == [i \in kept |-> rank(i)]
<1>1. IsFiniteSet(kept) /\ Cardinality(kept) \in Nat
  <2>1. 1 \in Int /\ n \in Int
    OBVIOUS
  <2>2. IsFiniteSet(1 .. n)
    BY <2>1, FS_Interval
  <2>3. IsFiniteSet(kept)
    BY <2>2, FS_Subset
  <2> QED
    BY <2>3, FS_CardinalityType
<1>2. ASSUME NEW i \in kept PROVE rank(i) \in 1 .. Cardinality(kept)
  <2>1. {k \in kept : k <= i} \in SUBSET kept
    OBVIOUS
  <2>2. i \in {k \in kept : k <= i}
    OBVIOUS
  <2>3. IsFiniteSet({k \in kept : k <= i}) /\ rank(i) <= Cardinality(kept)
    BY <1>1, <2>1, FS_Subset
  <2>4. rank(i) \in Nat /\ rank(i) # 0
    BY <2>2, <2>3, FS_CardinalityType, FS_EmptySet
  <2> QED
    BY <1>1, <2>3, <2>4
<1>3. ASSUME NEW i \in kept, NEW j \in kept, i < j PROVE rank(i) < rank(j)
  <2> DEFINE I == {k \in kept : k <= i}
             J == {k \in kept : k <= j}
  <2>1. /\ I \in SUBSET J
        /\ j \in J
        /\ j \notin I
    <3>1. i \in Int /\ j \in Int /\ \A k \in kept : k \in Int
      OBVIOUS
    <3>2. \A k \in kept : k <= i => k <= j
      BY <1>3, <3>1
    <3>3. j <= j /\ ~(j <= i)
      BY <1>3, <3>1
    <3> QED
      BY <3>2, <3>3
  <2>2. IsFiniteSet(J)
    BY <1>1, FS_Subset
  <2>3. Cardinality(I) <= Cardinality(J) /\ Cardinality(I) # Cardinality(J)
    BY <2>1, <2>2, FS_Subset
  <2>4. Cardinality(I) \in Nat /\ Cardinality(J) \in Nat
    BY <2>1, <2>2, FS_Subset, FS_CardinalityType
  <2> QED
    BY <2>3, <2>4
<1>4. \A m \in 1 .. Cardinality(kept) : \E i \in kept : rank(i) = m
  <2>1. r \in [kept -> 1 .. Cardinality(kept)]
    BY <1>2
  <2>2. ASSUME NEW i \in kept, NEW j \in kept, r[i] = r[j] PROVE i = j
    <3>1. i < j => rank(i) < rank(j)
      BY <1>3
    <3>2. j < i => rank(j) < rank(i)
      BY <1>3
    <3>3. rank(i) = rank(j) /\ rank(i) \in Nat
      BY <2>2, <1>2
    <3>4. i \in Int /\ j \in Int
      OBVIOUS
    <3> HIDE DEF rank
    <3> QED
      BY <3>1, <3>2, <3>3, <3>4
  <2>3. r \in Injection(kept, 1 .. Cardinality(kept))
    BY <2>1, <2>2 DEF Injection, IsInjective
  <2>4. /\ IsFiniteSet(1 .. Cardinality(kept))
        /\ Cardinality(1 .. Cardinality(kept)) = Cardinality(kept)
    BY <1>1, FS_Interval
  <2>5. r \in Surjection(kept, 1 .. Cardinality(kept))
    BY <2>3, <2>4, FS_Injection
  <2> QED
    BY <2>5 DEF Surjection
<1> QED
  BY <1>1, <1>2, <1>3, <1>4

(* What sweep_expired's rebuilt deque holds: the users that are not swept, *)
(* each still once, and none further back.                                 *)
LEMMA PurgedProperties ==
  ASSUME NEW T, NEW q \in Seq(T), NEW S,
         \A i, j \in DOMAIN q : q[i] = q[j] => i = j
  PROVE  /\ Purged(q, S) \in Seq(T)
         /\ \A i, j \in DOMAIN Purged(q, S) :
              Purged(q, S)[i] = Purged(q, S)[j] => i = j
         /\ Range(Purged(q, S)) = Range(q) \ S
         /\ \A i \in DOMAIN q : q[i] \notin S =>
              \E m \in DOMAIN Purged(q, S) : m <= i /\ Purged(q, S)[m] = q[i]
<1> DEFINE kept    == {i \in DOMAIN q : q[i] \notin S}
           rank(i) == Cardinality({k \in kept : k <= i})
           at(m)   == CHOOSE i \in kept : rank(i) = m
           p       == [m \in 1 .. Cardinality(kept) |-> q[at(m)]]
<1>1. Len(q) \in Nat /\ DOMAIN q = 1 .. Len(q) /\ q \in [1 .. Len(q) -> T]
  OBVIOUS
<1>2. kept \in SUBSET (1 .. Len(q))
  BY <1>1
<1>3. /\ Cardinality(kept) \in Nat
      /\ \A i \in kept : rank(i) \in 1 .. Cardinality(kept)
      /\ \A i, j \in kept : i < j => rank(i) < rank(j)
      /\ \A m \in 1 .. Cardinality(kept) : \E i \in kept : rank(i) = m
  BY <1>1, <1>2, RankBijection
<1>4. Purged(q, S) = p
  BY DEF Purged
<1>5. \A m \in 1 .. Cardinality(kept) : at(m) \in kept /\ rank(at(m)) = m
  BY <1>3
<1>0. ASSUME NEW i \in kept PROVE rank(i) <= i
  <2>1. i \in Nat /\ {k \in kept : k <= i} \in SUBSET (1 .. i)
    BY <1>2
  <2>2. IsFiniteSet(1 .. i) /\ Cardinality(1 .. i) = i
    BY <2>1, FS_Interval
  <2> QED
    BY <2>1, <2>2, FS_Subset
<1>. HIDE DEF rank, at
<1>6. \A i \in kept : at(rank(i)) = i
  <2> SUFFICES ASSUME NEW i \in kept PROVE at(rank(i)) = i
    OBVIOUS
  <2>1. at(rank(i)) \in kept /\ rank(at(rank(i))) = rank(i)
    BY <1>3, <1>5
  <2>2. at(rank(i)) < i => rank(at(rank(i))) < rank(i)
    BY <1>3, <2>1
  <2>3. i < at(rank(i)) => rank(i) < rank(at(rank(i)))
    BY <1>3, <2>1
  <2>4. rank(i) \in Int /\ i \in Int /\ at(rank(i)) \in Int
    BY <1>2, <1>3, <2>1
  <2> QED
    BY <2>1, <2>2, <2>3, <2>4
<1>7. p \in Seq(T)
  <2>1. p \in [1 .. Cardinality(kept) -> T]
    BY <1>1, <1>2, <1>5
  <2> QED
    BY <1>3, <2>1, SeqDef
<1>8. ASSUME NEW i \in 1 .. Cardinality(kept), NEW j \in 1 .. Cardinality(kept),
             p[i] = p[j]
      PROVE  i = j
  <2>1. q[at(i)] = q[at(j)] /\ at(i) \in DOMAIN q /\ at(j) \in DOMAIN q
    BY <1>5, <1>8
  <2>2. at(i) = at(j)
    BY <2>1
  <2> QED
    BY <1>5, <2>2
<1>9. Range(p) = Range(q) \ S
  <2>1. ASSUME NEW x \in Range(p) PROVE x \in Range(q) \ S
    BY <1>5 DEF Range
  <2>2. ASSUME NEW x \in Range(q) \ S PROVE x \in Range(p)
    <3>1. PICK i \in DOMAIN q : q[i] = x
      BY DEF Range
    <3>2. i \in kept
      BY <3>1
    <3>3. rank(i) \in DOMAIN p /\ p[rank(i)] = q[at(rank(i))]
      BY <1>3, <3>2
    <3>4. p[rank(i)] = x
      BY <1>6, <3>1, <3>2, <3>3
    <3> QED
      BY <3>3, <3>4 DEF Range
  <2> QED
    BY <2>1, <2>2
<1>10. ASSUME NEW i \in DOMAIN q, q[i] \notin S
       PROVE  \E m \in DOMAIN p : m <= i /\ p[m] = q[i]
  <2>1. i \in kept
    BY <1>10
  <2>2. rank(i) \in DOMAIN p /\ rank(i) <= i
    BY <1>0, <1>3, <2>1
  <2>3. p[rank(i)] = q[i]
    BY <1>6, <2>1, <2>2
  <2> QED
    BY <2>2, <2>3
<1> QED
  BY <1>4, <1>7, <1>8, <1>9, <1>10, SMTT(30)

(* They stay in their order.                                                *)
LEMMA PurgedInOrder ==
  ASSUME NEW T, NEW q \in Seq(T), NEW S
  PROVE  \E at \in [DOMAIN Purged(q, S) -> DOMAIN q] :
           /\ \A i \in DOMAIN Purged(q, S) : Purged(q, S)[i] = q[at[i]]
           /\ \A i, j \in DOMAIN Purged(q, S) : i < j => at[i] < at[j]
<1> DEFINE kept    == {i \in DOMAIN q : q[i] \notin S}
           rank(i) == Cardinality({k \in kept : k <= i})
           from(m) == CHOOSE i \in kept : rank(i) = m
           at      == [m \in 1 .. Cardinality(kept) |-> from(m)]
<1>1. Len(q) \in Nat /\ DOMAIN q = 1 .. Len(q)
  OBVIOUS
<1>2. kept \in SUBSET (1 .. Len(q))
  BY <1>1
<1>3. /\ \A i \in kept : rank(i) \in 1 .. Cardinality(kept)
      /\ \A i, j \in kept : i < j => rank(i) < rank(j)
      /\ \A m \in 1 .. Cardinality(kept) : \E i \in kept : rank(i) = m
  BY <1>1, <1>2, RankBijection
<1>4. Purged(q, S) = [m \in 1 .. Cardinality(kept) |-> q[from(m)]]
  BY DEF Purged
<1>5. \A m \in 1 .. Cardinality(kept) : from(m) \in kept /\ rank(from(m)) = m
  BY <1>3
<1>. HIDE DEF rank, from
<1>6. ASSUME NEW i \in 1 .. Cardinality(kept), NEW j \in 1 .. Cardinality(kept),
             i < j
      PROVE  from(i) < from(j)
  <2>1. /\ from(i) \in kept /\ rank(from(i)) = i
        /\ from(j) \in kept /\ rank(from(j)) = j
    BY <1>5
  <2>2. from(j) < from(i) => j < i
    BY <1>3, <2>1
  <2>3. from(i) \in Int /\ from(j) \in Int /\ i \in Int /\ j \in Int
    BY <1>2, <2>1
  <2> QED
    BY <1>6, <2>1, <2>2, <2>3
<1>7. at \in [1 .. Cardinality(kept) -> DOMAIN q]
  BY <1>5
<1>8. /\ DOMAIN Purged(q, S) = 1 .. Cardinality(kept)
      /\ \A i \in 1 .. Cardinality(kept) : Purged(q, S)[i] = q[at[i]]
  BY <1>4
<1>9. \A i, j \in 1 .. Cardinality(kept) : i < j => at[i] < at[j]
  BY <1>6
<1>. HIDE DEF at, kept
<1> QED
  BY <1>7, <1>8, <1>9

(* What admit_batch leaves of the deque: the users behind the first n.     *)
LEMMA TailProperties ==
  ASSUME NEW T, NEW q \in Seq(T), NEW n \in 0 .. Len(q),
         \A i, j \in DOMAIN q : q[i] = q[j] => i = j
  PROVE  LET s == SubSeq(q, n + 1, Len(q))
         IN  /\ s \in Seq(T)
             /\ \A i, j \in DOMAIN s : s[i] = s[j] => i = j
             /\ Range(s) = Range(q) \ {q[i] : i \in 1 .. n}
             /\ \A i \in DOMAIN s : n + i \in DOMAIN q /\ s[i] = q[n + i]
<1> DEFINE s == SubSeq(q, n + 1, Len(q))
<1>1. /\ Len(q) \in Nat /\ DOMAIN q = 1 .. Len(q)
      /\ \A i \in 1 .. Len(q) : q[i] \in T
      /\ n \in Nat /\ n <= Len(q)
  OBVIOUS
<1>2. /\ n + 1 \in Int /\ Len(q) \in Int
      /\ \A i \in n + 1 .. Len(q) : q[i] \in T
  BY <1>1
<1>3. /\ s \in Seq(T)
      /\ Len(s) = IF n + 1 <= Len(q) THEN Len(q) - (n + 1) + 1 ELSE 0
      /\ \A i \in 1 .. Len(q) - (n + 1) + 1 : s[i] = q[n + 1 + i - 1]
  BY <1>2, SubSeqProperties
<1>. HIDE DEF s
<1>4. /\ DOMAIN s = 1 .. Len(q) - n
      /\ \A i \in DOMAIN s : n + i \in DOMAIN q /\ s[i] = q[n + i]
  <2>1. Len(s) = Len(q) - n
    <3>1. \A m, k \in Nat : m <= k =>
            (IF m + 1 <= k THEN k - (m + 1) + 1 ELSE 0) = k - m
      OBVIOUS
    <3> QED
      BY <1>1, <1>3, <3>1
  <2>2. DOMAIN s = 1 .. Len(q) - n
    BY <1>3, <2>1
  <2>3. ASSUME NEW i \in 1 .. Len(q) - n
        PROVE  n + i \in 1 .. Len(q) /\ n + 1 + i - 1 = n + i
               /\ i \in 1 .. Len(q) - (n + 1) + 1
    BY <1>1
  <2> QED
    BY <1>1, <1>3, <2>2, <2>3, ZenonT(40)
<1>5. ASSUME NEW i \in DOMAIN s, NEW j \in DOMAIN s, s[i] = s[j] PROVE i = j
  <2>1. q[n + i] = q[n + j] /\ n + i \in DOMAIN q /\ n + j \in DOMAIN q
    BY <1>4, <1>5
  <2>2. n + i = n + j
    BY <2>1
  <2>3. i \in Int /\ j \in Int /\ n \in Int
    BY <1>1, <1>4
  <2> QED
    BY <2>2, <2>3
<1>6. ASSUME NEW x \in Range(s) PROVE x \in Range(q) \ {q[i] : i \in 1 .. n}
  <2>1. PICK i \in DOMAIN s : x = s[i]
    BY DEF Range
  <2>2. n + i \in DOMAIN q /\ x = q[n + i] /\ i \in 1 .. Len(q) - n
    BY <1>4, <2>1
  <2>3. \A k \in 1 .. n : k \in DOMAIN q /\ k # n + i
    BY <1>1, <2>2
  <2> QED
    BY <2>2, <2>3 DEF Range
<1>7. ASSUME NEW x \in Range(q) \ {q[i] : i \in 1 .. n} PROVE x \in Range(s)
  <2>1. PICK k \in DOMAIN q : x = q[k]
    BY DEF Range
  <2>2. k \notin 1 .. n
    BY <2>1
  <2>3. k - n \in 1 .. Len(q) - n /\ n + (k - n) = k
    BY <1>1, <2>2
  <2> QED
    BY <1>4, <2>1, <2>3 DEF Range
<1> QED
  BY <1>3, <1>4, <1>5, <1>6, <1>7, SMTT(30) DEF s

(* Enqueueing a user who is not in the deque. *)
LEMMA AppendedProperties ==
  ASSUME NEW T, NEW q \in Seq(T), NEW x \in T, x \notin Range(q),
         \A i, j \in DOMAIN q : q[i] = q[j] => i = j
  PROVE  /\ Append(q, x) \in Seq(T)
         /\ \A i, j \in DOMAIN Append(q, x) :
              Append(q, x)[i] = Append(q, x)[j] => i = j
         /\ Range(Append(q, x)) = Range(q) \cup {x}
<1> DEFINE s == Append(q, x)
<1>1. /\ Len(q) \in Nat /\ DOMAIN q = 1 .. Len(q)
      /\ \A i \in DOMAIN q : q[i] # x
  BY DEF Range
<1>2. /\ s \in Seq(T)
      /\ Len(s) = Len(q) + 1
      /\ \A i \in 1 .. Len(q) : s[i] = q[i]
      /\ s[Len(q) + 1] = x
  BY AppendProperties
<1>. HIDE DEF s
<1>3. DOMAIN s = 1 .. Len(q) + 1
  BY <1>2
<1>4. ASSUME NEW i \in DOMAIN s, NEW j \in DOMAIN s, s[i] = s[j] PROVE i = j
  <2>1. (i \in 1 .. Len(q) \/ i = Len(q) + 1) /\ (j \in 1 .. Len(q) \/ j = Len(q) + 1)
    BY <1>1, <1>3
  <2> QED
    BY <1>1, <1>2, <1>4, <2>1
<1>5. Range(s) = Range(q) \cup {x}
  <2>1. \A i : i \in 1 .. Len(q) + 1 <=> i \in 1 .. Len(q) \/ i = Len(q) + 1
    BY <1>1
  <2> QED
    BY <1>1, <1>2, <1>3, <2>1 DEF Range
<1> QED
  BY <1>2, <1>4, <1>5 DEF s

-----------------------------------------------------------------------------
IInv == TypeOK /\ QueueMatchesTimes /\ TokensMatchPlaces

(* Dropping the tokens of S from both dictionaries keeps them inverse.     *)
LEMMA DroppedTokens ==
  ASSUME TypeOK, TokensMatchPlaces, NEW S \in SUBSET Users
  PROVE  /\ TokensWithout(S) \in [Tokens -> Users \cup {None}]
         /\ Without(userTokens, S) \in [Users -> Tokens \cup {None}]
         /\ \A u \in Users, t \in Tokens :
              Without(userTokens, S)[u] = t <=> TokensWithout(S)[t] = u
         /\ \A u \in Users :
              Without(userTokens, S)[u] # None <=>
                u \in (Waiting \cup Ticketed) \ S
<1>1. /\ tokens \in [Tokens -> Users \cup {None}]
      /\ userTokens \in [Users -> Tokens \cup {None}]
      /\ \A u \in Users, t \in Tokens : userTokens[u] = t <=> tokens[t] = u
      /\ \A u \in Users : userTokens[u] # None <=> u \in Waiting \cup Ticketed
  BY DEF TypeOK, TokensMatchPlaces
<1>2. TokensWithout(S) \in [Tokens -> Users \cup {None}]
  BY <1>1 DEF TokensWithout
<1>3. Without(userTokens, S) \in [Users -> Tokens \cup {None}]
  BY <1>1 DEF Without
<1>4. ASSUME NEW u \in Users, NEW t \in Tokens
      PROVE  Without(userTokens, S)[u] = t <=> TokensWithout(S)[t] = u
  <2>1. CASE u \in S
    BY <1>1, <2>1, NoneAssumption DEF Without, TokensWithout
  <2>2. CASE u \notin S
    BY <1>1, <2>2, NoneAssumption DEF Without, TokensWithout
  <2> QED
    BY <2>1, <2>2
<1>5. ASSUME NEW u \in Users
      PROVE  Without(userTokens, S)[u] # None <=> u \in (Waiting \cup Ticketed) \ S
  BY <1>1 DEF Without
<1> QED
  BY <1>2, <1>3, <1>4, <1>5

THEOREM InitIInv == Init => IInv
<1> SUFFICES ASSUME Init PROVE IInv
  OBVIOUS
<1>1. TypeOK
  <2>1. InitialCap \in InitialCap .. MaxCap /\ 0 \in 0 .. MaxClients
    BY SizesAssumption
  <2>2. << >> \in Seq(Users)
    OBVIOUS
  <2> QED
    BY <2>1, <2>2 DEF Init, NoEntries, TypeOK
<1>2. QueueMatchesTimes
  BY DEF Init, NoEntries, QueueMatchesTimes, Waiting, Range
<1>3. TokensMatchPlaces
  BY NoneAssumption DEF Init, NoEntries, TokensMatchPlaces, Waiting, Ticketed
<1> QED
  BY <1>1, <1>2, <1>3 DEF IInv

(* Steps that leave the queue, the tickets and the tokens alone. *)
LEMMA PlacesUntouched ==
  ASSUME IInv, UNCHANGED <<queue, waited, tickets, tokens, userTokens>>
  PROVE  QueueMatchesTimes' /\ TokensMatchPlaces'
<1>1. Waiting' = Waiting /\ Ticketed' = Ticketed
  BY DEF Waiting, Ticketed
<1> QED
  BY <1>1 DEF IInv, QueueMatchesTimes, TokensMatchPlaces, Range

LEMMA StartKeepsIInv == IInv /\ Start => IInv'
<1> SUFFICES ASSUME IInv, Start PROVE IInv'
  OBVIOUS
<1>1. TypeOK'
  BY DEF IInv, TypeOK, Start, roomVars
<1> QED
  BY <1>1, PlacesUntouched DEF IInv, Start, roomVars

LEMMA VisitUngatedKeepsIInv ==
  ASSUME IInv, NEW u \in Users, registry[u] < MaxClients, VisitUngated(u)
  PROVE  IInv'
<1>1. TypeOK'
  <2>1. registry[u] + 1 \in 0 .. MaxClients
    BY SizesAssumption DEF IInv, TypeOK
  <2> QED
    BY <2>1 DEF IInv, TypeOK, VisitUngated, Register, roomVars
<1> QED
  BY <1>1, PlacesUntouched DEF IInv, VisitUngated, roomVars

LEMMA VisitAdmittedKeepsIInv ==
  ASSUME IInv, NEW u \in Users, registry[u] < MaxClients, VisitAdmitted(u)
  PROVE  IInv'
<1> DEFINE S == TryEnterDrops(u)
<1>1. S \in SUBSET Users /\ S \subseteq Ticketed
  BY DEF TryEnterDrops, Ticketed
<1>2. /\ TokensWithout(S) \in [Tokens -> Users \cup {None}]
      /\ Without(userTokens, S) \in [Users -> Tokens \cup {None}]
      /\ \A v \in Users, t \in Tokens :
           Without(userTokens, S)[v] = t <=> TokensWithout(S)[t] = v
      /\ \A v \in Users :
           Without(userTokens, S)[v] # None <=> v \in (Waiting \cup Ticketed) \ S
  BY <1>1, DroppedTokens DEF IInv
<1>3. /\ tickets' = Without(tickets, S)
      /\ tokens' = TokensWithout(S)
      /\ userTokens' = Without(userTokens, S)
      /\ UNCHANGED <<ready, cap, queue, waited, polling>>
  BY DEF VisitAdmitted
<1>4. TypeOK'
  <2>1. registry[u] + 1 \in 0 .. MaxClients
    BY SizesAssumption DEF IInv, TypeOK
  <2>2. registry' \in [Users -> 0 .. MaxClients]
    BY <2>1 DEF IInv, TypeOK, VisitAdmitted, Register
  <2>3. tickets' \in [Users -> (-1 .. TicketValidity) \cup {None}]
    BY <1>3 DEF IInv, TypeOK, Without
  <2> QED
    BY <1>2, <1>3, <2>2, <2>3 DEF IInv, TypeOK
<1>5. Waiting' = Waiting /\ Ticketed' = Ticketed \ S
  BY <1>3 DEF Waiting, Ticketed, Without
<1>6. QueueMatchesTimes'
  BY <1>3, <1>5 DEF IInv, QueueMatchesTimes, Range
<1>7. TokensMatchPlaces'
  <2>1. Waiting \cap Ticketed = {}
    BY DEF IInv, TokensMatchPlaces
  <2>2. (Waiting \cup Ticketed) \ S = Waiting \cup (Ticketed \ S)
    BY <1>1, <2>1
  <2>. HIDE DEF S
  <2> QED
    BY <1>2, <1>3, <1>5, <2>1, <2>2 DEF TokensMatchPlaces
<1> QED
  BY <1>4, <1>6, <1>7 DEF IInv

(* The page load that ends in the queue: by then an expired ticket is gone *)
(* with its token, so a user who still has a token is waiting, and the     *)
(* branch that puts a user at the front is never taken.                    *)
LEMMA VisitQueuedKeepsIInv ==
  ASSUME IInv, NEW u \in Users, VisitQueued(u)
  PROVE  IInv'
<1> DEFINE S     == TryEnterDrops(u)
           tks   == Without(tickets, S)
           toks  == TokensWithout(S)
           utoks == Without(userTokens, S)
<1>1. S \in SUBSET Users /\ S \subseteq Ticketed /\ (u \in Ticketed => u \in S)
  BY DEF TryEnterDrops, Ticketed
<1>2. /\ toks \in [Tokens -> Users \cup {None}]
      /\ utoks \in [Users -> Tokens \cup {None}]
      /\ \A v \in Users, t \in Tokens : utoks[v] = t <=> toks[t] = v
      /\ \A v \in Users : utoks[v] # None <=> v \in (Waiting \cup Ticketed) \ S
  BY <1>1, DroppedTokens DEF IInv
<1>3. /\ Enqueue(u, tks, toks, utoks)
      /\ UNCHANGED <<ready, cap, registry>>
  BY DEF VisitQueued
<1>4. tks \in [Users -> (-1 .. TicketValidity) \cup {None}]
  BY DEF IInv, TypeOK, Without
<1>5. tks[u] = None /\ {v \in Users : tks[v] # None} = Ticketed \ S
  BY <1>1 DEF Without, Ticketed
<1>6. /\ Waiting \cap Ticketed = {}
      /\ Waiting \subseteq Users /\ Ticketed \subseteq Users
      /\ Range(queue) = Waiting
      /\ \A i, j \in DOMAIN queue : queue[i] = queue[j] => i = j
  BY DEF IInv, TokensMatchPlaces, QueueMatchesTimes, Waiting, Ticketed
<1>. HIDE DEF S, tks, toks, utoks
<1>7. CASE waited[u] # None /\ utoks[u] # None
  <2>1. /\ polling' = polling \cup {utoks[u]}
        /\ tickets' = tks /\ tokens' = toks /\ userTokens' = utoks
        /\ UNCHANGED <<queue, waited>>
    BY <1>3, <1>7 DEF Enqueue, Placed
  <2>2. TypeOK'
    <3>1. utoks[u] \in Tokens
      BY <1>2, <1>7
    <3> QED
      BY <1>2, <1>3, <1>4, <2>1, <3>1 DEF IInv, TypeOK
  <2>3. Waiting' = Waiting /\ Ticketed' = Ticketed \ S
    BY <1>5, <2>1 DEF Waiting, Ticketed
  <2>4. QueueMatchesTimes'
    BY <2>1, <2>3 DEF IInv, QueueMatchesTimes, Range
  <2>5. TokensMatchPlaces'
    <3>1. (Waiting \cup Ticketed) \ S = Waiting \cup (Ticketed \ S)
      BY <1>1, <1>6
    <3> QED
      BY <1>2, <1>6, <2>1, <2>3, <3>1 DEF TokensMatchPlaces
  <2> QED
    BY <2>2, <2>4, <2>5 DEF IInv
<1>8. CASE ~(waited[u] # None /\ utoks[u] # None)
  <2>1. utoks[u] = None /\ u \notin Waiting
    <3>1. u \in Waiting => u \notin S
      BY <1>1, <1>6
    <3>2. u \notin Ticketed \ S
      BY <1>1
    <3> QED
      BY <1>2, <1>8, <3>1, <3>2 DEF Waiting
  <2>2. PICK t \in Tokens \ polling :
          /\ toks[t] = None
          /\ polling' = polling \cup {t}
          /\ queue' = Append(queue, u)
          /\ waited' = [waited EXCEPT ![u] = 0]
          /\ tickets' = [tks EXCEPT ![u] = None]
          /\ tokens' = [k \in Tokens |-> IF k = t THEN u
                                         ELSE IF k = utoks[u] THEN None
                                         ELSE toks[k]]
          /\ userTokens' = [utoks EXCEPT ![u] = t]
    BY <1>3, <2>1 DEF Enqueue, Placed
  <2>3. /\ queue' \in Seq(Users)
        /\ \A i, j \in DOMAIN queue' : queue'[i] = queue'[j] => i = j
        /\ Range(queue') = Waiting \cup {u}
    <3>1. queue \in Seq(Users) /\ u \notin Range(queue)
      BY <1>6, <2>1 DEF IInv, TypeOK
    <3>2. /\ Append(queue, u) \in Seq(Users)
          /\ \A i, j \in DOMAIN Append(queue, u) :
               Append(queue, u)[i] = Append(queue, u)[j] => i = j
          /\ Range(Append(queue, u)) = Range(queue) \cup {u}
      BY <1>6, <3>1, AppendedProperties
    <3> QED
      BY <1>6, <2>2, <3>2
  <2>4. Waiting' = Waiting \cup {u}
    BY <2>2, NoneAssumption DEF IInv, TypeOK, Waiting
  <2>5. Ticketed' = Ticketed \ S
    BY <1>4, <1>5, <2>2 DEF Ticketed
  <2>6. TypeOK'
    <3>1. waited' \in [Users -> (0 .. QueueTimeout + 1) \cup {None}]
      BY <2>2, SizesAssumption DEF IInv, TypeOK
    <3>2. tickets' \in [Users -> (-1 .. TicketValidity) \cup {None}]
      BY <1>4, <2>2
    <3>3. tokens' \in [Tokens -> Users \cup {None}]
      BY <1>2, <2>2
    <3>4. userTokens' \in [Users -> Tokens \cup {None}]
      BY <1>2, <2>2
    <3> QED
      BY <1>3, <2>2, <2>3, <3>1, <3>2, <3>3, <3>4 DEF IInv, TypeOK
  <2>7. ASSUME NEW v \in Users, NEW k \in Tokens
        PROVE  userTokens'[v] = k <=> tokens'[k] = v
    <3>1. utoks[v] = k <=> toks[k] = v
      BY <1>2
    <3>2. utoks[u] # k /\ utoks[v] # t
      BY <1>2, <2>1, <2>2, NoneAssumption
    <3> QED
      BY <1>2, <2>1, <2>2, <3>1, <3>2, NoneAssumption
  <2>8. ASSUME NEW v \in Users
        PROVE  userTokens'[v] # None <=> v \in Waiting' \cup Ticketed'
    <3>1. userTokens'[v] # None <=> v = u \/ utoks[v] # None
      BY <1>2, <2>2, NoneAssumption
    <3>2. (Waiting \cup Ticketed) \ S = Waiting \cup (Ticketed \ S)
      BY <1>1, <1>6
    <3> QED
      BY <1>2, <2>4, <2>5, <3>1, <3>2
  <2>9. Waiting' \cap Ticketed' = {}
    BY <1>1, <1>6, <2>4, <2>5
  <2> QED
    BY <2>3, <2>4, <2>6, <2>7, <2>8, <2>9
       DEF IInv, QueueMatchesTimes, TokensMatchPlaces
<1> QED
  BY <1>7, <1>8

LEMMA RegistryKeepsIInv ==
  ASSUME IInv, NEW u \in Users, CloseClient(u) \/ DisconnectUser(u)
  PROVE  IInv'
<1>1. registry' \in [Users -> 0 .. MaxClients]
  <2>1. CASE CloseClient(u)
    BY <2>1, SizesAssumption DEF IInv, TypeOK, CloseClient
  <2>2. CASE DisconnectUser(u)
    BY <2>2, SizesAssumption DEF IInv, TypeOK, DisconnectUser
  <2> QED
    BY <2>1, <2>2
<1>2. UNCHANGED <<ready, cap, queue, waited, tickets, tokens, userTokens, polling>>
  BY DEF CloseClient, DisconnectUser, roomVars
<1> QED
  BY <1>1, <1>2, PlacesUntouched DEF IInv, TypeOK

LEMMA CloseQueuePageKeepsIInv ==
  ASSUME IInv, NEW t \in Tokens, CloseQueuePage(t)
  PROVE  IInv'
<1>1. TypeOK'
  BY DEF IInv, TypeOK, CloseQueuePage, roomVars
<1> QED
  BY <1>1, PlacesUntouched DEF IInv, CloseQueuePage, roomVars

(* No poll ever meets a user whose place is half gone. *)
LEMMA NoDesync ==
  ASSUME IInv, NEW t \in Tokens
  PROVE  DesyncDrops(t) = {}
<1>1. \A u \in Users : tokens[t] = u => u \in Waiting \cup Ticketed
  BY NoneAssumption DEF IInv, TokensMatchPlaces
<1> QED
  BY <1>1 DEF DesyncDrops, IInv, QueueMatchesTimes

(* A poll: no token is stale and no waiting user is missing from the       *)
(* deque, so the only entry it can drop is an expired ticket.              *)
LEMMA PollAnsweredKeepsIInv ==
  ASSUME IInv, NEW t \in Tokens, PollAnswered(t)
  PROVE  IInv'
<1> DEFINE S == StatusDrops(t)
<1>1. /\ Waiting \cap Ticketed = {} /\ Range(queue) = Waiting
      /\ S \in SUBSET Users /\ S \subseteq Ticketed
  BY DEF IInv, TokensMatchPlaces, QueueMatchesTimes, StatusDrops,
         HasExpiredTicket, Ticketed
<1>2. DesyncDrops(t) = {}
  BY NoDesync
<1>3. /\ tickets' = Without(tickets, S)
      /\ waited' = waited
      /\ tokens' = TokensWithout(S)
      /\ userTokens' = Without(userTokens, S)
      /\ UNCHANGED <<ready, cap, queue, registry>>
      /\ polling' = polling \ {t}
  <2>1. S \cup DesyncDrops(t) = S
    BY <1>2
  <2>2. Without(waited, {}) = waited
    BY DEF IInv, TypeOK, Without
  <2>. HIDE DEF S
  <2> QED
    BY <1>2, <2>1, <2>2 DEF PollAnswered, S
<1>4. /\ TokensWithout(S) \in [Tokens -> Users \cup {None}]
      /\ Without(userTokens, S) \in [Users -> Tokens \cup {None}]
      /\ \A v \in Users, k \in Tokens :
           Without(userTokens, S)[v] = k <=> TokensWithout(S)[k] = v
      /\ \A v \in Users :
           Without(userTokens, S)[v] # None <=> v \in (Waiting \cup Ticketed) \ S
  BY <1>1, DroppedTokens DEF IInv
<1>. HIDE DEF S
<1>5. TypeOK'
  <2>1. tickets' \in [Users -> (-1 .. TicketValidity) \cup {None}]
    BY <1>3 DEF IInv, TypeOK, Without
  <2> QED
    BY <1>3, <1>4, <2>1 DEF IInv, TypeOK
<1>6. Waiting' = Waiting /\ Ticketed' = Ticketed \ S
  BY <1>3 DEF Waiting, Ticketed, Without
<1>7. QueueMatchesTimes'
  BY <1>3, <1>6 DEF IInv, QueueMatchesTimes, Range
<1>8. TokensMatchPlaces'
  <2>1. (Waiting \cup Ticketed) \ S = Waiting \cup (Ticketed \ S)
    BY <1>1
  <2> QED
    BY <1>1, <1>3, <1>4, <1>6, <2>1 DEF TokensMatchPlaces
<1> QED
  BY <1>5, <1>7, <1>8 DEF IInv

(* Waits get longer and tickets shorter, but none begins or ends. *)
LEMMA TickKeepsPlaces ==
  ASSUME IInv, Tick
  PROVE  Waiting' = Waiting /\ Ticketed' = Ticketed
<1>1. Waiting' = Waiting
  <2>1. ASSUME NEW u \in Users PROVE waited'[u] # None <=> waited[u] # None
    <3>1. waited[u] # None => Least(waited[u] + 1, QueueTimeout + 1) \in Int
      BY SizesAssumption DEF IInv, TypeOK, Least
    <3> QED
      BY <3>1, NoneAssumption DEF Tick
  <2> QED
    BY <2>1 DEF Waiting
<1>2. Ticketed' = Ticketed
  <2>1. ASSUME NEW u \in Users PROVE tickets'[u] # None <=> tickets[u] # None
    <3>1. tickets[u] # None => Most(tickets[u] - 1, -1) \in Int
      BY SizesAssumption DEF IInv, TypeOK, Most
    <3> QED
      BY <3>1, NoneAssumption DEF Tick
  <2> QED
    BY <2>1 DEF Ticketed
<1> QED
  BY <1>1, <1>2

LEMMA TickKeepsIInv == IInv /\ Tick => IInv'
<1> SUFFICES ASSUME IInv, Tick PROVE IInv'
  OBVIOUS
<1>1. waited' \in [Users -> (0 .. QueueTimeout + 1) \cup {None}]
  <2> SUFFICES ASSUME NEW u \in Users
               PROVE  waited'[u] \in (0 .. QueueTimeout + 1) \cup {None}
    BY DEF Tick
  <2>1. waited[u] = None \/ waited[u] \in 0 .. QueueTimeout + 1
    BY DEF IInv, TypeOK
  <2> QED
    BY <2>1, SizesAssumption DEF Tick, Least
<1>2. tickets' \in [Users -> (-1 .. TicketValidity) \cup {None}]
  <2> SUFFICES ASSUME NEW u \in Users
               PROVE  tickets'[u] \in (-1 .. TicketValidity) \cup {None}
    BY DEF Tick
  <2>1. tickets[u] = None \/ tickets[u] \in -1 .. TicketValidity
    BY DEF IInv, TypeOK
  <2> QED
    BY <2>1, SizesAssumption DEF Tick, Most
<1>3. TypeOK'
  BY <1>1, <1>2 DEF IInv, TypeOK, Tick
<1>4. Waiting' = Waiting /\ Ticketed' = Ticketed
  BY TickKeepsPlaces
<1>6. QueueMatchesTimes' /\ TokensMatchPlaces'
  BY <1>4 DEF IInv, QueueMatchesTimes, TokensMatchPlaces, Tick, Range
<1> QED
  BY <1>3, <1>6 DEF IInv

LEMMA ForgetKeepsIInv ==
  ASSUME Forget, ready' \in BOOLEAN, polling' \subseteq Tokens,
         registry' \in [Users -> 0 .. MaxClients]
  PROVE  IInv'
<1>1. TypeOK'
  <2>1. InitialCap \in InitialCap .. MaxCap /\ << >> \in Seq(Users)
    BY SizesAssumption
  <2> QED
    BY <2>1 DEF Forget, NoEntries, TypeOK
<1>2. Waiting' = {} /\ Ticketed' = {}
  BY DEF Forget, NoEntries, Waiting, Ticketed
<1>3. QueueMatchesTimes'
  BY <1>2 DEF Forget, QueueMatchesTimes, Range
<1>4. TokensMatchPlaces'
  BY <1>2, NoneAssumption DEF Forget, NoEntries, TokensMatchPlaces
<1> QED
  BY <1>1, <1>3, <1>4 DEF IInv

(* The cycle, with the facts every use of it needs: the first n users      *)
(* leave the deque with a ticket, those of gone leave the rest of it for   *)
(* the timeout, and the tickets of stale are the ones that expired.        *)
CycleStep(n, gone, stale) ==
  LET batch == BatchOf(n)
      rest  == SubSeq(queue, n + 1, Len(queue))
  IN  /\ cap' \in InitialCap .. MaxCap
      /\ n \in 0 .. Len(queue)
      /\ n # 0 => n <= cap' - Cardinality(Connected) - Cardinality(Ticketed)
      /\ gone = SweptWaiters(batch) /\ stale = SweptTickets(batch)
      /\ rest \in Seq(Users)
      /\ \A i, j \in DOMAIN rest : rest[i] = rest[j] => i = j
      /\ Range(rest) = Waiting \ batch
      /\ batch \subseteq Waiting /\ gone \subseteq Waiting \ batch
      /\ stale \subseteq Ticketed
      /\ queue' = Purged(rest, gone)
      /\ waited' = Without(waited, batch \cup gone)
      /\ tickets' = [u \in Users |-> IF u \in batch THEN TicketValidity
                                     ELSE IF u \in stale THEN None
                                     ELSE tickets[u]]
      /\ tokens' = TokensWithout(gone \cup stale)
      /\ userTokens' = Without(userTokens, gone \cup stale)
      /\ UNCHANGED <<ready, registry, polling>>

LEMMA CycleFacts ==
  ASSUME IInv, Cycle
  PROVE  \E n, gone, stale : CycleStep(n, gone, stale)
<1> PICK lag \in Lags :
      LET c     == UpdatedCap(lag)
          n     == BatchLength(c)
          batch == BatchOf(n)
          gone  == SweptWaiters(batch)
          stale == SweptTickets(batch)
      IN  /\ ready
          /\ c <= MaxCap
          /\ cap' = c
          /\ queue' = Purged(SubSeq(queue, n + 1, Len(queue)), gone)
          /\ waited' = Without(waited, batch \cup gone)
          /\ tickets' = [u \in Users |-> IF u \in batch THEN TicketValidity
                                         ELSE IF u \in stale THEN None
                                         ELSE tickets[u]]
          /\ tokens' = TokensWithout(gone \cup stale)
          /\ userTokens' = Without(userTokens, gone \cup stale)
          /\ UNCHANGED <<ready, registry, polling>>
  BY DEF Cycle
<1> DEFINE n     == BatchLength(UpdatedCap(lag))
           batch == BatchOf(n)
           gone  == SweptWaiters(batch)
           stale == SweptTickets(batch)
           rest  == SubSeq(queue, n + 1, Len(queue))
<1>1. /\ cap' = UpdatedCap(lag) /\ UpdatedCap(lag) <= MaxCap
      /\ queue' = Purged(rest, gone)
      /\ waited' = Without(waited, batch \cup gone)
      /\ tickets' = [u \in Users |-> IF u \in batch THEN TicketValidity
                                     ELSE IF u \in stale THEN None
                                     ELSE tickets[u]]
      /\ tokens' = TokensWithout(gone \cup stale)
      /\ userTokens' = Without(userTokens, gone \cup stale)
      /\ UNCHANGED <<ready, registry, polling>>
  OBVIOUS
<1>2. /\ Waiting \cap Ticketed = {} /\ Range(queue) = Waiting
      /\ queue \in Seq(Users)
      /\ \A i, j \in DOMAIN queue : queue[i] = queue[j] => i = j
  BY DEF IInv, TypeOK, QueueMatchesTimes, TokensMatchPlaces
<1>3. cap \in Nat /\ cap' \in InitialCap .. MaxCap
  <2>1. cap \in Nat /\ InitialCap <= cap /\ InitialCap \in Nat /\ BatchSize \in Nat
        /\ MaxCap \in Nat
    BY SizesAssumption DEF IInv, TypeOK
  <2>2. cap \div 2 \in Nat
    BY <2>1
  <2>3. UpdatedCap(lag) \in Nat /\ InitialCap <= UpdatedCap(lag)
    BY <2>1, <2>2 DEF UpdatedCap, Most
  <2> QED
    BY <1>1, <2>1, <2>3
<1>4. /\ n \in 0 .. Len(queue)
      /\ n # 0 => n <= cap' - Cardinality(Connected) - Cardinality(Ticketed)
  <2>1. /\ IsFiniteSet(Connected) /\ IsFiniteSet(Ticketed)
    BY UsersAssumption, FS_Subset DEF Connected, Ticketed
  <2>2. Cardinality(Connected) \in Nat /\ Cardinality(Ticketed) \in Nat
    BY <2>1, FS_CardinalityType
  <2>3. UpdatedCap(lag) \in Int /\ Len(queue) \in Nat
    BY <1>1, <1>2, <1>3, SizesAssumption
  <2> QED
    BY <1>1, <2>2, <2>3 DEF BatchLength, Most, Least
<1>5. /\ rest \in Seq(Users)
      /\ \A i, j \in DOMAIN rest : rest[i] = rest[j] => i = j
      /\ Range(rest) = Waiting \ batch
  <2>. HIDE DEF n
  <2> QED
    BY <1>2, <1>4, TailProperties DEF BatchOf
<1>. HIDE DEF n, rest
<1>6. /\ queue' \in Seq(Users)
      /\ \A i, j \in DOMAIN queue' : queue'[i] = queue'[j] => i = j
      /\ Range(queue') = (Waiting \ batch) \ gone
  <2>. HIDE DEF gone, batch
  <2> QED
    BY <1>1, <1>5, PurgedProperties
<1>7. /\ batch \subseteq Waiting /\ gone \subseteq Waiting \ batch
      /\ stale \subseteq Ticketed /\ Waiting \subseteq Users
      /\ Ticketed \subseteq Users
  <2>1. batch \subseteq Range(queue)
    <3>1. \A i \in 1 .. n : i \in DOMAIN queue
      BY <1>2, <1>4
    <3> QED
      BY <3>1 DEF BatchOf, Range
  <2> QED
    BY <1>2, <2>1 DEF SweptWaiters, SweptTickets, Waiting, Ticketed
<1> QED
  <2>1. gone = SweptWaiters(BatchOf(n)) /\ stale = SweptTickets(BatchOf(n))
    OBVIOUS
  <2>2. CycleStep(n, gone, stale)
    <3>. HIDE DEF gone, stale
    <3> QED
      BY <1>1, <1>3, <1>4, <1>5, <1>7, <2>1 DEF CycleStep, rest
  <2> QED
    BY <2>2

LEMMA CyclePlaces ==
  ASSUME IInv, NEW n, NEW gone, NEW stale, CycleStep(n, gone, stale)
  PROVE  /\ Waiting' = Waiting \ (BatchOf(n) \cup gone)
         /\ Ticketed' = (Ticketed \cup BatchOf(n)) \ stale
<1> DEFINE batch == BatchOf(n)
<1>1. /\ waited' = Without(waited, batch \cup gone)
      /\ tickets' = [u \in Users |-> IF u \in batch THEN TicketValidity
                                     ELSE IF u \in stale THEN None
                                     ELSE tickets[u]]
  BY DEF CycleStep
<1>2. Waiting \cap Ticketed = {}
  BY DEF IInv, TokensMatchPlaces
<1>7. batch \subseteq Waiting /\ stale \subseteq Ticketed /\ Waiting \subseteq Users
  BY DEF CycleStep, Waiting
<1>. HIDE DEF batch
<1>9. Waiting' = Waiting \ (batch \cup gone)
  BY <1>1 DEF Waiting, Without
<1>10. Ticketed' = (Ticketed \cup batch) \ stale
  <2>1. TicketValidity # None
    BY SizesAssumption, NoneAssumption
  <2> QED
    BY <1>1, <1>2, <1>7, <2>1 DEF Ticketed
<1> QED
  BY <1>9, <1>10 DEF batch

(* The cycle: the batch leaves the head of the deque, the swept users      *)
(* leave the rest of it, and the tokens of the swept users and of the      *)
(* expired tickets go.                                                     *)
LEMMA CycleKeepsIInv == IInv /\ Cycle => IInv'
<1> SUFFICES ASSUME IInv, Cycle PROVE IInv'
  OBVIOUS
<1> PICK n, gone, stale : CycleStep(n, gone, stale)
  BY CycleFacts
<1> DEFINE batch == BatchOf(n)
           rest  == SubSeq(queue, n + 1, Len(queue))
<1>1. /\ queue' = Purged(rest, gone)
      /\ waited' = Without(waited, batch \cup gone)
      /\ tickets' = [u \in Users |-> IF u \in batch THEN TicketValidity
                                     ELSE IF u \in stale THEN None
                                     ELSE tickets[u]]
      /\ tokens' = TokensWithout(gone \cup stale)
      /\ userTokens' = Without(userTokens, gone \cup stale)
      /\ UNCHANGED <<ready, registry, polling>>
  BY DEF CycleStep
<1>2. Waiting \cap Ticketed = {}
  BY DEF IInv, TokensMatchPlaces
<1>3. cap' \in InitialCap .. MaxCap
  BY DEF CycleStep
<1>5. /\ rest \in Seq(Users)
      /\ \A i, j \in DOMAIN rest : rest[i] = rest[j] => i = j
      /\ Range(rest) = Waiting \ batch
  BY DEF CycleStep
<1>. HIDE DEF rest, batch
<1>6. /\ queue' \in Seq(Users)
      /\ \A i, j \in DOMAIN queue' : queue'[i] = queue'[j] => i = j
      /\ Range(queue') = (Waiting \ batch) \ gone
  BY <1>1, <1>5, PurgedProperties
<1>7. /\ batch \subseteq Waiting /\ gone \subseteq Waiting \ batch
      /\ stale \subseteq Ticketed /\ Waiting \subseteq Users
      /\ Ticketed \subseteq Users
  BY DEF CycleStep, Waiting, Ticketed, batch
<1>8. /\ TokensWithout(gone \cup stale) \in [Tokens -> Users \cup {None}]
      /\ Without(userTokens, gone \cup stale) \in [Users -> Tokens \cup {None}]
      /\ \A v \in Users, k \in Tokens :
           Without(userTokens, gone \cup stale)[v] = k
             <=> TokensWithout(gone \cup stale)[k] = v
      /\ \A v \in Users :
           Without(userTokens, gone \cup stale)[v] # None
             <=> v \in (Waiting \cup Ticketed) \ (gone \cup stale)
  <2>1. gone \cup stale \in SUBSET Users
    BY <1>7
  <2> QED
    BY <2>1, DroppedTokens DEF IInv
<1>9. Waiting' = Waiting \ (batch \cup gone) /\ Ticketed' = (Ticketed \cup batch) \ stale
  BY CyclePlaces DEF batch
<1>11. TypeOK'
  <2>1. waited' \in [Users -> (0 .. QueueTimeout + 1) \cup {None}]
    BY <1>1 DEF IInv, TypeOK, Without
  <2>2. tickets' \in [Users -> (-1 .. TicketValidity) \cup {None}]
    BY <1>1, SizesAssumption DEF IInv, TypeOK
  <2> QED
    BY <1>1, <1>3, <1>6, <1>8, <2>1, <2>2 DEF IInv, TypeOK
<1>12. QueueMatchesTimes'
  <2>1. Range(queue)' = Waiting'
    BY <1>6, <1>9 DEF Range
  <2> QED
    BY <1>6, <2>1 DEF QueueMatchesTimes
<1>13. TokensMatchPlaces'
  <2>1. Waiting' \cup Ticketed' = (Waiting \cup Ticketed) \ (gone \cup stale)
    BY <1>2, <1>7, <1>9
  <2>2. Waiting' \cap Ticketed' = {}
    BY <1>2, <1>9
  <2>3. /\ tokens' = TokensWithout(gone \cup stale)
        /\ userTokens' = Without(userTokens, gone \cup stale)
    BY <1>1
  <2>4. \A v \in Users, k \in Tokens : userTokens'[v] = k <=> tokens'[k] = v
    BY ONLY <1>8, <2>3, ZenonT(60)
  <2>5. \A v \in Users : userTokens'[v] # None <=> v \in Waiting' \cup Ticketed'
    BY ONLY <1>8, <2>1, <2>3, ZenonT(60)
  <2> QED
    BY <2>2, <2>4, <2>5 DEF TokensMatchPlaces
<1> QED
  BY <1>11, <1>12, <1>13 DEF IInv

-----------------------------------------------------------------------------
(* Every step of the server, of a browser or of the clock keeps the        *)
(* dictionaries, the deque and the tokens consistent.                      *)
THEOREM StepIInv == IInv /\ [Next]_vars => IInv'
<1> SUFFICES ASSUME IInv, [Next]_vars PROVE IInv'
  OBVIOUS
<1>1. CASE Start
  BY <1>1, StartKeepsIInv
<1>2. CASE Cycle
  BY <1>2, CycleKeepsIInv
<1>3. CASE Tick
  BY <1>3, TickKeepsIInv
<1>4. CASE Clear
  BY <1>4, ForgetKeepsIInv DEF IInv, TypeOK, Clear
<1>5. CASE Restart
  <2>1. [u \in Users |-> 0] \in [Users -> 0 .. MaxClients]
    BY SizesAssumption
  <2> QED
    BY <1>5, <2>1, ForgetKeepsIInv DEF IInv, TypeOK, Restart
<1>6. ASSUME NEW u \in Users, Visit(u) PROVE IInv'
  BY <1>6, VisitUngatedKeepsIInv, VisitAdmittedKeepsIInv, VisitQueuedKeepsIInv
     DEF Visit
<1>7. ASSUME NEW u \in Users, CloseClient(u) \/ DisconnectUser(u) PROVE IInv'
  BY <1>7, RegistryKeepsIInv
<1>8. ASSUME NEW t \in Tokens, PollAnswered(t) PROVE IInv'
  BY <1>8, PollAnsweredKeepsIInv
<1>9. ASSUME NEW t \in Tokens, CloseQueuePage(t) PROVE IInv'
  BY <1>9, CloseQueuePageKeepsIInv
<1>10. CASE UNCHANGED vars
  BY <1>10, PlacesUntouched DEF IInv, TypeOK, vars
<1> QED
  BY <1>1, <1>2, <1>3, <1>4, <1>5, <1>6, <1>7, <1>8, <1>9, <1>10 DEF Next

(* The strengthened invariant holds in every reachable state.              *)
THEOREM Consistent == Spec => []IInv
<1> QED
  BY InitIInv, StepIInv, PTL DEF Spec

(* Every variable keeps its type: in particular the cap never falls below  *)
(* the initial cap, for every batch size and every sequence of lags.       *)
THEOREM TypeCorrect == Spec => []TypeOK
<1>1. IInv => TypeOK
  BY DEF IInv
<1> QED
  BY <1>1, Consistent, PTL

(* The deque and the enqueue times never disagree, whatever the users do:  *)
(* the desync branch of get_queue_status is dead code.                     *)
THEOREM QueueNeverDesynced == Spec => []QueueMatchesTimes
<1>1. IInv => QueueMatchesTimes
  BY DEF IInv
<1> QED
  BY <1>1, Consistent, PTL

(* The token dictionaries are inverse and cover exactly the users who wait *)
(* or hold a ticket: no stale token, no leak, no token of somebody else.   *)
THEOREM TokensNeverStale == Spec => []TokensMatchPlaces
<1>1. IInv => TokensMatchPlaces
  BY DEF IInv
<1> QED
  BY <1>1, Consistent, PTL

(* The whole waiting room stays consistent, for every set of users: the    *)
(* types, the deque and the token dictionaries together.                   *)
THEOREM BooksNeverDisagree == Spec => []BooksAgree
<1>1. IInv => BooksAgree
  BY DEF IInv, BooksAgree
<1> QED
  BY <1>1, Consistent, PTL

-----------------------------------------------------------------------------
(* What a step does to the order of the queue and to the tickets.  Every   *)
(* step but the cycle and the resets leaves the waiting users as they are, *)
(* or lets one join behind them, and grants no ticket.                     *)

StaysInLine == queue' = queue /\ Waiting' = Waiting /\ Ticketed' \subseteq Ticketed

Joins(u) ==
  /\ u \notin Waiting
  /\ queue' = Append(queue, u)
  /\ Waiting' = Waiting \cup {u}
  /\ Ticketed' \subseteq Ticketed

TicketsHonoured ==
  \A u \in Users : HasValidTicket(u) /\ tickets'[u] = None => u \in Connected'

OrderlyStep == (StaysInLine \/ \E u \in Users : Joins(u)) /\ TicketsHonoured

LEMMA UntouchedIsOrderly ==
  ASSUME UNCHANGED <<queue, waited, tickets>>
  PROVE  OrderlyStep
<1>1. StaysInLine
  BY DEF StaysInLine, Waiting, Ticketed
<1>2. TicketsHonoured
  BY DEF TicketsHonoured, HasValidTicket
<1> QED
  BY <1>1, <1>2 DEF OrderlyStep

LEMMA VisitAdmittedIsOrderly ==
  ASSUME IInv, NEW u \in Users, VisitAdmitted(u)
  PROVE  OrderlyStep
<1>1. /\ queue' = queue /\ waited' = waited
      /\ tickets' = Without(tickets, TryEnterDrops(u))
      /\ registry' = [registry EXCEPT ![u] = @ + 1]
  BY DEF VisitAdmitted, Register
<1>2. StaysInLine
  BY <1>1 DEF StaysInLine, Waiting, Ticketed, Without
<1>3. u \in Connected'
  BY <1>1, SizesAssumption DEF IInv, TypeOK, Connected
<1>4. TicketsHonoured
  BY <1>1, <1>3 DEF TicketsHonoured, HasValidTicket, Without, TryEnterDrops
<1> QED
  BY <1>2, <1>4 DEF OrderlyStep

(* Who is sent to the queue page joins at the back unless they wait        *)
(* already, and loses the ticket, if any, that had expired.                *)
LEMMA VisitQueuedPlaces ==
  ASSUME IInv, NEW u \in Users, VisitQueued(u)
  PROVE  /\ u \in Waiting => queue' = queue /\ waited' = waited
         /\ u \notin Waiting => /\ queue' = Append(queue, u)
                                /\ waited' = [waited EXCEPT ![u] = 0]
         /\ \A v \in Users \ {u} : tickets'[v] = tickets[v]
         /\ Ticketed' = Ticketed \ {u}
<1> DEFINE S     == TryEnterDrops(u)
           tks   == Without(tickets, S)
           utoks == Without(userTokens, S)
<1>1. /\ \A v \in Users : userTokens[v] # None <=> v \in Waiting \cup Ticketed
      /\ Waiting \cap Ticketed = {}
      /\ waited \in [Users -> (0 .. QueueTimeout + 1) \cup {None}]
      /\ S = {u} \cap Ticketed
  BY DEF IInv, TypeOK, TokensMatchPlaces, TryEnterDrops
<1>2. Enqueue(u, tks, TokensWithout(S), utoks)
  BY DEF VisitQueued
<1>3. /\ tks = [v \in Users |-> IF v \in S THEN None ELSE tickets[v]]
      /\ tks[u] = None
      /\ utoks[u] = IF u \in S THEN None ELSE userTokens[u]
  BY <1>1 DEF Without, Ticketed
<1>. HIDE DEF tks, utoks, S
<1>4. tickets' = tks \/ tickets' = [tks EXCEPT ![u] = None]
  BY <1>2, SMTT(20) DEF Enqueue, Placed
<1>5. tickets'[u] = None /\ \A v \in Users \ {u} : tickets'[v] = tickets[v]
  BY <1>1, <1>3, <1>4
<1>6. Ticketed' = Ticketed \ {u}
  BY <1>5 DEF Ticketed
<1>7. ASSUME u \in Waiting PROVE UNCHANGED <<queue, waited>>
  <2>1. utoks[u] # None /\ waited[u] # None
    BY <1>1, <1>3, <1>7 DEF Waiting
  <2> QED
    BY <1>2, <2>1 DEF Enqueue, Placed
<1>8. ASSUME u \notin Waiting
      PROVE  queue' = Append(queue, u) /\ waited' = [waited EXCEPT ![u] = 0]
  <2>1. utoks[u] = None
    BY <1>1, <1>3, <1>8
  <2> QED
    BY <1>2, <2>1 DEF Enqueue, Placed
<1> QED
  BY <1>5, <1>6, <1>7, <1>8

(* Who is sent to the queue page held no valid ticket, and joins at the    *)
(* back unless they wait already.                                          *)
LEMMA VisitQueuedIsOrderly ==
  ASSUME IInv, NEW u \in Users, VisitQueued(u)
  PROVE  OrderlyStep
<1>1. TicketsHonoured
  <2>1. ~HasValidTicket(u) /\ \A v \in Users \ {u} : tickets'[v] = tickets[v]
    BY VisitQueuedPlaces DEF VisitQueued, PassesGate
  <2> QED
    BY <2>1 DEF TicketsHonoured, HasValidTicket
<1>2. Ticketed' \subseteq Ticketed
  BY VisitQueuedPlaces
<1>3. CASE u \in Waiting
  BY <1>1, <1>2, <1>3, VisitQueuedPlaces DEF OrderlyStep, StaysInLine, Waiting
<1>4. CASE u \notin Waiting
  <2>1. queue' = Append(queue, u) /\ waited' = [waited EXCEPT ![u] = 0]
    BY <1>4, VisitQueuedPlaces
  <2>2. waited \in [Users -> (0 .. QueueTimeout + 1) \cup {None}]
    BY DEF IInv, TypeOK
  <2>3. Waiting' = Waiting \cup {u}
    BY <2>1, <2>2, NoneAssumption DEF Waiting
  <2>4. Joins(u)
    BY <1>2, <1>4, <2>1, <2>3 DEF Joins
  <2> QED
    BY <1>1, <2>4 DEF OrderlyStep
<1> QED
  BY <1>3, <1>4

LEMMA PollAnsweredIsOrderly ==
  ASSUME IInv, NEW t \in Tokens, PollAnswered(t)
  PROVE  OrderlyStep
<1>1. /\ queue' = queue /\ waited' = waited
      /\ tickets' = Without(tickets, StatusDrops(t))
  <2>1. Without(waited, {}) = waited
    BY DEF IInv, TypeOK, Without
  <2> QED
    BY <2>1, NoDesync DEF PollAnswered
<1>2. StaysInLine
  BY <1>1 DEF StaysInLine, Waiting, Ticketed, Without
<1>3. \A u \in StatusDrops(t) : ~HasValidTicket(u)
  BY SizesAssumption DEF IInv, TypeOK, StatusDrops, HasExpiredTicket, HasValidTicket
<1>4. TicketsHonoured
  BY <1>1, <1>3 DEF TicketsHonoured, HasValidTicket, Without
<1> QED
  BY <1>2, <1>4 DEF OrderlyStep

LEMMA TickIsOrderly ==
  ASSUME IInv, Tick
  PROVE  OrderlyStep
<1>1. StaysInLine
  BY TickKeepsPlaces DEF StaysInLine, Tick
<1>2. TicketsHonoured
  BY TickKeepsPlaces DEF TicketsHonoured, HasValidTicket, Ticketed
<1> QED
  BY <1>1, <1>2 DEF OrderlyStep

LEMMA StepsAreOrderly ==
  ASSUME IInv, [Next]_vars
  PROVE  OrderlyStep \/ Cycle \/ Clear \/ Restart
<1>1. CASE Start
  BY <1>1, UntouchedIsOrderly DEF Start, roomVars
<1>2. CASE Tick
  BY <1>2, TickIsOrderly
<1>3. ASSUME NEW u \in Users, Visit(u) PROVE OrderlyStep
  <2>1. CASE VisitUngated(u)
    BY <2>1, UntouchedIsOrderly DEF VisitUngated, roomVars
  <2> QED
    BY <1>3, <2>1, VisitAdmittedIsOrderly, VisitQueuedIsOrderly DEF Visit
<1>4. ASSUME NEW u \in Users, CloseClient(u) \/ DisconnectUser(u) PROVE OrderlyStep
  BY <1>4, UntouchedIsOrderly DEF CloseClient, DisconnectUser, roomVars
<1>5. ASSUME NEW t \in Tokens, PollAnswered(t) PROVE OrderlyStep
  BY <1>5, PollAnsweredIsOrderly
<1>6. ASSUME NEW t \in Tokens, CloseQueuePage(t) PROVE OrderlyStep
  BY <1>6, UntouchedIsOrderly DEF CloseQueuePage, roomVars
<1>7. CASE UNCHANGED vars
  BY <1>7, UntouchedIsOrderly DEF vars
<1> QED
  BY <1>1, <1>2, <1>3, <1>4, <1>5, <1>6, <1>7 DEF Next

-----------------------------------------------------------------------------
(* Positions in the deque.                                                 *)

LEMMA PositionOf ==
  ASSUME NEW T, NEW q \in Seq(T), NEW i \in DOMAIN q,
         \A j, k \in DOMAIN q : q[j] = q[k] => j = k
  PROVE  Position(q[i], q) = i
BY DEF Position

LEMMA PositionExists ==
  ASSUME NEW T, NEW q \in Seq(T), NEW x \in Range(q)
  PROVE  Position(x, q) \in DOMAIN q /\ q[Position(x, q)] = x
BY DEF Position, Range

LEMMA PositionInTail ==
  ASSUME NEW T, NEW q \in Seq(T), NEW n \in 0 .. Len(q),
         NEW x \in Range(SubSeq(q, n + 1, Len(q))),
         \A j, k \in DOMAIN q : q[j] = q[k] => j = k
  PROVE  Position(x, q) > n
<1> DEFINE s == SubSeq(q, n + 1, Len(q))
           i == Position(x, s)
<1>1. /\ s \in Seq(T)
      /\ \A k \in DOMAIN s : n + k \in DOMAIN q /\ s[k] = q[n + k]
  BY TailProperties
<1>. HIDE DEF s
<1>2. i \in DOMAIN s /\ s[i] = x
  BY <1>1, PositionExists DEF s
<1>3. n + i \in DOMAIN q /\ q[n + i] = x
  BY <1>1, <1>2
<1>4. Position(x, q) = n + i
  BY <1>3, PositionOf
<1>5. i \in Nat /\ i > 0 /\ n \in Nat
  BY <1>1, <1>2
<1>. HIDE DEF i
<1>6. n + i > n
  BY <1>5
<1> QED
  BY <1>4, <1>6 DEF i, s

LEMMA PositionAppended ==
  ASSUME NEW T, NEW q \in Seq(T), NEW x \in Range(q), NEW y \in T,
         y \notin Range(q),
         \A j, k \in DOMAIN q : q[j] = q[k] => j = k
  PROVE  Position(x, Append(q, y)) = Position(x, q)
<1> DEFINE i == Position(x, q)
           s == Append(q, y)
<1>1. i \in DOMAIN q /\ q[i] = x
  BY PositionExists
<1>2. /\ s \in Seq(T)
      /\ \A j, k \in DOMAIN s : s[j] = s[k] => j = k
  BY AppendedProperties
<1>3. i \in DOMAIN s /\ s[i] = x
  BY <1>1
<1>. HIDE DEF s, i
<1>4. Position(s[i], s) = i
  BY <1>2, <1>3, PositionOf
<1> QED
  BY <1>3, <1>4 DEF s, i

-----------------------------------------------------------------------------
(* First in, first out                                                     *)

FifoStep ==
  \A u \in Waiting \cap Waiting' :
    /\ \A v \in Waiting \cap Waiting' :
         Position(u, queue) < Position(v, queue)
           => Position(u, queue)' < Position(v, queue)'
    /\ \A v \in Waiting' \ Waiting :
         Position(u, queue)' < Position(v, queue)' \/ HasExpiredTicket(v)
    /\ \A v \in Waiting \cap Ticketed' :
         Position(v, queue) < Position(u, queue)

LEMMA PlaceInLine ==
  ASSUME IInv, NEW u \in Waiting
  PROVE  Position(u, queue) \in Nat
<1>1. queue \in Seq(Users) /\ u \in Range(queue)
  BY DEF IInv, TypeOK, QueueMatchesTimes
<1>2. Position(u, queue) \in DOMAIN queue
  BY <1>1, PositionExists
<1> QED
  BY <1>1, <1>2

LEMMA OrderlyIsFifo == ASSUME IInv, OrderlyStep PROVE FifoStep
<1>1. /\ queue \in Seq(Users) /\ Range(queue) = Waiting
      /\ \A i, j \in DOMAIN queue : queue[i] = queue[j] => i = j
      /\ Waiting \cap Ticketed = {}
  BY DEF IInv, TypeOK, QueueMatchesTimes, TokensMatchPlaces
<1>2. Waiting \cap Ticketed' = {}
  BY <1>1 DEF OrderlyStep, StaysInLine, Joins
<1>3. \A u : Position(u, queue)' = Position(u, queue')
  BY DEF Position
<1>4. CASE StaysInLine
  BY <1>2, <1>3, <1>4 DEF StaysInLine, FifoStep
<1>5. CASE \E w \in Users : Joins(w)
  <2> PICK w \in Users : Joins(w)
    BY <1>5
  <2>1. /\ queue' = Append(queue, w) /\ w \notin Range(queue)
        /\ Waiting' = Waiting \cup {w}
    BY <1>1 DEF Joins
  <2>2. \A u \in Waiting : Position(u, queue') = Position(u, queue)
    BY <1>1, <2>1, PositionAppended
  <2>3. Position(w, queue') = Len(queue) + 1
    <3>1. /\ queue' \in Seq(Users)
          /\ \A i, j \in DOMAIN queue' : queue'[i] = queue'[j] => i = j
      BY <1>1, <2>1, AppendedProperties
    <3>2. Len(queue) + 1 \in DOMAIN queue' /\ queue'[Len(queue) + 1] = w
      BY <1>1, <2>1
    <3> QED
      BY <3>1, <3>2, PositionOf
  <2>4. ASSUME NEW u \in Waiting PROVE Position(u, queue') < Position(w, queue')
    <3>1. Position(u, queue) \in 1 .. Len(queue)
      BY <1>1, PositionExists
    <3> QED
      BY <1>1, <2>2, <2>3, <3>1
  <2> QED
    BY <1>2, <1>3, <2>1, <2>2, <2>4 DEF FifoStep
<1> QED
  BY <1>4, <1>5 DEF OrderlyStep

(* What is left of the deque is in the order it was in.                    *)
LEMMA PurgedKeepsOrder ==
  ASSUME NEW T, NEW q \in Seq(T), NEW n \in 0 .. Len(q), NEW S,
         \A j, k \in DOMAIN q : q[j] = q[k] => j = k,
         NEW x \in Range(SubSeq(q, n + 1, Len(q))) \ S,
         NEW y \in Range(SubSeq(q, n + 1, Len(q))) \ S,
         Position(x, q) < Position(y, q)
  PROVE  LET p == Purged(SubSeq(q, n + 1, Len(q)), S)
         IN  Position(x, p) < Position(y, p)
<1> DEFINE s == SubSeq(q, n + 1, Len(q))
           p == Purged(s, S)
<1>1. /\ s \in Seq(T)
      /\ \A k \in DOMAIN s : n + k \in DOMAIN q /\ s[k] = q[n + k]
      /\ \A j, k \in DOMAIN s : s[j] = s[k] => j = k
  BY TailProperties
<1>2. x \in Range(s) \ S /\ y \in Range(s) \ S
  OBVIOUS
<1>. HIDE DEF s
<1>3. p \in Seq(T) /\ Range(p) = Range(s) \ S
  BY <1>1, PurgedProperties
<1>4. PICK at \in [DOMAIN p -> DOMAIN s] :
        /\ \A i \in DOMAIN p : p[i] = s[at[i]]
        /\ \A i, j \in DOMAIN p : i < j => at[i] < at[j]
  BY <1>1, PurgedInOrder
<1>. HIDE DEF p
<1> DEFINE i == Position(x, p)
           j == Position(y, p)
<1>5. i \in DOMAIN p /\ p[i] = x /\ j \in DOMAIN p /\ p[j] = y
  BY <1>2, <1>3, PositionExists
<1>. HIDE DEF i, j
<1>6. /\ at[i] \in DOMAIN s /\ at[j] \in DOMAIN s
      /\ q[n + at[i]] = x /\ q[n + at[j]] = y
      /\ n + at[i] \in DOMAIN q /\ n + at[j] \in DOMAIN q
  BY <1>1, <1>4, <1>5
<1>7. Position(x, q) = n + at[i] /\ Position(y, q) = n + at[j]
  BY <1>6, PositionOf
<1>8. /\ n \in Nat /\ at[i] \in Nat /\ at[j] \in Nat
      /\ i \in Nat /\ j \in Nat
  BY <1>1, <1>3, <1>5, <1>6
<1>9. at[i] < at[j]
  BY <1>7, <1>8
<1>10. ~(j < i) /\ i # j
  BY <1>4, <1>5, <1>8, <1>9
<1>11. i < j
  BY <1>8, <1>10
<1> QED
  BY <1>11 DEF i, j, p, s

LEMMA CycleIsFifo == ASSUME IInv, Cycle PROVE FifoStep
<1> PICK n, gone, stale : CycleStep(n, gone, stale)
  BY CycleFacts
<1> DEFINE batch == BatchOf(n)
           rest  == SubSeq(queue, n + 1, Len(queue))
<1>1. /\ queue \in Seq(Users) /\ Range(queue) = Waiting
      /\ \A i, j \in DOMAIN queue : queue[i] = queue[j] => i = j
      /\ Waiting \cap Ticketed = {}
  BY DEF IInv, TypeOK, QueueMatchesTimes, TokensMatchPlaces
<1>2. /\ n \in 0 .. Len(queue)
      /\ rest \in Seq(Users)
      /\ \A i, j \in DOMAIN rest : rest[i] = rest[j] => i = j
      /\ Range(rest) = Waiting \ batch
      /\ queue' = Purged(rest, gone)
  BY DEF CycleStep
<1>3. /\ Waiting' = Waiting \ (batch \cup gone)
      /\ Ticketed' = (Ticketed \cup batch) \ stale
  BY CyclePlaces
<1>. HIDE DEF batch
<1>4. ASSUME NEW v \in Waiting \cap Waiting' PROVE Position(v, queue) > n
  <2>1. v \in Range(rest) \ gone
    BY <1>2, <1>3, <1>4
  <2> QED
    BY <1>1, <1>2, <2>1, PositionInTail
<1>5. ASSUME NEW u \in Waiting \cap Ticketed' PROVE Position(u, queue) <= n
  <2>1. u \in batch
    BY <1>1, <1>3, <1>5
  <2>2. PICK i \in 1 .. n : u = queue[i]
    BY <2>1 DEF batch, BatchOf
  <2>3. i \in DOMAIN queue
    BY <1>1, <1>2
  <2>4. Position(u, queue) = i
    BY <1>1, <2>2, <2>3, PositionOf
  <2> QED
    BY <2>4
<1>6. ASSUME NEW u \in Waiting \cap Ticketed', NEW v \in Waiting \cap Waiting'
      PROVE  Position(u, queue) < Position(v, queue)
  <2>1. Position(u, queue) \in Nat /\ Position(v, queue) \in Nat /\ n \in Nat
    BY <1>1, <1>2, PlaceInLine
  <2> QED
    BY <1>4, <1>5, <2>1
<1>7. ASSUME NEW u \in Waiting \cap Waiting', NEW v \in Waiting \cap Waiting',
             Position(u, queue) < Position(v, queue)
      PROVE  Position(u, queue') < Position(v, queue')
  <2>1. u \in Range(rest) \ gone /\ v \in Range(rest) \ gone
    BY <1>2, <1>3
  <2> QED
    BY <1>1, <1>2, <1>7, <2>1, PurgedKeepsOrder
<1>8. \A u : Position(u, queue)' = Position(u, queue')
  BY DEF Position
<1>9. Waiting' \ Waiting = {}
  BY <1>3
<1> QED
  BY <1>6, <1>7, <1>8, <1>9 DEF FifoStep

LEMMA ResetPlaces ==
  ASSUME Clear \/ Restart
  PROVE  Waiting' = {} /\ Ticketed' = {}
BY DEF Clear, Restart, Forget, NoEntries, Waiting, Ticketed

(* First in, first out, for every number of users: no step of any handler, *)
(* sweep or cycle lets a waiting user overtake another or puts anybody in  *)
(* front who did not come back with an expired ticket, and admit_batch     *)
(* gives tickets to those ahead of everybody left waiting.                 *)
THEOREM QueueIsFair == Spec => FirstInFirstOut
<1>1. IInv /\ [Next]_vars => FifoStep
  <2> SUFFICES ASSUME IInv, [Next]_vars PROVE FifoStep
    OBVIOUS
  <2>1. CASE Clear \/ Restart
    BY <2>1, ResetPlaces DEF FifoStep
  <2> QED
    BY <2>1, StepsAreOrderly, OrderlyIsFifo, CycleIsFifo
<1>2. IInv /\ [Next]_vars => [FifoStep]_vars
  BY <1>1
<1>3. [][FifoStep]_vars <=> FirstInFirstOut
  BY DEF FifoStep, FirstInFirstOut
<1> QED
  BY <1>2, <1>3, Consistent, PTL DEF Spec

-----------------------------------------------------------------------------
(* What a user was given is not taken away                                 *)

ClaimStep(u) ==
  /\ waited[u] # None /\ waited[u] <= QueueTimeout /\ waited'[u] = None
       => tickets'[u] # None \/ Clear \/ Restart
  /\ HasValidTicket(u) /\ tickets'[u] = None
       => u \in Connected' \/ Clear \/ Restart

LEMMA OrderlyKeepsClaims ==
  ASSUME OrderlyStep, NEW u \in Users
  PROVE  ClaimStep(u)
<1>1. Waiting \subseteq Waiting'
  BY DEF OrderlyStep, StaysInLine, Joins
<1>2. waited[u] # None => waited'[u] # None
  BY <1>1 DEF Waiting
<1>3. HasValidTicket(u) /\ tickets'[u] = None => u \in Connected'
  BY DEF OrderlyStep, TicketsHonoured
<1> QED
  BY <1>2, <1>3 DEF ClaimStep

(* The cycle takes a place only from those it gives a ticket and from      *)
(* those who waited too long, and sweeps no ticket that is still valid.    *)
LEMMA CycleKeepsClaims ==
  ASSUME IInv, Cycle, NEW u \in Users
  PROVE  ClaimStep(u)
<1> PICK n, gone, stale : CycleStep(n, gone, stale)
  BY CycleFacts
<1> DEFINE batch == BatchOf(n)
<1>1. /\ waited' = Without(waited, batch \cup gone)
      /\ tickets' = [v \in Users |-> IF v \in batch THEN TicketValidity
                                     ELSE IF v \in stale THEN None
                                     ELSE tickets[v]]
      /\ gone = SweptWaiters(batch) /\ stale = SweptTickets(batch)
  BY DEF CycleStep
<1>. HIDE DEF batch
<1>2. TicketValidity # None
  BY SizesAssumption, NoneAssumption
<1>3. waited[u] # None => waited[u] \in Nat /\ QueueTimeout \in Nat
  BY SizesAssumption DEF IInv, TypeOK
<1>4. tickets[u] # None => tickets[u] \in Int
  BY SizesAssumption DEF IInv, TypeOK
<1>5. waited[u] # None /\ waited[u] <= QueueTimeout => u \notin gone
  BY <1>1, <1>3 DEF SweptWaiters
<1>6. HasValidTicket(u) => u \notin stale
  BY <1>1, <1>4 DEF SweptTickets, HasExpiredTicket, HasValidTicket
<1>7. tickets'[u] = None => u \notin batch
  BY <1>1, <1>2
<1>8. waited'[u] = None => waited[u] = None \/ u \in batch \/ u \in gone
  BY <1>1 DEF Without
<1>9. u \notin batch /\ u \notin stale => tickets'[u] = tickets[u]
  BY <1>1
<1> QED
  BY <1>5, <1>6, <1>7, <1>8, <1>9 DEF ClaimStep, HasValidTicket

(* A place in the queue is lost only to a ticket or the timeout, and a     *)
(* valid ticket only by being let in, for every number of users and pages, *)
(* whatever loads, polls, sweeps, kicks and departures come in between.    *)
THEOREM ClaimsAreKept == Spec => ClaimsKept
<1> DEFINE Claims == \A u \in Users : ClaimStep(u)
<1>1. IInv /\ [Next]_vars => Claims
  <2> SUFFICES ASSUME IInv, [Next]_vars, NEW u \in Users PROVE ClaimStep(u)
    OBVIOUS
  <2>1. CASE Clear \/ Restart
    BY <2>1 DEF ClaimStep
  <2> QED
    BY <2>1, StepsAreOrderly, OrderlyKeepsClaims, CycleKeepsClaims
<1>2. IInv /\ [Next]_vars => [Claims]_vars
  BY <1>1
<1>3. [][Claims]_vars <=> ClaimsKept
  BY DEF ClaimStep, ClaimsKept
<1> QED
  BY <1>2, <1>3, Consistent, PTL DEF Spec

-----------------------------------------------------------------------------
(* Batches and the cap                                                     *)

BatchStep ==
  (\E u \in Ticketed' : u \notin Ticketed) =>
    Cardinality(Connected) + Cardinality(Ticketed \cup Ticketed') <= cap'

(* A batch has at most as many users as places were counted for it. *)
LEMMA BatchSizeBound ==
  ASSUME NEW T, NEW q \in Seq(T), NEW n \in 0 .. Len(q),
         \A i, j \in DOMAIN q : q[i] = q[j] => i = j,
         NEW batch, batch = {q[i] : i \in 1 .. n}
  PROVE  IsFiniteSet(batch) /\ Cardinality(batch) = n
<1> DEFINE f == [i \in 1 .. n |-> q[i]]
<1>1. n \in Nat /\ \A i \in 1 .. n : i \in DOMAIN q
  OBVIOUS
<1>2. f \in Bijection(1 .. n, batch)
  BY <1>1 DEF Bijection, Injection, IsInjective, Surjection
<1>3. IsFiniteSet(1 .. n) /\ Cardinality(1 .. n) = n
  BY <1>1, FS_Interval
<1>4. ExistsBijection(1 .. n, batch)
  BY <1>2 DEF ExistsBijection
<1>5. IsFiniteSet(batch) /\ Cardinality(batch) = Cardinality(1 .. n)
  BY <1>3, <1>4, FS_Bijection
<1> QED
  BY <1>3, <1>5

LEMMA CycleFitsCap == ASSUME IInv, Cycle PROVE BatchStep
<1> PICK n, gone, stale : CycleStep(n, gone, stale)
  BY CycleFacts
<1> DEFINE batch == BatchOf(n)
<1>1. /\ n \in 0 .. Len(queue) /\ cap' \in Int
      /\ n # 0 => n <= cap' - Cardinality(Connected) - Cardinality(Ticketed)
      /\ stale \subseteq Ticketed
  BY SizesAssumption DEF CycleStep
<1>2. Ticketed' = (Ticketed \cup batch) \ stale
  BY CyclePlaces
<1>3. IsFiniteSet(batch) /\ Cardinality(batch) = n
  <2>1. /\ queue \in Seq(Users)
        /\ \A i, j \in DOMAIN queue : queue[i] = queue[j] => i = j
    BY DEF IInv, TypeOK, QueueMatchesTimes
  <2>2. batch = {queue[i] : i \in 1 .. n}
    BY DEF BatchOf
  <2>. HIDE DEF batch
  <2> QED
    BY <1>1, <2>1, <2>2, BatchSizeBound
<1>4. /\ IsFiniteSet(Ticketed) /\ IsFiniteSet(Connected)
  BY UsersAssumption, FS_Subset DEF Connected, Ticketed
<1>. HIDE DEF batch
<1>5. Ticketed \cup Ticketed' = Ticketed \cup batch
  BY <1>1, <1>2
<1>6. Cardinality(Ticketed \cup batch) <= Cardinality(Ticketed) + n
  <2>1. Cardinality(Ticketed \cup batch)
          = Cardinality(Ticketed) + Cardinality(batch) - Cardinality(Ticketed \cap batch)
    BY <1>3, <1>4, FS_Union
  <2>2. Cardinality(Ticketed \cap batch) \in Nat /\ Cardinality(Ticketed) \in Nat
    <3>1. IsFiniteSet(Ticketed \cap batch)
      BY <1>4, FS_Intersection
    <3> QED
      BY <1>4, <3>1, FS_CardinalityType
  <2> QED
    BY <1>1, <1>3, <2>1, <2>2
<1>7. (\E u \in Ticketed' : u \notin Ticketed) => n # 0
  <2>1. n = 0 => batch = {}
    BY DEF batch, BatchOf
  <2> QED
    BY <1>2, <2>1
<1>8. /\ Cardinality(Connected) \in Nat /\ Cardinality(Ticketed) \in Nat
      /\ Cardinality(Ticketed \cup batch) \in Nat
  <2>1. IsFiniteSet(Ticketed \cup batch)
    BY <1>3, <1>4, FS_Union
  <2> QED
    BY <1>4, <2>1, FS_CardinalityType
<1>9. n # 0 => Cardinality(Connected) + Cardinality(Ticketed \cup batch) <= cap'
  BY <1>1, <1>6, <1>8
<1> QED
  BY <1>5, <1>7, <1>9 DEF BatchStep

(* A batch never promises more places than the cap has left, for every     *)
(* number of users, cap, batch size and sequence of event-loop lags.       *)
THEOREM BatchesFitCap == Spec => BatchFitsCap
<1>1. IInv /\ [Next]_vars => BatchStep
  <2> SUFFICES ASSUME IInv, [Next]_vars PROVE BatchStep
    OBVIOUS
  <2>1. CASE Clear \/ Restart
    BY <2>1, ResetPlaces DEF BatchStep
  <2>2. CASE OrderlyStep
    BY <2>2 DEF OrderlyStep, StaysInLine, Joins, BatchStep
  <2> QED
    BY <2>1, <2>2, StepsAreOrderly, CycleFitsCap
<1>2. IInv /\ [Next]_vars => [BatchStep]_vars
  BY <1>1
<1>3. [][BatchStep]_vars <=> BatchFitsCap
  BY DEF BatchStep, BatchFitsCap
<1> QED
  BY <1>2, <1>3, Consistent, PTL DEF Spec

-----------------------------------------------------------------------------
(* The admission gate implements TicketQueue: the waiting users are a line *)
(* and the tickets its holders', whichever tokens, pages and clocks stand  *)
(* behind them; a gate that is configured off never goes up.               *)

TQ == INSTANCE TicketQueue WITH
        gate <- ready /\ Enabled, line <- queue, holders <- Ticketed,
        inside <- Connected, LeastCap <- InitialCap

(* The instance counts as the module does. *)
LEMMA SameCount ==
  ASSUME NEW S
  PROVE  TQ!Cardinality(S) = Cardinality(S)
BY DEF TQ!Cardinality, Cardinality

(* With the gate down nobody waits and nobody holds a ticket. *)
NobodyAtClosedGate == ~(ready /\ Enabled) => queue = << >> /\ Ticketed = {}

(* It stays so by the shape of TicketQueue alone: only Join lengthens the  *)
(* line, and only Admit gives tickets, to users of the line.               *)
LEMMA ClosedGateStep ==
  ASSUME NobodyAtClosedGate, queue' \in Seq(Users), [TQ!Next]_(TQ!vars)
  PROVE  NobodyAtClosedGate'
<1>1. CASE UNCHANGED TQ!vars
  BY <1>1 DEF TQ!vars, NobodyAtClosedGate
<1>2. CASE TQ!Open
  BY <1>2 DEF TQ!Open, NobodyAtClosedGate
<1>3. CASE TQ!Reset
  BY <1>3 DEF TQ!Reset, NobodyAtClosedGate
<1>4. ASSUME NEW u \in Users, TQ!Enter(u) \/ TQ!Leave(u) \/ TQ!Lapse(u)
      PROVE  NobodyAtClosedGate'
  BY <1>4 DEF TQ!Enter, TQ!Leave, TQ!Lapse, NobodyAtClosedGate
<1>5. ASSUME NEW u \in Users, TQ!Join(u) PROVE NobodyAtClosedGate'
  BY <1>5 DEF TQ!Join, NobodyAtClosedGate
<1>6. ASSUME NEW n \in 0 .. Len(queue), TQ!Admit(n) PROVE NobodyAtClosedGate'
  <2>1. /\ (ready' /\ Enabled) <=> (ready /\ Enabled)
        /\ TQ!LeftOf(queue', n)
        /\ \E lapsed \in SUBSET Ticketed :
             Ticketed' = (Ticketed \ lapsed) \cup {queue[i] : i \in 1 .. n}
    BY <1>6 DEF TQ!Admit
  <2>2. CASE ready /\ Enabled
    BY <2>1, <2>2 DEF NobodyAtClosedGate
  <2>3. CASE ~(ready /\ Enabled)
    <3>1. queue = << >> /\ Ticketed = {} /\ n = 0
      BY <2>3 DEF NobodyAtClosedGate
    <3>2. DOMAIN queue' = {}
      BY <2>1, <3>1 DEF TQ!LeftOf
    <3>3. queue' = << >>
      BY <3>2
    <3>4. Ticketed' = {}
      BY <2>1, <3>1
    <3> QED
      BY <3>3, <3>4 DEF NobodyAtClosedGate
  <2> QED
    BY <2>2, <2>3
<1> QED
  BY <1>1, <1>2, <1>3, <1>4, <1>5, <1>6 DEF TQ!Next

(* A page load that passes: the first page of a user is the entry, and the *)
(* ticket is used up, valid or not; further pages change nothing.          *)
LEMMA VisitEnters ==
  ASSUME IInv, NobodyAtClosedGate, NEW u \in Users,
         VisitUngated(u) \/ VisitAdmitted(u)
  PROVE  TQ!Enter(u) \/ UNCHANGED TQ!vars
<1>1. /\ registry \in [Users -> Nat]
      /\ registry' = [registry EXCEPT ![u] = @ + 1]
      /\ UNCHANGED <<ready, cap, queue>>
  BY SizesAssumption
  DEF IInv, TypeOK, VisitUngated, VisitAdmitted, Register, roomVars
<1>2. Connected' = Connected \cup {u}
  BY <1>1 DEF Connected
<1>3. CASE u \in Connected
  <2>1. SkipsGate(u)
    BY <1>1, <1>3 DEF SkipsGate, Connected
  <2>2. tickets' = tickets
    BY <2>1 DEF VisitUngated, VisitAdmitted, roomVars
  <2> QED
    BY <1>1, <1>2, <1>3, <2>2 DEF TQ!vars, Ticketed
<1>4. CASE u \notin Connected
  <2>1. registry[u] = 0
    BY <1>1, <1>4 DEF Connected
  <2>2. \/ ~(ready /\ Enabled) /\ tickets' = tickets
        \/ PassesGate(u) /\ tickets' = Without(tickets, TryEnterDrops(u))
    BY <2>1 DEF VisitUngated, VisitAdmitted, SkipsGate, roomVars
  <2>3. Ticketed' = Ticketed \ {u}
    <3>1. CASE ~(ready /\ Enabled) /\ tickets' = tickets
      BY <3>1 DEF NobodyAtClosedGate, Ticketed
    <3>2. CASE tickets' = Without(tickets, TryEnterDrops(u))
      BY <3>2 DEF Ticketed, Without, TryEnterDrops
    <3> QED
      BY <2>2, <3>1, <3>2
  <2>4. ~(ready /\ Enabled) \/ u \in Ticketed \/ u \in Privileged \/ TQ!Room
    <3>1. PassesGate(u) => u \in Ticketed \/ u \in Privileged \/ TQ!Room
      BY SameCount DEF PassesGate, HasValidTicket, Ticketed, TQ!Room
    <3> QED
      BY <2>2, <3>1
  <2> QED
    BY <1>1, <1>2, <1>4, <2>3, <2>4 DEF TQ!Enter
<1> QED
  BY <1>3, <1>4

(* Who is sent to the queue page joins at the back, or waits already.      *)
LEMMA VisitJoins ==
  ASSUME IInv, NEW u \in Users, VisitQueued(u)
  PROVE  TQ!Join(u) \/ UNCHANGED TQ!vars
<1>1. /\ UNCHANGED <<ready, cap, registry>>
      /\ ready /\ Enabled /\ registry[u] = 0
      /\ u \notin Privileged /\ ~(Cardinality(Connected) < cap)
  BY DEF VisitQueued, SkipsGate, PassesGate, IInv, TypeOK
<1>2. Connected' = Connected /\ u \notin Connected
  BY <1>1 DEF Connected
<1>3. CASE u \in Waiting
  <2>1. queue' = queue /\ Ticketed' = Ticketed
    <3>1. u \notin Ticketed
      BY <1>3 DEF IInv, TokensMatchPlaces
    <3>2. queue' = queue /\ Ticketed' = Ticketed \ {u}
      BY <1>3, VisitQueuedPlaces
    <3> QED
      BY <3>1, <3>2
  <2> QED
    BY <1>1, <1>2, <2>1 DEF TQ!vars
<1>4. CASE u \notin Waiting
  <2>1. queue' = Append(queue, u) /\ Ticketed' = Ticketed \ {u}
    BY <1>4, VisitQueuedPlaces
  <2>2. \A i \in DOMAIN queue : queue[i] # u
    BY <1>4 DEF IInv, QueueMatchesTimes, Range
  <2>3. TQ!Join(u)
    BY <1>1, <1>2, <2>1, <2>2, SameCount DEF TQ!Join, TQ!Room
  <2> QED
    BY <2>3
<1> QED
  BY <1>3, <1>4

(* A user leaves with the last page, or when kicked. *)
LEMMA DepartureImplements ==
  ASSUME IInv, NEW u \in Users, CloseClient(u) \/ DisconnectUser(u)
  PROVE  TQ!Leave(u) \/ UNCHANGED TQ!vars
<1>1. /\ registry \in [Users -> Nat] /\ registry[u] > 0
      /\ \/ registry' = [registry EXCEPT ![u] = @ - 1]
         \/ registry' = [registry EXCEPT ![u] = 0]
      /\ UNCHANGED <<ready, cap, queue, tickets>>
  BY SizesAssumption DEF IInv, TypeOK, CloseClient, DisconnectUser, roomVars
<1>2. u \in Connected /\ (Connected' = Connected \ {u} \/ Connected' = Connected)
  <2>1. \A v \in Users \ {u} : registry'[v] = registry[v]
    BY <1>1
  <2>2. u \in Connected /\ Connected' \ {u} = Connected \ {u}
    BY <1>1, <2>1 DEF Connected
  <2> QED
    BY <2>2
<1>3. Ticketed' = Ticketed
  BY <1>1 DEF Ticketed
<1> QED
  BY <1>1, <1>2, <1>3 DEF TQ!Leave, TQ!vars

(* A poll answered may be the one that finds a ticket expired.             *)
LEMMA PollImplements ==
  ASSUME IInv, NEW t \in Tokens, PollAnswered(t)
  PROVE  (\E u \in Users : TQ!Lapse(u)) \/ UNCHANGED TQ!vars
<1>1. /\ UNCHANGED <<ready, cap, queue, registry>>
      /\ tickets' = Without(tickets, StatusDrops(t))
  BY DEF PollAnswered
<1>2. Ticketed' = Ticketed \ StatusDrops(t)
  BY <1>1 DEF Ticketed, Without
<1>3. Connected' = Connected
  BY <1>1 DEF Connected
<1>4. CASE StatusDrops(t) = {}
  BY <1>1, <1>2, <1>3, <1>4 DEF TQ!vars
<1>5. CASE StatusDrops(t) # {}
  <2>1. PICK u \in Users : u \in Ticketed /\ StatusDrops(t) = {u}
    BY <1>5 DEF StatusDrops, HasExpiredTicket, Ticketed
  <2>2. TQ!Lapse(u)
    BY <1>1, <1>2, <1>3, <2>1 DEF TQ!Lapse
  <2> QED
    BY <2>2
<1> QED
  BY <1>4, <1>5

(* The cycle: its batch is the head of the line, what its sweep leaves of  *)
(* the rest keeps its order, and everybody with a ticket has a place.      *)
LEMMA CycleImplements ==
  ASSUME IInv, Cycle
  PROVE  \E n \in 0 .. Len(queue) : TQ!Admit(n)
<1> PICK n, gone, stale : CycleStep(n, gone, stale)
  BY CycleFacts
<1> DEFINE batch == BatchOf(n)
           rest  == SubSeq(queue, n + 1, Len(queue))
<1>1. /\ n \in 0 .. Len(queue) /\ cap' \in InitialCap .. MaxCap
      /\ n # 0 => n <= cap' - Cardinality(Connected) - Cardinality(Ticketed)
      /\ stale = SweptTickets(batch)
      /\ queue' = Purged(rest, gone)
      /\ rest \in Seq(Users)
      /\ UNCHANGED <<ready, registry>>
  BY DEF CycleStep
<1>2. Ticketed' = (Ticketed \cup batch) \ stale
  BY CyclePlaces
<1>3. Connected' = Connected
  BY <1>1 DEF Connected
<1>4. cap' \in Nat /\ InitialCap <= cap'
  BY <1>1, SizesAssumption
<1>5. n # 0 => Cardinality(Connected) + Cardinality(Ticketed) + n <= cap'
  <2>1. Cardinality(Connected) \in Nat /\ Cardinality(Ticketed) \in Nat
    <3>1. IsFiniteSet(Ticketed) /\ IsFiniteSet(Connected)
      BY UsersAssumption, FS_Subset DEF Connected, Ticketed
    <3> QED
      BY <3>1, FS_CardinalityType
  <2>2. n \in Nat /\ cap' \in Int
    BY <1>1, <1>4
  <2> QED
    BY <1>1, <2>1, <2>2
<1>6. TQ!LeftOf(queue', n)
  <2>1. queue \in Seq(Users)
        /\ \A i, j \in DOMAIN queue : queue[i] = queue[j] => i = j
    BY DEF IInv, TypeOK, QueueMatchesTimes
  <2>2. \A i \in DOMAIN rest : n + i \in DOMAIN queue /\ rest[i] = queue[n + i]
    BY <1>1, <2>1, TailProperties
  <2>. HIDE DEF rest
  <2>3. PICK g \in [DOMAIN queue' -> DOMAIN rest] :
          /\ \A i \in DOMAIN queue' : queue'[i] = rest[g[i]]
          /\ \A i, j \in DOMAIN queue' : i < j => g[i] < g[j]
    BY <1>1, PurgedInOrder
  <2> DEFINE at == [i \in DOMAIN queue' |-> n + g[i]]
  <2>4. \A i \in DOMAIN queue' : /\ g[i] \in DOMAIN rest
                                 /\ g[i] \in Nat \ {0}
    BY <1>1, <2>3
  <2>5. at \in [DOMAIN queue' -> n + 1 .. Len(queue)]
    <3>1. ASSUME NEW i \in DOMAIN queue' PROVE n + g[i] \in n + 1 .. Len(queue)
      <4>1. n + g[i] \in 1 .. Len(queue) /\ g[i] \in Nat \ {0}
        BY <2>1, <2>2, <2>4
      <4>2. n \in Nat /\ Len(queue) \in Nat
        BY <1>1, <2>1
      <4> QED
        BY <4>1, <4>2
    <3> QED
      BY <3>1
  <2>6. \A i \in DOMAIN queue' : queue'[i] = queue[at[i]]
    BY <2>2, <2>3, <2>4
  <2>7. ASSUME NEW i \in DOMAIN queue', NEW j \in DOMAIN queue', i < j
        PROVE  at[i] < at[j]
    <3>1. g[i] < g[j] /\ g[i] \in Nat /\ g[j] \in Nat /\ n \in Nat
      BY <1>1, <2>3, <2>4, <2>7
    <3> QED
      BY <3>1
  <2>. HIDE DEF at
  <2> QED
    BY <2>5, <2>6, <2>7 DEF TQ!LeftOf
<1>7. \E lapsed \in SUBSET Ticketed :
        Ticketed' = (Ticketed \ lapsed) \cup {queue[i] : i \in 1 .. n}
  <2>1. batch = {queue[i] : i \in 1 .. n}
    BY DEF BatchOf
  <2>2. stale \subseteq Ticketed \ batch
    BY <1>1 DEF SweptTickets
  <2>. HIDE DEF batch
  <2>3. Ticketed' = (Ticketed \ stale) \cup batch
    BY <1>2, <2>2
  <2> QED
    BY <2>1, <2>2, <2>3
<1>. HIDE DEF batch, rest
<1> QED
  BY <1>1, <1>3, <1>4, <1>5, <1>6, <1>7, SameCount DEF TQ!Admit

LEMMA StepImplements ==
  ASSUME IInv, NobodyAtClosedGate, [Next]_vars
  PROVE  [TQ!Next]_(TQ!vars)
<1>1. CASE UNCHANGED vars
  BY <1>1 DEF vars, TQ!vars, Ticketed, Connected
<1>2. CASE Start
  <2>1. /\ ~ready /\ ready' /\ Enabled \in BOOLEAN
        /\ UNCHANGED <<cap, queue, tickets, registry>>
    BY <1>2, EnabledAssumption DEF Start, roomVars
  <2>2. Ticketed' = Ticketed /\ Connected' = Connected
    BY <2>1 DEF Ticketed, Connected
  <2>3. CASE Enabled
    BY <2>1, <2>2, <2>3 DEF TQ!Open, TQ!Next
  <2>4. CASE ~Enabled
    BY <2>1, <2>2, <2>4 DEF TQ!vars
  <2> QED
    BY <2>3, <2>4
<1>3. CASE Cycle
  BY <1>3, CycleImplements DEF TQ!Next
<1>4. CASE Tick
  BY <1>4, TickKeepsPlaces DEF Tick, TQ!vars, Connected
<1>5. CASE Clear \/ Restart
  <2>1. cap' = InitialCap /\ queue' = << >> /\ Ticketed' = {}
    BY <1>5, ResetPlaces DEF Clear, Restart, Forget
  <2>2. \/ UNCHANGED <<ready, registry>>
        \/ ~ready' /\ registry' = [u \in Users |-> 0]
    BY <1>5 DEF Clear, Restart
  <2>3. \/ (ready /\ Enabled)' = (ready /\ Enabled) /\ Connected' = Connected
        \/ (ready /\ Enabled)' = FALSE /\ Connected' = {}
    BY <2>2 DEF Connected
  <2> QED
    BY <2>1, <2>3 DEF TQ!Reset, TQ!Next
<1>6. ASSUME NEW u \in Users, Visit(u) PROVE [TQ!Next]_(TQ!vars)
  BY <1>6, VisitEnters, VisitJoins DEF Visit, TQ!Next
<1>7. ASSUME NEW u \in Users, CloseClient(u) \/ DisconnectUser(u)
      PROVE  [TQ!Next]_(TQ!vars)
  BY <1>7, DepartureImplements DEF TQ!Next
<1>8. ASSUME NEW t \in Tokens, PollAnswered(t) PROVE [TQ!Next]_(TQ!vars)
  BY <1>8, PollImplements DEF TQ!Next
<1>9. ASSUME NEW t \in Tokens, CloseQueuePage(t) PROVE UNCHANGED TQ!vars
  BY <1>9 DEF CloseQueuePage, roomVars, TQ!vars, Ticketed, Connected
<1> QED
  BY <1>1, <1>2, <1>3, <1>4, <1>5, <1>6, <1>7, <1>8, <1>9 DEF Next

(* The gate, the diagnostic cycle and the pages that poll are, to whoever  *)
(* looks only at who waits, who has a ticket and who is in, one line in    *)
(* front of one door: nobody passes it except with a ticket, by privilege  *)
(* or under the cap; nobody joins elsewhere than behind; tickets go to the *)
(* head of the line, each with a place under the cap reserved for it.      *)
THEOREM RefinesTicketQueue == Spec => TQ!Spec
<1>1. Init => TQ!Init /\ NobodyAtClosedGate
  BY DEF Init, NoEntries, TQ!Init, NobodyAtClosedGate, Ticketed, Connected
<1>2. IInv /\ NobodyAtClosedGate /\ [Next]_vars => [TQ!Next]_(TQ!vars)
  BY StepImplements
<1>3. IInv' /\ NobodyAtClosedGate /\ [TQ!Next]_(TQ!vars) => NobodyAtClosedGate'
  BY ClosedGateStep DEF IInv, TypeOK
<1> QED
  BY <1>1, <1>2, <1>3, Consistent, PTL DEF Spec, TQ!Spec
=============================================================================
