----------------------- MODULE CrdtPersistenceProofs -----------------------
(***************************************************************************)
(* What the saves of one workspace's document keep, for every number of    *)
(* clients, edits and worlds.  One inductive invariant holds whatever      *)
(* overlaps; on it rest three more: one for page loads that do not overlap *)
(* while saves fail and overtake each other, one for a calm world, where   *)
(* the row, the saves in flight and the registered document each hold what *)
(* those before it hold, and one for a tab that types alone, where all of  *)
(* them but the row hold the same.  In a calm world the module implements  *)
(* DurableDocument.                                                        *)
(***************************************************************************)
EXTENDS CrdtPersistence, SequenceTheorems, FiniteSetTheorems, TLAPS

-----------------------------------------------------------------------------
(* Saves in flight                                                         *)

LEMMA RemoveAtFacts ==
  ASSUME NEW M, NEW s \in Seq(M), NEW i \in DOMAIN s
  PROVE  /\ RemoveAt(s, i) \in Seq(M)
         /\ Len(RemoveAt(s, i)) = Len(s) - 1
         /\ \A j \in 1 .. Len(s) - 1 :
              RemoveAt(s, i)[j] = s[IF j < i THEN j ELSE j + 1]
<1> DEFINE n == Len(s)
           a == SubSeq(s, 1, i - 1)
           b == SubSeq(s, i + 1, n)
<1>0. n \in Nat /\ i \in 1 .. n /\ \A j \in 1 .. n : s[j] \in M
  OBVIOUS
<1>1. /\ a \in Seq(M) /\ Len(a) = i - 1
      /\ \A j \in 1 .. i - 1 : a[j] = s[j]
  <2>1. /\ a \in Seq(M) /\ Len(a) = IF 1 <= i - 1 THEN i - 1 - 1 + 1 ELSE 0
        /\ \A j \in 1 .. i - 1 - 1 + 1 : a[j] = s[1 + j - 1]
    BY <1>0, SubSeqProperties
  <2> HIDE DEF a
  <2> QED
    BY <2>1, <1>0
<1>2. /\ b \in Seq(M) /\ Len(b) = n - i
      /\ \A j \in 1 .. n - i : b[j] = s[i + j]
  <2>1. /\ b \in Seq(M) /\ Len(b) = IF i + 1 <= n THEN n - (i + 1) + 1 ELSE 0
        /\ \A j \in 1 .. n - (i + 1) + 1 : b[j] = s[i + 1 + j - 1]
    BY <1>0, SubSeqProperties
  <2> HIDE DEF b
  <2>2. \A j \in 1 .. n - i : j \in 1 .. n - (i + 1) + 1 /\ i + 1 + j - 1 = i + j
    BY <1>0
  <2> QED
    BY <2>1, <2>2, <1>0
<1> HIDE DEF a, b
<1>3. /\ a \o b \in Seq(M) /\ Len(a \o b) = Len(a) + Len(b)
      /\ \A j \in 1 .. Len(a) + Len(b) :
           (a \o b)[j] = IF j <= Len(a) THEN a[j] ELSE b[j - Len(a)]
  BY <1>1, <1>2, ConcatProperties
<1> DEFINE t == a \o b
<1>4. RemoveAt(s, i) = t
  BY DEF RemoveAt, a, b
<1> HIDE DEF t
<1>5. ASSUME NEW j \in 1 .. n - 1 PROVE t[j] = s[IF j < i THEN j ELSE j + 1]
  <2>0. j \in 1 .. Len(a) + Len(b)
    BY <1>0, <1>1, <1>2
  <2>1. CASE j < i
    <3>1. j <= Len(a) /\ j \in 1 .. i - 1
      BY <2>1, <1>0, <1>1
    <3> QED
      BY <2>0, <3>1, <2>1, <1>1, <1>3 DEF t
  <2>2. CASE ~(j < i)
    <3>1. ~(j <= Len(a)) /\ j - Len(a) \in 1 .. n - i /\ i + (j - Len(a)) = j + 1
      BY <2>2, <1>0, <1>1
    <3> QED
      BY <2>0, <3>1, <2>2, <1>2, <1>3 DEF t
  <2> QED
    BY <2>1, <2>2
<1>6. t \in Seq(M) /\ Len(t) = n - 1
  BY <1>0, <1>1, <1>2, <1>3 DEF t
<1> QED
  BY <1>4, <1>5, <1>6

(* Every save that is left was there, and all but one of those there are   *)
(* left, in their order.                                                   *)
LEMMA RemoveAtKeeps ==
  ASSUME NEW M, NEW s \in Seq(M), NEW i \in DOMAIN s
  PROVE  LET t == RemoveAt(s, i)
             at(j) == IF j < i THEN j ELSE j + 1
         IN  /\ t \in Seq(M)
             /\ \A j \in DOMAIN t : at(j) \in DOMAIN s /\ at(j) # i /\ t[j] = s[at(j)]
             /\ \A j, k \in DOMAIN t : j < k => at(j) < at(k)
             /\ \A j, k \in DOMAIN t : at(j) = at(k) => j = k
             /\ \A k \in DOMAIN s : k # i => \E j \in DOMAIN t : t[j] = s[k]
<1> DEFINE t == RemoveAt(s, i)
           at(j) == IF j < i THEN j ELSE j + 1
<1>1. /\ t \in Seq(M) /\ Len(t) = Len(s) - 1
      /\ \A j \in 1 .. Len(s) - 1 : t[j] = s[at(j)]
  BY RemoveAtFacts
<1> HIDE DEF t
<1>2. /\ Len(s) \in Nat /\ i \in 1 .. Len(s) /\ DOMAIN s = 1 .. Len(s)
      /\ DOMAIN t = 1 .. Len(s) - 1
  BY <1>1
<1>3. \A j \in 1 .. Len(s) - 1 : at(j) \in 1 .. Len(s) /\ at(j) # i
  BY <1>2
<1>4. \A j, k \in 1 .. Len(s) - 1 : j < k => at(j) < at(k)
  BY <1>2
<1>4a. \A j, k \in 1 .. Len(s) - 1 : at(j) = at(k) => j = k
  BY <1>2
<1>5. ASSUME NEW k \in 1 .. Len(s), k # i PROVE \E j \in 1 .. Len(s) - 1 : at(j) = k
  <2>1. CASE k < i
    <3>1. k \in 1 .. Len(s) - 1 /\ at(k) = k
      BY <2>1, <1>2
    <3> QED
      BY <3>1
  <2>2. CASE k > i
    <3>1. k - 1 \in 1 .. Len(s) - 1 /\ at(k - 1) = k
      BY <2>2, <1>2
    <3> QED
      BY <3>1
  <2> QED
    BY <1>2, <1>5, <2>1, <2>2
<1> HIDE DEF at
<1>6. \A k \in DOMAIN s : k # i => \E j \in DOMAIN t : t[j] = s[k]
  BY <1>1, <1>2, <1>5
<1>7. \A j \in DOMAIN t : at(j) \in DOMAIN s /\ at(j) # i /\ t[j] = s[at(j)]
  BY <1>1, <1>2, <1>3
<1> QED
  BY <1>1, <1>2, <1>4, <1>4a, <1>6, <1>7 DEF at, t

LEMMA WithoutTimerCases ==
  ASSUME NEW M, NEW s \in Seq(M)
  PROVE  \/ /\ WithoutTimer(s) = s
            /\ \A i \in DOMAIN s : s[i].kind # "timer"
         \/ \E i \in DOMAIN s : s[i].kind = "timer" /\ WithoutTimer(s) = RemoveAt(s, i)
<1> DEFINE tasks == {i \in DOMAIN s : s[i].kind = "timer"}
<1>1. CASE tasks = {}
  BY <1>1 DEF WithoutTimer
<1>2. CASE tasks # {}
  <2>1. (CHOOSE i \in tasks : TRUE) \in tasks
    BY <1>2
  <2> QED
    BY <1>2, <2>1 DEF WithoutTimer
<1> QED
  BY <1>1, <1>2

(* What saves hold, one by one, the rest of them hold. *)
LEMMA WithoutTimerSeq ==
  ASSUME NEW M, NEW s \in Seq(M)
  PROVE  WithoutTimer(s) \in Seq(M)
BY WithoutTimerCases, RemoveAtFacts

LEMMA AppendFacts ==
  ASSUME NEW M, NEW s \in Seq(M), NEW x \in M
  PROVE  LET t == Append(s, x)
             n == Len(s)
         IN  /\ t \in Seq(M)
             /\ \A i \in DOMAIN s : i \in DOMAIN t /\ t[i] = s[i]
             /\ n + 1 \in DOMAIN t /\ t[n + 1] = x
             /\ \A i \in DOMAIN t : (i \in DOMAIN s /\ t[i] = s[i]) \/ (i = n + 1 /\ t[i] = x)
             /\ \A i, j \in DOMAIN t : i < j => i \in DOMAIN s
<1> DEFINE t == Append(s, x)
           n == Len(s)
<1>1. /\ t \in Seq(M) /\ Len(t) = n + 1
      /\ \A i \in 1 .. n : t[i] = s[i]
      /\ t[n + 1] = x
  BY AppendProperties
<1>2. DOMAIN s = 1 .. n /\ n \in Nat
  OBVIOUS
<1> HIDE DEF t, n
<1>3. DOMAIN t = 1 .. n + 1
  BY <1>1
<1>4. /\ \A i \in 1 .. n : i \in 1 .. n + 1
      /\ n + 1 \in 1 .. n + 1
      /\ \A i \in 1 .. n + 1 : i \in 1 .. n \/ i = n + 1
      /\ \A i, j \in 1 .. n + 1 : i < j => i \in 1 .. n
  BY <1>2
<1>5. ASSUME NEW i \in DOMAIN t
      PROVE  (i \in DOMAIN s /\ t[i] = s[i]) \/ (i = n + 1 /\ t[i] = x)
  <2>1. i \in 1 .. n + 1
    BY <1>3
  <2>2. i \in 1 .. n \/ i = n + 1
    BY <2>1, <1>4
  <2> QED
    BY <2>2, <1>1, <1>2
<1>6. \A i, j \in DOMAIN t : i < j => i \in DOMAIN s
  BY <1>2, <1>3, <1>4
<1>7. /\ \A i \in DOMAIN s : i \in DOMAIN t /\ t[i] = s[i]
      /\ n + 1 \in DOMAIN t
  BY <1>1, <1>2, <1>3, <1>4
<1> QED
  BY <1>1, <1>5, <1>6, <1>7 DEF t, n

LEMMA OneMore ==
  ASSUME NEW M, NEW s \in Seq(M)
  PROVE  /\ s \o << >> = s
         /\ \A x \in M : s \o << x >> = Append(s, x)
BY ConcatEmptySeq, AppendIsConcat


-----------------------------------------------------------------------------
(* What is said of a queue of saves                                        *)

(* The clients cs depart, each awaiting one save. *)
Departing(s, cs) ==
  /\ \A i \in DOMAIN s : s[i].kind = "leave" => s[i].by \in cs
  /\ \A c \in cs : \E i \in DOMAIN s : s[i].kind = "leave" /\ s[i].by = c
  /\ \A i, j \in DOMAIN s :
       s[i].kind = "leave" /\ s[j].kind = "leave" /\ s[i].by = s[j].by => i = j

NoTimer(s)  == \A i \in DOMAIN s : s[i].kind # "timer"
OneTimer(s) == \A i, j \in DOMAIN s : s[i].kind = "timer" /\ s[j].kind = "timer" => i = j

(* Each save writes what those before it and the row hold. *)
Rising(s, state) ==
  /\ \A i \in DOMAIN s : state \subseteq s[i].snapshot
  /\ \A i, j \in DOMAIN s : i < j => s[i].snapshot \subseteq s[j].snapshot

LEMMA RemoveAtDeparting ==
  ASSUME NEW M, NEW s \in Seq(M), NEW i \in DOMAIN s, NEW cs, Departing(s, cs)
  PROVE  Departing(RemoveAt(s, i), IF s[i].kind = "leave" THEN cs \ {s[i].by} ELSE cs)
<1> DEFINE t == RemoveAt(s, i)
           at(j) == IF j < i THEN j ELSE j + 1
           rest == IF s[i].kind = "leave" THEN cs \ {s[i].by} ELSE cs
<1>1. /\ t \in Seq(M)
      /\ \A j \in DOMAIN t : at(j) \in DOMAIN s /\ at(j) # i /\ t[j] = s[at(j)]
      /\ \A j, k \in DOMAIN t : at(j) = at(k) => j = k
      /\ \A k \in DOMAIN s : k # i => \E j \in DOMAIN t : t[j] = s[k]
  BY RemoveAtKeeps
<1> HIDE DEF t, at
<1>3. \A j \in DOMAIN t : t[j].kind = "leave" => t[j].by \in rest
  BY <1>1 DEF Departing
<1>4. \A c \in rest : \E j \in DOMAIN t : t[j].kind = "leave" /\ t[j].by = c
  <2> SUFFICES ASSUME NEW c \in rest
               PROVE  \E j \in DOMAIN t : t[j].kind = "leave" /\ t[j].by = c
    OBVIOUS
  <2>1. PICK k \in DOMAIN s : s[k].kind = "leave" /\ s[k].by = c
    BY DEF Departing
  <2>2. k # i
    BY <2>1
  <2> QED
    BY <2>1, <2>2, <1>1
<1>5. \A j, k \in DOMAIN t :
        t[j].kind = "leave" /\ t[k].kind = "leave" /\ t[j].by = t[k].by => j = k
  BY <1>1, SMTT(30) DEF Departing
<1>6. Departing(t, rest)
  BY <1>3, <1>4, <1>5 DEF Departing
<1> QED
  BY <1>6 DEF t

LEMMA WithoutTimerDeparting ==
  ASSUME NEW M, NEW s \in Seq(M), NEW cs, Departing(s, cs)
  PROVE  Departing(WithoutTimer(s), cs)
<1>1. CASE WithoutTimer(s) = s
  BY <1>1
<1>2. ASSUME NEW i \in DOMAIN s, s[i].kind = "timer", WithoutTimer(s) = RemoveAt(s, i)
      PROVE  Departing(WithoutTimer(s), cs)
  <2>1. Departing(RemoveAt(s, i), IF s[i].kind = "leave" THEN cs \ {s[i].by} ELSE cs)
    BY RemoveAtDeparting
  <2> QED
    BY <1>2, <2>1
<1> QED
  BY <1>1, <1>2, WithoutTimerCases

LEMMA AppendDeparting ==
  ASSUME NEW M, NEW s \in Seq(M), NEW x \in M, NEW cs, Departing(s, cs)
  PROVE  /\ x.kind # "leave" => Departing(Append(s, x), cs)
         /\ x.kind = "leave" /\ x.by \notin cs => Departing(Append(s, x), cs \cup {x.by})
<1> DEFINE t == Append(s, x)
           n == Len(s)
<1>1. /\ t \in Seq(M)
      /\ \A i \in DOMAIN s : i \in DOMAIN t /\ t[i] = s[i]
      /\ n + 1 \in DOMAIN t /\ t[n + 1] = x
      /\ \A i \in DOMAIN t : (i \in DOMAIN s /\ t[i] = s[i]) \/ (i = n + 1 /\ t[i] = x)
      /\ \A i, j \in DOMAIN t : i < j => i \in DOMAIN s
  BY AppendFacts
<1> HIDE DEF t, n
<1>3. ASSUME x.kind # "leave" PROVE Departing(t, cs)
  BY <1>1, <1>3 DEF Departing
<1>4. ASSUME x.kind = "leave", x.by \notin cs PROVE Departing(t, cs \cup {x.by})
  BY <1>1, <1>4 DEF Departing
<1> QED
  BY <1>3, <1>4 DEF t

LEMMA RemoveAtOneTimer ==
  ASSUME NEW M, NEW s \in Seq(M), NEW i \in DOMAIN s, OneTimer(s)
  PROVE  /\ OneTimer(RemoveAt(s, i))
         /\ s[i].kind = "timer" => NoTimer(RemoveAt(s, i))
         /\ NoTimer(s) => NoTimer(RemoveAt(s, i))
<1> DEFINE t == RemoveAt(s, i)
           at(j) == IF j < i THEN j ELSE j + 1
<1>1. /\ t \in Seq(M)
      /\ \A j \in DOMAIN t : at(j) \in DOMAIN s /\ at(j) # i /\ t[j] = s[at(j)]
      /\ \A j, k \in DOMAIN t : at(j) = at(k) => j = k
  BY RemoveAtKeeps
<1> HIDE DEF t, at
<1>3. OneTimer(t) /\ (s[i].kind = "timer" \/ NoTimer(s) => NoTimer(t))
  BY <1>1 DEF OneTimer, NoTimer
<1> QED
  BY <1>3 DEF t

LEMMA WithoutTimerNoTimer ==
  ASSUME NEW M, NEW s \in Seq(M), OneTimer(s)
  PROVE  NoTimer(WithoutTimer(s))
BY WithoutTimerCases, RemoveAtOneTimer DEF NoTimer

LEMMA AppendTimer ==
  ASSUME NEW M, NEW s \in Seq(M), NEW x \in M
  PROVE  /\ NoTimer(s) => OneTimer(s) /\ OneTimer(Append(s, x))
         /\ NoTimer(s) /\ x.kind # "timer" => NoTimer(Append(s, x))
         /\ OneTimer(s) /\ x.kind # "timer" => OneTimer(Append(s, x))
<1> DEFINE t == Append(s, x)
           n == Len(s)
<1>1. /\ t \in Seq(M)
      /\ \A i \in DOMAIN s : i \in DOMAIN t /\ t[i] = s[i]
      /\ n + 1 \in DOMAIN t /\ t[n + 1] = x
      /\ \A i \in DOMAIN t : (i \in DOMAIN s /\ t[i] = s[i]) \/ (i = n + 1 /\ t[i] = x)
      /\ \A i, j \in DOMAIN t : i < j => i \in DOMAIN s
  BY AppendFacts
<1> HIDE DEF t, n
<1>3. /\ NoTimer(s) => OneTimer(s) /\ OneTimer(t)
      /\ NoTimer(s) /\ x.kind # "timer" => NoTimer(t)
      /\ OneTimer(s) /\ x.kind # "timer" => OneTimer(t)
  BY <1>1 DEF NoTimer, OneTimer
<1> QED
  BY <1>3 DEF t

LEMMA RemoveAtRising ==
  ASSUME NEW M, NEW s \in Seq(M), NEW i \in DOMAIN s, NEW state, Rising(s, state)
  PROVE  Rising(RemoveAt(s, i), state)
<1> DEFINE t == RemoveAt(s, i)
           at(j) == IF j < i THEN j ELSE j + 1
<1>1. /\ \A j \in DOMAIN t : at(j) \in DOMAIN s /\ at(j) # i /\ t[j] = s[at(j)]
      /\ \A j, k \in DOMAIN t : j < k => at(j) < at(k)
  BY RemoveAtKeeps
<1> HIDE DEF t, at
<1>2. Rising(t, state)
  BY <1>1 DEF Rising
<1> QED
  BY <1>2 DEF t

LEMMA WithoutTimerRising ==
  ASSUME NEW M, NEW s \in Seq(M), NEW state, Rising(s, state)
  PROVE  Rising(WithoutTimer(s), state)
BY WithoutTimerCases, RemoveAtRising

(* The first of the saves may be written. *)
LEMMA FirstRising ==
  ASSUME NEW M, NEW s \in Seq(M), NEW state, Rising(s, state), 1 \in DOMAIN s
  PROVE  Rising(s, s[1].snapshot) /\ state \subseteq s[1].snapshot
<1>1. \A i \in DOMAIN s : i = 1 \/ 1 < i
  OBVIOUS
<1> QED
  BY <1>1 DEF Rising

LEMMA AppendRising ==
  ASSUME NEW M, NEW s \in Seq(M), NEW x \in M, NEW state, Rising(s, state),
         state \subseteq x.snapshot, \A i \in DOMAIN s : s[i].snapshot \subseteq x.snapshot
  PROVE  Rising(Append(s, x), state)
<1> DEFINE t == Append(s, x)
           n == Len(s)
<1>1. /\ t \in Seq(M)
      /\ \A i \in DOMAIN s : i \in DOMAIN t /\ t[i] = s[i]
      /\ n + 1 \in DOMAIN t /\ t[n + 1] = x
      /\ \A i \in DOMAIN t : (i \in DOMAIN s /\ t[i] = s[i]) \/ (i = n + 1 /\ t[i] = x)
      /\ \A i, j \in DOMAIN t : i < j => i \in DOMAIN s
  BY AppendFacts
<1> HIDE DEF t, n
<1>3. Rising(t, state)
  BY <1>1 DEF Rising
<1> QED
  BY <1>3 DEF t

(* What is true of each save is true of each of those that are left. *)
LEMMA RemoveAtOneByOne ==
  ASSUME NEW M, NEW s \in Seq(M), NEW i \in DOMAIN s
  PROVE  /\ \A j \in DOMAIN RemoveAt(s, i) :
              \E k \in DOMAIN s : RemoveAt(s, i)[j] = s[k]
         /\ \A k \in DOMAIN s : k # i => \E j \in DOMAIN RemoveAt(s, i) : RemoveAt(s, i)[j] = s[k]
<1> DEFINE t == RemoveAt(s, i)
           at(j) == IF j < i THEN j ELSE j + 1
<1>1. /\ \A j \in DOMAIN t : at(j) \in DOMAIN s /\ at(j) # i /\ t[j] = s[at(j)]
      /\ \A k \in DOMAIN s : k # i => \E j \in DOMAIN t : t[j] = s[k]
  BY RemoveAtKeeps
<1> HIDE DEF t, at
<1> QED
  BY <1>1 DEF t

LEMMA WithoutTimerOneByOne ==
  ASSUME NEW M, NEW s \in Seq(M)
  PROVE  \A j \in DOMAIN WithoutTimer(s) :
           \E k \in DOMAIN s : WithoutTimer(s)[j] = s[k]
BY WithoutTimerCases, RemoveAtOneByOne

LEMMA AppendOneByOne ==
  ASSUME NEW M, NEW s \in Seq(M), NEW x \in M
  PROVE  \A j \in DOMAIN Append(s, x) :
           Append(s, x)[j] = x \/ \E k \in DOMAIN s : Append(s, x)[j] = s[k]
<1> DEFINE t == Append(s, x)
           n == Len(s)
<1>1. /\ t \in Seq(M)
      /\ \A i \in DOMAIN s : i \in DOMAIN t /\ t[i] = s[i]
      /\ n + 1 \in DOMAIN t /\ t[n + 1] = x
      /\ \A i \in DOMAIN t : (i \in DOMAIN s /\ t[i] = s[i]) \/ (i = n + 1 /\ t[i] = x)
      /\ \A i, j \in DOMAIN t : i < j => i \in DOMAIN s
  BY AppendFacts
<1> HIDE DEF t, n
<1> QED
  BY <1>1 DEF t

-----------------------------------------------------------------------------
(* The invariant of every world                                            *)

Kind    == {"load", "timer", "edit", "leave", "all"}
SaveRec == {x \in [snapshot : SUBSET made, kind : Kind, by : Clients \cup Edits \cup {None}] :
              x.kind = "edit" => x.by \in made}

Rows  == /\ crdt_state \subseteq made /\ saved \subseteq made
         /\ made \subseteq Edits /\ late \subseteq made /\ world \in Worlds
         /\ content \in [DocIds -> SUBSET made]
         /\ row \in [Clients -> SUBSET made]
Marks == dirty \in BOOLEAN /\ timer \in {"none", "sleeping", "saving"}
Docs  == /\ documents \in DocIds \cup {None} /\ docRegistry = documents
         /\ doc \in [Clients -> DocIds \cup {None}]
Pages == /\ pc \in [Clients -> {"out", "fetched", "found", "joined", "ready"}
                                 \cup FirstLoad \cup SecondLoad]
         /\ presence \subseteq Clients /\ gone \subseteq Clients

(* A page has a document from the lookup on. *)
Serving == FirstLoad \cup SecondLoad \cup {"found", "ready"}
HasDocument == \A c \in Clients : pc[c] \in Serving => doc[c] \in DocIds

(* A deleted client is one whose page still loads, and only such a one or  *)
(* one that is out departs.                                                *)
GoneLoads ==
  /\ \A c \in gone : pc[c] \in {"joined"} \cup SecondLoad
  /\ \A c \in leaving : pc[c] = "out" \/ c \in gone

(* A departure awaits exactly one save. *)
Departures == leaving \subseteq Clients /\ last \subseteq leaving /\ Departing(saves, leaving)

(* At most one debounced save is in flight, the pending one. *)
Timers == OneTimer(saves) /\ (timer # "saving" => NoTimer(saves))

IInv == /\ Rows /\ Marks /\ Docs /\ Pages /\ HasDocument
        /\ saves \in Seq(SaveRec)
        /\ GoneLoads /\ Departures /\ Timers

LEMMA IInvInit == Init => IInv
<1> SUFFICES ASSUME Init PROVE IInv
  OBVIOUS
<1> USE DEF Init
<1>1. Rows /\ Marks /\ Docs /\ Pages
  BY DEF Rows, Marks, Docs, Pages
<1>2. HasDocument /\ GoneLoads
  BY DEF HasDocument, GoneLoads, Serving, FirstLoad, SecondLoad
<1>3. saves \in Seq(SaveRec) /\ Departures /\ Timers
  BY DEF Departures, Departing, Timers, OneTimer, NoTimer
<1> QED
  BY <1>1, <1>2, <1>3 DEF IInv

LEMMA SeqMore ==
  ASSUME NEW A, NEW B, A \subseteq B, NEW s \in Seq(A)
  PROVE  s \in Seq(B)
OBVIOUS

(* More edits only widen what a save may hold. *)
LEMMA MoreMade ==
  ASSUME IInv, made \subseteq made'
  PROVE  SaveRec \subseteq SaveRec' /\ saves \in Seq(SaveRec')
<1>1. SaveRec \subseteq SaveRec'
  BY DEF SaveRec
<1> QED
  BY <1>1, SeqMore DEF IInv

(* A registered document is not replaced by a copy, and one more client    *)
(* than there are documents would be needed to leave none to reuse.        *)
LEMMA FreshDocFacts ==
  ASSUME Docs, documents = None
  PROVE  FreshDoc \in DocIds /\ \A c \in Clients : FreshDoc # doc[c]
<1> DEFINE used == {doc[c] : c \in Clients}
<1>1. IsFiniteSet(used) /\ Cardinality(used) <= Cardinality(Clients)
  <2>1. doc \in Surjection(Clients, used)
    BY DEF Docs, Surjection
  <2> QED
    BY <2>1, FS_Surjection, DocsAssumption
<1>2. ~(DocIds \subseteq used)
  <2> SUFFICES ASSUME DocIds \subseteq used PROVE FALSE
    OBVIOUS
  <2>1. Cardinality(DocIds) <= Cardinality(used)
    BY <1>1, FS_Subset
  <2>2. /\ Cardinality(DocIds) \in Nat /\ Cardinality(used) \in Nat
        /\ Cardinality(Clients) \in Nat
    BY <1>1, FS_CardinalityType, DocsAssumption
  <2> QED
    BY <1>1, <2>1, <2>2, DocsAssumption
<1>3. \E d \in DocIds : d \notin used \cup {documents, docRegistry}
  BY <1>2, NoneAssumption DEF Docs
<1>4. FreshDoc \in DocIds /\ FreshDoc \notin used \cup {documents, docRegistry}
  BY <1>3 DEF FreshDoc
<1> QED
  BY <1>4

(* What a force persist leaves in flight. *)
LEMMA ForcedSaves ==
  ASSUME NEW kind, NEW by, NEW isDirty, NEW state, saves \in Seq(SaveRec),
         ForcePersist(kind, by, isDirty, saves, state)
  PROVE  /\ timer' = "none"
         /\ saves' = IF isDirty /\ docRegistry # None
                     THEN WithoutTimer(saves)
                          \o << [snapshot |-> state[docRegistry], kind |-> kind, by |-> by] >>
                     ELSE WithoutTimer(saves)
BY OneMore, WithoutTimerSeq DEF ForcePersist

LEMMA CancelledState ==
  ASSUME NEW s, NEW state, Cancelled(s, state)
  PROVE  \/ crdt_state' = state
         \/ \E i \in DOMAIN s : /\ s[i].kind = "timer" /\ (InOrder => i = 1)
                                /\ crdt_state' = s[i].snapshot
BY DEF Cancelled

LEMMA ForcedInv ==
  ASSUME IInv, made \subseteq made', NEW kind, NEW by, NEW isDirty, NEW state,
         ForcePersist(kind, by, isDirty, saves, state), kind # "timer",
         isDirty /\ docRegistry # None =>
           [snapshot |-> state[docRegistry], kind |-> kind, by |-> by] \in SaveRec'
  PROVE  /\ saves' \in Seq(SaveRec') /\ Timers' /\ timer' = "none"
         /\ kind # "leave" => Departing(saves', leaving)
         /\ kind = "leave" /\ by \notin leaving =>
              Departing(saves', IF isDirty /\ docRegistry # None THEN leaving \cup {by} ELSE leaving)
<1> DEFINE t == WithoutTimer(saves)
           x == [snapshot |-> state[docRegistry], kind |-> kind, by |-> by]
<1>0. saves \in Seq(SaveRec) /\ saves \in Seq(SaveRec')
  BY MoreMade DEF IInv
<1>1. /\ timer' = "none"
      /\ saves' = IF isDirty /\ docRegistry # None THEN t \o << x >> ELSE t
  BY <1>0, ForcedSaves
<1>2. t \in Seq(SaveRec') /\ NoTimer(t) /\ Departing(t, leaving)
  BY <1>0, WithoutTimerSeq, WithoutTimerNoTimer, WithoutTimerDeparting DEF IInv, Timers, Departures
<1>3. x.kind = kind /\ x.by = by
  OBVIOUS
<1> HIDE DEF t, x
<1>4. CASE isDirty /\ docRegistry # None
  <2>1. x \in SaveRec'
    BY <1>4 DEF x
  <2>2. saves' = Append(t, x)
    BY <1>1, <1>2, <1>4, <2>1, OneMore
  <2>3. saves' \in Seq(SaveRec')
    BY <1>2, <2>1, <2>2, AppendFacts
  <2>4. NoTimer(saves') /\ OneTimer(saves')
    BY <1>2, <1>3, <2>1, <2>2, AppendTimer
  <2>5. /\ kind # "leave" => Departing(saves', leaving)
        /\ kind = "leave" /\ by \notin leaving => Departing(saves', leaving \cup {by})
    BY <1>2, <1>3, <2>1, <2>2, AppendDeparting
  <2> QED
    BY <1>1, <1>4, <2>3, <2>4, <2>5 DEF Timers
<1>5. CASE ~(isDirty /\ docRegistry # None)
  <2>1. saves' = t
    BY <1>1, <1>5
  <2>2. OneTimer(saves')
    BY <1>2, <2>1 DEF NoTimer, OneTimer
  <2> QED
    BY <1>1, <1>2, <1>5, <2>1, <2>2 DEF Timers
<1> QED
  BY <1>4, <1>5

(* The row holds what was made, whatever the cancelled save did. *)
LEMMA CancelledRow ==
  ASSUME IInv, NEW s \in Seq(SaveRec), NEW state, state \subseteq made, Cancelled(s, state)
  PROVE  crdt_state' \subseteq made
<1>1. ASSUME NEW i \in DOMAIN s PROVE s[i].snapshot \subseteq made
  <2>1. s[i] \in SaveRec
    OBVIOUS
  <2> QED
    BY <2>1 DEF SaveRec
<1>2. \/ crdt_state' = state
      \/ \E i \in DOMAIN s : crdt_state' = s[i].snapshot
  BY CancelledState
<1> QED
  BY <1>1, <1>2

LEMMA SnapshotMade ==
  ASSUME IInv, NEW d \in DocIds,
         NEW kind \in Kind \ {"edit"}, NEW by \in Clients \cup Edits \cup {None}
  PROVE  Save(d, kind, by) \in SaveRec
BY DEF IInv, Rows, Save, SaveRec

LEMMA SameSaves ==
  ASSUME IInv, UNCHANGED <<saves, made>>
  PROVE  saves' \in Seq(SaveRec')
BY MoreMade DEF IInv

LEMMA SameDepartures ==
  ASSUME IInv, UNCHANGED <<saves, leaving, last>>
  PROVE  Departures'
BY DEF IInv, Departures, Departing

LEMMA SameTimers ==
  ASSUME IInv, UNCHANGED <<saves, timer>>
  PROVE  Timers'
BY DEF IInv, Timers, OneTimer, NoTimer

-----------------------------------------------------------------------------

LEMMA IFetch ==
  ASSUME IInv, NEW c \in Clients, Fetch(c)
  PROVE  IInv'
<1> USE DEF Fetch, registries, clients
<1>1. Rows' /\ Marks' /\ Docs' /\ Pages'
  BY DEF IInv, Rows, Marks, Docs, Pages
<1>2. HasDocument' /\ GoneLoads'
  BY DEF IInv, Pages, HasDocument, GoneLoads, Serving, FirstLoad, SecondLoad
<1>3. saves' \in Seq(SaveRec') /\ Departures' /\ Timers'
  BY SameSaves, SameDepartures, SameTimers
<1> QED
  BY <1>1, <1>2, <1>3 DEF IInv

(* The lookup gives a page a document, the registered one or a new one. *)
LEMMA LookedUp ==
  ASSUME IInv, NEW c \in Clients, NEW state, NEW hit, NEW miss,
         GetOrCreate(c, state, hit, miss)
  PROVE  /\ pc' = [pc EXCEPT ![c] = IF documents # None THEN hit ELSE miss]
         /\ \E d \in DocIds :
              /\ doc' = [doc EXCEPT ![c] = d]
              /\ \/ documents # None /\ d = documents /\ content' = content
                 \/ /\ documents = None /\ \A b \in Clients : d # doc[b]
                    /\ content' = [content EXCEPT ![d] = state]
<1>1. Docs
  BY DEF IInv
<1>2. CASE documents # None
  BY <1>1, <1>2 DEF GetOrCreate, Docs
<1>3. CASE documents = None
  BY <1>1, <1>3, FreshDocFacts DEF GetOrCreate
<1> QED
  BY <1>2, <1>3

LEMMA IBeginLoad ==
  ASSUME IInv, NEW c \in Clients, BeginLoad(c)
  PROVE  IInv'
<1> USE DEF registries, clients
<1>1. PICK state, hit, miss :
        /\ state \in SUBSET made /\ GetOrCreate(c, state, hit, miss)
        /\ \/ pc[c] = "fetched" /\ hit = "checking" /\ miss = "creating"
           \/ pc[c] = "joined" /\ hit = "rechecking" /\ miss = "recreating"
  <2>1. row[c] \subseteq made /\ crdt_state \subseteq made
    BY DEF IInv, Rows
  <2>2. {} \subseteq made
    OBVIOUS
  <2> QED
    BY <2>1, <2>2 DEF BeginLoad, LoadedFrom
<1>2. PICK d \in DocIds :
        /\ doc' = [doc EXCEPT ![c] = d]
        /\ content' = content \/ content' = [content EXCEPT ![d] = state]
  BY <1>1, LookedUp
<1>3. \E p \in FirstLoad \cup SecondLoad :
        /\ pc' = [pc EXCEPT ![c] = p]
        /\ (pc[c] = "joined" => p \in SecondLoad)
  BY <1>1, LookedUp DEF FirstLoad, SecondLoad
<1>4. Rows'
  <2>1. state \in SUBSET made
    BY <1>1
  <2> QED
    BY <1>2, <2>1 DEF BeginLoad, IInv, Rows
<1>5. Marks' /\ Docs' /\ Pages'
  BY <1>2, <1>3 DEF BeginLoad, IInv, Marks, Docs, Pages
<1>6. HasDocument'
  BY <1>2, <1>3 DEF IInv, Docs, Pages, HasDocument
<1>7. GoneLoads'
  <2>1. c \notin gone \/ pc[c] = "joined"
    BY <1>1 DEF IInv, GoneLoads, SecondLoad
  <2>2. c \notin leaving \/ c \in gone
    BY <1>1 DEF IInv, GoneLoads
  <2> QED
    BY <1>3, <2>1, <2>2 DEF BeginLoad, IInv, Pages, GoneLoads
<1>8. saves' \in Seq(SaveRec') /\ Departures' /\ Timers'
  BY SameSaves, SameDepartures, SameTimers DEF BeginLoad
<1> QED
  BY <1>4, <1>5, <1>6, <1>7, <1>8 DEF IInv

(* A repaired document is saved beside the others. *)
LEMMA LoadSaved ==
  ASSUME IInv, NEW c \in Clients, pc[c] \in Serving,
         saves' = Append(saves, Save(doc[c], "load", c)),
         UNCHANGED <<made, leaving, last, timer>>
  PROVE  saves' \in Seq(SaveRec') /\ Departures' /\ Timers'
<1> DEFINE x == Save(doc[c], "load", c)
<1>1. doc[c] \in DocIds
  BY DEF IInv, HasDocument
<1>2. x \in SaveRec
  BY <1>1, SnapshotMade DEF Kind
<1>3. x.kind = "load"
  BY DEF Save
<1> HIDE DEF x
<1>4. saves \in Seq(SaveRec) /\ Departing(saves, leaving) /\ Timers
  BY DEF IInv, Departures
<1>5. saves' = Append(saves, x)
  BY DEF x
<1>6. saves' \in Seq(SaveRec)
  BY <1>2, <1>4, <1>5, AppendFacts
<1>7. saves' \in Seq(SaveRec')
  BY <1>6 DEF SaveRec
<1>8. Departing(saves', leaving)
  BY <1>2, <1>3, <1>4, <1>5, AppendDeparting
<1>9. OneTimer(saves') /\ (NoTimer(saves) => NoTimer(saves'))
  BY <1>2, <1>3, <1>4, <1>5, AppendTimer DEF Timers
<1> QED
  BY <1>4, <1>7, <1>8, <1>9 DEF IInv, Departures, Timers

LEMMA IRepairTags ==
  ASSUME IInv, NEW c \in Clients, RepairTags(c)
  PROVE  IInv'
<1> USE DEF RepairTags, registries, clients
<1>1. Rows' /\ Marks' /\ Docs' /\ Pages'
  BY DEF IInv, Rows, Marks, Docs, Pages
<1>2. HasDocument' /\ GoneLoads'
  BY DEF IInv, Pages, HasDocument, GoneLoads, Serving, FirstLoad, SecondLoad
<1>3. saves' \in Seq(SaveRec') /\ Departures' /\ Timers'
  BY LoadSaved DEF Serving
<1> QED
  BY <1>1, <1>2, <1>3 DEF IInv

LEMMA IFinishFirstLoad ==
  ASSUME IInv, NEW c \in Clients, FinishFirstLoad(c)
  PROVE  IInv'
<1> USE DEF registries, clients
<1>0. /\ pc[c] \in FirstLoad \cup {"found"} /\ doc[c] \in DocIds /\ c \notin gone /\ c \notin leaving
      /\ UNCHANGED <<world, crdt_state, content, dirty, timer, row, gone, leaving, last, made, late, saved>>
  BY DEF FinishFirstLoad, IInv, HasDocument, Serving, GoneLoads, FirstLoad, SecondLoad
<1>1. UNCHANGED registries \/ (documents' = doc[c] /\ docRegistry' = doc[c])
  BY DEF FinishFirstLoad, RegisterDocument
<1>2. \/ /\ saves' = Append(saves, Save(doc[c], "load", c))
         /\ pc' = [pc EXCEPT ![c] = "found"] /\ UNCHANGED <<presence, doc>>
      \/ Join(c) /\ UNCHANGED saves
  BY DEF FinishFirstLoad
<1>3. PICK p \in {"found", "joined", "out"}, d \in DocIds \cup {None} :
        /\ pc' = [pc EXCEPT ![c] = p] /\ doc' = [doc EXCEPT ![c] = d]
        /\ (p = "found" => d \in DocIds)
  <2>1. doc = [doc EXCEPT ![c] = doc[c]]
    BY DEF IInv, Docs
  <2> QED
    BY <1>0, <1>2, <2>1 DEF Join
<1>4. presence' \subseteq Clients
  BY <1>2 DEF Join, IInv, Pages
<1>5. Rows' /\ Marks' /\ Docs' /\ Pages'
  BY <1>0, <1>1, <1>3, <1>4 DEF IInv, Rows, Marks, Docs, Pages
<1>6. HasDocument'
  BY <1>3 DEF IInv, Docs, Pages, HasDocument, Serving, FirstLoad, SecondLoad
<1>7. GoneLoads'
  BY <1>0, <1>3 DEF IInv, Pages, GoneLoads
<1>8. saves' \in Seq(SaveRec') /\ Departures' /\ Timers'
  BY <1>0, <1>2, LoadSaved, SameSaves, SameDepartures, SameTimers DEF Serving
<1> QED
  BY <1>5, <1>6, <1>7, <1>8 DEF IInv

LEMMA IFinishSecondLoad ==
  ASSUME IInv, NEW c \in Clients, FinishSecondLoad(c)
  PROVE  IInv'
<1> USE DEF registries, clients
<1>0. pc[c] \in SecondLoad /\ doc[c] \in DocIds
  BY DEF FinishSecondLoad, IInv, HasDocument, Serving
<1>1. UNCHANGED registries \/ (documents' = doc[c] /\ docRegistry' = doc[c])
  BY DEF FinishSecondLoad, RegisterDocument
<1>2. Rows' /\ Marks' /\ Docs' /\ Pages'
  BY <1>0, <1>1 DEF FinishSecondLoad, IInv, Rows, Marks, Docs, Pages
<1>3. HasDocument'
  BY <1>0 DEF FinishSecondLoad, IInv, Docs, Pages, HasDocument, Serving, FirstLoad, SecondLoad
<1>4. GoneLoads'
  BY <1>0 DEF FinishSecondLoad, IInv, Pages, GoneLoads, FirstLoad, SecondLoad
<1>5. saves' \in Seq(SaveRec') /\ Departures' /\ Timers'
  BY SameSaves, SameDepartures, SameTimers DEF FinishSecondLoad
<1> QED
  BY <1>2, <1>3, <1>4, <1>5 DEF IInv

LEMMA IRevoke ==
  ASSUME IInv, NEW c \in Clients, Revoke(c)
  PROVE  IInv'
<1> USE DEF Revoke, registries
<1>1. Rows' /\ Marks' /\ Docs' /\ Pages' /\ HasDocument' /\ GoneLoads'
  BY DEF IInv, Rows, Marks, Docs, Pages, HasDocument, GoneLoads
<1>2. saves' \in Seq(SaveRec') /\ Departures' /\ Timers'
  BY SameSaves, SameDepartures, SameTimers
<1> QED
  BY <1>1, <1>2 DEF IInv

LEMMA ITimerFires ==
  ASSUME IInv, TimerFires
  PROVE  IInv'
<1> USE DEF TimerFires, registries, clients
<1>1. Rows' /\ Docs' /\ Pages' /\ HasDocument' /\ GoneLoads'
  BY DEF IInv, Rows, Docs, Pages, HasDocument, GoneLoads
<1>2. Marks'
  BY DEF IInv, Marks
<1>3. CASE dirty /\ docRegistry # None
  <2> DEFINE x == Save(docRegistry, "timer", None)
  <2>1. x \in SaveRec
    BY <1>3, SnapshotMade DEF IInv, Docs, Kind
  <2>2. x.kind = "timer"
    BY DEF Save
  <2> HIDE DEF x
  <2>3. saves \in Seq(SaveRec) /\ Departing(saves, leaving) /\ NoTimer(saves)
    BY DEF IInv, Departures, Timers
  <2>4. saves' = Append(saves, x) /\ timer' = "saving"
    BY <1>3 DEF x
  <2>5. saves' \in Seq(SaveRec')
    <3>1. saves' \in Seq(SaveRec)
      BY <2>1, <2>3, <2>4, AppendFacts
    <3> QED
      BY <3>1 DEF SaveRec
  <2>6. Departing(saves', leaving)
    BY <2>1, <2>2, <2>3, <2>4, AppendDeparting
  <2>7. OneTimer(saves')
    BY <2>1, <2>3, <2>4, AppendTimer
  <2> QED
    BY <1>1, <1>2, <2>4, <2>5, <2>6, <2>7 DEF IInv, Departures, Timers
<1>4. CASE ~(dirty /\ docRegistry # None)
  <2>1. saves' \in Seq(SaveRec') /\ Departures'
    BY <1>4, SameSaves, SameDepartures
  <2>2. Timers'
    BY <1>4 DEF IInv, Timers, OneTimer, NoTimer
  <2> QED
    BY <1>1, <1>2, <2>1, <2>2 DEF IInv
<1> QED
  BY <1>3, <1>4

LEMMA IPersistAll ==
  ASSUME IInv, PersistAll
  PROVE  IInv'
<1> USE DEF PersistAll, registries, clients
<1>1. saves \in Seq(SaveRec) /\ crdt_state \subseteq made /\ docRegistry \in DocIds \cup {None}
  BY DEF IInv, Rows, Docs
<1>2. crdt_state' \subseteq made
  BY <1>1, CancelledRow
<1>3. dirty /\ docRegistry # None =>
        [snapshot |-> content[docRegistry], kind |-> "all", by |-> None] \in SaveRec'
  BY <1>1 DEF IInv, Rows, SaveRec, Kind
<1>4. /\ saves' \in Seq(SaveRec') /\ Timers' /\ timer' = "none"
      /\ Departing(saves', leaving)
  <2>1. ForcePersist("all", None, dirty, saves, content) /\ made \subseteq made'
    OBVIOUS
  <2>2. "all" # "timer" /\ "all" # "leave"
    OBVIOUS
  <2> QED
    BY <2>1, <2>2, <1>3, ForcedInv
<1>5. Rows' /\ Marks' /\ Docs' /\ Pages' /\ HasDocument' /\ GoneLoads'
  BY <1>2, <1>4 DEF IInv, Rows, Marks, Docs, Pages, HasDocument, GoneLoads
<1> QED
  BY <1>4, <1>5 DEF IInv, Departures

LEMMA IType ==
  ASSUME IInv, NEW c \in Clients, NEW e \in Edits, Type(c, e)
  PROVE  IInv'
<1> USE DEF Type, Make, registries, clients
<1>1. saves \in Seq(SaveRec) /\ crdt_state \subseteq made
  BY DEF IInv, Rows
<1>2. crdt_state' \subseteq made
  BY <1>1, CancelledRow
<1>3. saves' \in Seq(SaveRec') /\ Departing(saves', leaving) /\ NoTimer(saves')
  BY MoreMade, WithoutTimerSeq, WithoutTimerDeparting, WithoutTimerNoTimer
  DEF IInv, Departures, Timers
<1>4. Timers'
  BY <1>3 DEF Timers, OneTimer, NoTimer
<1>5. Rows'
  BY <1>2 DEF IInv, Rows
<1>6. Marks' /\ Docs' /\ Pages' /\ HasDocument' /\ GoneLoads'
  BY DEF IInv, Marks, Docs, Pages, HasDocument, GoneLoads
<1> QED
  BY <1>3, <1>4, <1>5, <1>6 DEF IInv, Departures

LEMMA IAnnotate ==
  ASSUME IInv, NEW c \in Clients, NEW e \in Edits, Annotate(c, e)
  PROVE  IInv'
<1> USE DEF Annotate, Make, registries, clients
<1>1. saves \in Seq(SaveRec) /\ crdt_state \subseteq made /\ docRegistry \in DocIds \cup {None}
  BY DEF IInv, Rows, Docs
<1>2. crdt_state' \subseteq made
  BY <1>1, CancelledRow
<1>3. Rows'
  BY <1>2 DEF IInv, Rows
<1>4. TRUE /\ docRegistry # None =>
        [snapshot |-> content'[docRegistry], kind |-> "edit", by |-> e] \in SaveRec'
  BY <1>1, <1>3 DEF Rows, SaveRec, Kind
<1>5. /\ saves' \in Seq(SaveRec') /\ Timers' /\ timer' = "none"
      /\ Departing(saves', leaving)
  <2>1. ForcePersist("edit", e, TRUE, saves, content') /\ made \subseteq made'
    OBVIOUS
  <2>2. "edit" # "timer" /\ "edit" # "leave"
    OBVIOUS
  <2> QED
    BY <2>1, <2>2, <1>4, ForcedInv
<1>6. Marks' /\ Docs' /\ Pages' /\ HasDocument' /\ GoneLoads'
  BY <1>5 DEF IInv, Marks, Docs, Pages, HasDocument, GoneLoads
<1> QED
  BY <1>3, <1>5, <1>6 DEF IInv, Departures

LEMMA ILeave ==
  ASSUME IInv, NEW c \in Clients, Leave(c)
  PROVE  IInv'
<1> USE DEF registries
<1> DEFINE waits == dirty /\ docRegistry # None
<1>1. /\ saves \in Seq(SaveRec) /\ crdt_state \subseteq made /\ docRegistry \in DocIds \cup {None}
      /\ leaving \subseteq Clients /\ last \subseteq leaving
  BY DEF IInv, Rows, Docs, Departures
<1>2. crdt_state' \subseteq made
  BY <1>1, CancelledRow DEF Leave
<1>3. c \notin leaving
  BY DEF Leave, IInv, GoneLoads, SecondLoad
<1>4. waits => [snapshot |-> content[docRegistry], kind |-> "leave", by |-> c] \in SaveRec'
  BY <1>1 DEF Leave, IInv, Rows, SaveRec, Kind
<1>5. ForcePersist("leave", c, dirty, saves, content) /\ made \subseteq made'
  BY DEF Leave
<1>6. /\ saves' \in Seq(SaveRec') /\ Timers' /\ timer' = "none"
      /\ Departing(saves', IF waits THEN leaving \cup {c} ELSE leaving)
  BY <1>3, <1>4, <1>5, ForcedInv
<1>7. /\ waits => leaving' = leaving \cup {c} /\ last' \subseteq last \cup {c} /\ UNCHANGED <<registries, dirty>>
      /\ ~waits => UNCHANGED <<leaving, last>>
      /\ UNCHANGED <<registries, dirty>> \/ (docRegistry' = None /\ documents' = None /\ dirty' = FALSE)
  BY DEF Leave, Evict
<1>8. Departures'
  BY <1>1, <1>6, <1>7 DEF Departures
<1>9. /\ \/ /\ pc[c] = "ready" /\ UNCHANGED gone
            /\ pc' = [pc EXCEPT ![c] = "out"] /\ doc' = [doc EXCEPT ![c] = None]
         \/ /\ pc[c] \in {"joined"} \cup SecondLoad /\ gone' = gone \cup {c}
            /\ UNCHANGED <<pc, doc>>
      /\ presence' = presence \ {c}
      /\ UNCHANGED <<world, content, row, made, late, saved>>
  BY DEF Leave
<1>10. Rows' /\ Marks' /\ Docs' /\ Pages'
  BY <1>2, <1>6, <1>7, <1>9 DEF IInv, Rows, Marks, Docs, Pages
<1>11. HasDocument'
  BY <1>9 DEF IInv, Docs, Pages, HasDocument, Serving, FirstLoad, SecondLoad
<1>12. GoneLoads'
  <2>1. leaving' \subseteq leaving \cup {c}
    BY <1>7
  <2>2. \A b \in gone' : pc'[b] \in {"joined"} \cup SecondLoad
    BY <1>9 DEF IInv, Pages, GoneLoads, SecondLoad
  <2>3. \A b \in leaving' : pc'[b] = "out" \/ b \in gone'
    BY <1>1, <1>9, <2>1 DEF IInv, Pages, GoneLoads
  <2> QED
    BY <2>2, <2>3 DEF GoneLoads
<1> QED
  BY <1>6, <1>8, <1>10, <1>11, <1>12 DEF IInv

LEMMA IProcessEnds ==
  ASSUME IInv, ProcessEnds
  PROVE  IInv'
<1> USE DEF ProcessEnds
<1>1. Rows' /\ Marks' /\ Docs' /\ Pages'
  BY DEF IInv, Rows, Marks, Docs, Pages
<1>2. HasDocument' /\ GoneLoads'
  BY DEF HasDocument, GoneLoads, Serving, FirstLoad, SecondLoad
<1>3. saves' \in Seq(SaveRec') /\ Departures' /\ Timers'
  BY DEF Departures, Departing, Timers, OneTimer, NoTimer
<1> QED
  BY <1>1, <1>2, <1>3 DEF IInv

(* The parts of a save's return that the invariants need. *)
Returned(i, ok) == IF ok THEN saves[i].snapshot ELSE crdt_state
Evicts(i)       == saves[i].kind = "leave" /\ saves[i].by \in last

LEMMA SaveReturnsFacts ==
  ASSUME NEW i, NEW ok \in BOOLEAN, SaveReturns(i, ok)
  PROVE  /\ InOrder => i = 1
         /\ ok \/ Failures
         /\ saved' = IF saves[i].kind = "edit" THEN saved \cup {saves[i].by} ELSE saved
         /\ leaving' = IF saves[i].kind = "leave" THEN leaving \ {saves[i].by} ELSE leaving
         /\ last' = IF saves[i].kind = "leave" THEN last \ {saves[i].by} ELSE last
         /\ Evicts(i) =>
              /\ documents' = None /\ docRegistry' = None /\ dirty' = FALSE /\ timer' = "none"
              /\ saves' = WithoutTimer(RemoveAt(saves, i))
              /\ Cancelled(RemoveAt(saves, i), Returned(i, ok))
         /\ ~Evicts(i) =>
              /\ UNCHANGED registries /\ dirty' = (dirty /\ (ok => saves[i].kind = "load"))
              /\ timer' = IF saves[i].kind = "timer" THEN "none" ELSE timer
              /\ saves' = RemoveAt(saves, i)
              /\ crdt_state' = Returned(i, ok)
         /\ UNCHANGED <<world, content, presence, pc, row, doc, gone, made, late>>
BY DEF SaveReturns, Returned, Evicts, Evict, DirtyAfter

LEMMA ISaveReturns ==
  ASSUME IInv, NEW i \in DOMAIN saves, NEW ok \in BOOLEAN, SaveReturns(i, ok)
  PROVE  IInv'
<1> USE DEF registries
<1> DEFINE x == saves[i]
           rest == RemoveAt(saves, i)
           left == IF x.kind = "leave" THEN leaving \ {x.by} ELSE leaving
<1>1. /\ saves \in Seq(SaveRec) /\ Departing(saves, leaving) /\ OneTimer(saves)
      /\ timer # "saving" => NoTimer(saves)
      /\ leaving \subseteq Clients /\ last \subseteq leaving
      /\ timer \in {"none", "sleeping", "saving"} /\ dirty \in BOOLEAN
  BY DEF IInv, Departures, Timers, Marks
<1>2. x \in SaveRec
  BY <1>1
<1>3. /\ x.snapshot \subseteq made /\ (x.kind = "edit" => x.by \in made)
      /\ Returned(i, ok) \subseteq made
  BY <1>2 DEF SaveRec, Returned, IInv, Rows
<1>4. rest \in Seq(SaveRec) /\ Departing(rest, left)
  BY <1>1, RemoveAtFacts, RemoveAtDeparting
<1>5. OneTimer(rest) /\ (x.kind = "timer" \/ NoTimer(saves) => NoTimer(rest))
  BY <1>1, RemoveAtOneTimer
<1>6. Departing(WithoutTimer(rest), left) /\ NoTimer(WithoutTimer(rest))
      /\ WithoutTimer(rest) \in Seq(SaveRec)
  BY <1>4, <1>5, WithoutTimerSeq, WithoutTimerDeparting, WithoutTimerNoTimer
<1>7. left \subseteq Clients /\ (IF x.kind = "leave" THEN last \ {x.by} ELSE last) \subseteq left
  BY <1>1
<1>8. UNCHANGED <<world, content, presence, pc, row, doc, gone, made, late>> /\ leaving' = left
      /\ last' = IF x.kind = "leave" THEN last \ {x.by} ELSE last
  BY SaveReturnsFacts
<1> HIDE DEF left, rest
<1>9. /\ saves' \in Seq(SaveRec) /\ Departing(saves', left) /\ Timers' /\ crdt_state' \subseteq made
      /\ timer' \in {"none", "sleeping", "saving"} /\ dirty' \in BOOLEAN
      /\ UNCHANGED registries \/ (documents' = None /\ docRegistry' = None)
  <2>1. CASE Evicts(i)
    <3>1. /\ documents' = None /\ docRegistry' = None /\ dirty' = FALSE /\ timer' = "none"
          /\ saves' = WithoutTimer(rest) /\ Cancelled(rest, Returned(i, ok))
      BY <2>1, SaveReturnsFacts DEF rest
    <3>2. crdt_state' \subseteq made
      BY <3>1, <1>3, <1>4, CancelledRow
    <3>3. Timers'
      BY <3>1, <1>6 DEF Timers, OneTimer, NoTimer
    <3> QED
      BY <3>1, <3>2, <3>3, <1>6
  <2>2. CASE ~Evicts(i)
    <3>1. /\ UNCHANGED registries /\ dirty' = (dirty /\ (ok => x.kind = "load"))
          /\ timer' = IF x.kind = "timer" THEN "none" ELSE timer
          /\ saves' = rest /\ crdt_state' = Returned(i, ok)
      BY <2>2, SaveReturnsFacts DEF rest
    <3>2. Timers'
      BY <3>1, <1>1, <1>5 DEF Timers
    <3> QED
      BY <3>1, <3>2, <1>1, <1>3, <1>4
  <2> QED
    BY <2>1, <2>2
<1>10. saved' \subseteq made
  BY <1>3, SaveReturnsFacts DEF IInv, Rows
<1>11. Rows' /\ Marks' /\ Docs' /\ Pages' /\ HasDocument'
  BY <1>8, <1>9, <1>10 DEF IInv, Rows, Marks, Docs, Pages, HasDocument
<1>12. GoneLoads'
  BY <1>8 DEF IInv, GoneLoads, left
<1>13. saves' \in Seq(SaveRec')
  BY <1>8, <1>9 DEF SaveRec
<1>14. Departures'
  BY <1>7, <1>8, <1>9 DEF Departures
<1> QED
  BY <1>9, <1>11, <1>12, <1>13, <1>14 DEF IInv

LEMMA IInvNext ==
  ASSUME IInv, [Next]_vars
  PROVE  IInv'
<1>1. CASE UNCHANGED vars
  <2> USE <1>1 DEF vars
  <2>1. Rows' /\ Marks' /\ Docs' /\ Pages' /\ HasDocument' /\ GoneLoads'
    BY DEF IInv, Rows, Marks, Docs, Pages, HasDocument, GoneLoads
  <2>2. saves' \in Seq(SaveRec') /\ Departures' /\ Timers'
    BY SameSaves, SameDepartures, SameTimers
  <2> QED
    BY <2>1, <2>2 DEF IInv
<1>2. CASE Next
  BY <1>2, ITimerFires, IPersistAll, ISaveReturns, IProcessEnds, IFetch, IBeginLoad, IRepairTags,
     IFinishFirstLoad, IFinishSecondLoad, ILeave, IRevoke, IType, IAnnotate DEF Next, Crash, Stop
<1> QED
  BY <1>1, <1>2

LEMMA AlwaysIInv == Spec => []IInv
BY IInvInit, IInvNext, PTL DEF Spec

-----------------------------------------------------------------------------
(* One save for each departure, in numbers. *)
LEMMA OneLeaveEach ==
  ASSUME NEW M, NEW s \in Seq(M), NEW cs, Departing(s, cs), NEW c
  PROVE  c \in cs <=>
           Cardinality({i \in DOMAIN s : s[i].kind = "leave" /\ s[i].by = c}) = 1
<1> DEFINE own == {i \in DOMAIN s : s[i].kind = "leave" /\ s[i].by = c}
<1>1. IsFiniteSet(own)
  <2>1. DOMAIN s = 1 .. Len(s) /\ Len(s) \in Int /\ 1 \in Int
    OBVIOUS
  <2>2. IsFiniteSet(1 .. Len(s))
    BY <2>1, FS_Interval
  <2>3. own \in SUBSET (1 .. Len(s))
    BY <2>1
  <2> QED
    BY <2>2, <2>3, FS_Subset
<1>2. ASSUME c \in cs PROVE \E i : own = {i}
  <2>1. PICK i \in DOMAIN s : s[i].kind = "leave" /\ s[i].by = c
    BY <1>2 DEF Departing
  <2>2. own = {i}
    BY <2>1 DEF Departing
  <2> QED
    BY <2>2
<1>3. ASSUME NEW i, own = {i} PROVE c \in cs
  BY <1>3, SMTT(30) DEF Departing
<1> HIDE DEF own
<1>4. Cardinality(own) = 1 <=> \E i : own = {i}
  BY <1>1, FS_Singleton
<1>5. c \in cs <=> Cardinality(own) = 1
  BY <1>2, <1>3, <1>4
<1> QED
  BY <1>5 DEF own

(* The registry of documents and the persistence manager hold the same     *)
(* document, every save in flight holds edits that were made, and every    *)
(* client that departs awaits exactly one save (force_persist_workspace),  *)
(* whatever loads, departures and crashes overlap.                         *)
THEOREM TypeCorrect == Spec => []TypeOK
<1>1. ASSUME IInv PROVE TypeOK
  <2> USE <1>1 DEF IInv
  <2>1. /\ crdt_state \subseteq made /\ saved \subseteq made
        /\ made \subseteq Edits /\ late \subseteq made /\ world \in Worlds
        /\ content \in [DocIds -> SUBSET made] /\ row \in [Clients -> SUBSET made]
    BY DEF Rows
  <2>2. /\ documents \in DocIds \cup {None} /\ docRegistry = documents
        /\ dirty \in BOOLEAN /\ timer \in {"none", "sleeping", "saving"}
        /\ doc \in [Clients -> DocIds \cup {None}]
    BY DEF Docs, Marks
  <2>3. \A i \in DOMAIN saves : saves[i].snapshot \subseteq made
    <3> SUFFICES ASSUME NEW i \in DOMAIN saves PROVE saves[i].snapshot \subseteq made
      OBVIOUS
    <3>1. saves[i] \in SaveRec
      OBVIOUS
    <3> QED
      BY <3>1 DEF SaveRec
  <2>4. /\ presence \subseteq Clients /\ last \subseteq leaving
        /\ pc \in [Clients -> {"out", "fetched", "found", "joined", "ready"}
                                \cup FirstLoad \cup SecondLoad]
    BY DEF Pages, Departures
  <2>5. gone \subseteq Loading
    BY DEF Pages, GoneLoads, Loading, SecondLoad
  <2>6. \A c \in Clients : (c \in leaving) <=>
          Cardinality({i \in DOMAIN saves : saves[i].kind = "leave" /\ saves[i].by = c}) = 1
    BY OneLeaveEach DEF Departures
  <2> QED
    BY <2>1, <2>2, <2>3, <2>4, <2>5, <2>6 DEF TypeOK
<1> QED
  BY <1>1, AlwaysIInv, PTL

(* A failed save, a superseded one or a tag repair leave the dirty mark    *)
(* for the next attempt: only a save that wrote the row, an eviction or    *)
(* the end of the process removes it (_persist_workspace).                 *)
THEOREM StaysDirty == Spec => DirtyUntilWritten
<1>1. ASSUME [Next]_vars, dirty, ~dirty'
      PROVE  \/ docRegistry' = None
             \/ \E i \in DOMAIN saves : /\ saves[i].kind # "load"
                                        /\ crdt_state' = saves[i].snapshot
  <2>1. ~UNCHANGED vars
    BY <1>1 DEF vars
  <2>2. ASSUME NEW i \in DOMAIN saves, NEW ok \in BOOLEAN, SaveReturns(i, ok), docRegistry' # None
        PROVE  saves[i].kind # "load" /\ crdt_state' = saves[i].snapshot
    BY <1>1, <2>2, SaveReturnsFacts DEF Returned
  <2>3. ASSUME NEW c \in Clients, Leave(c)
        PROVE  docRegistry' = None
    BY <1>1, <2>3 DEF Leave, Evict
  <2>4. ASSUME ProcessEnds
        PROVE  docRegistry' = None
    BY <2>4 DEF ProcessEnds
  <2>5. ASSUME NEW c \in Clients
        PROVE  /\ ~Fetch(c) /\ ~BeginLoad(c) /\ ~RepairTags(c) /\ ~FinishFirstLoad(c)
               /\ ~FinishSecondLoad(c) /\ ~Revoke(c)
               /\ \A e \in Edits : ~Type(c, e) /\ ~Annotate(c, e)
    BY <1>1 DEF Fetch, BeginLoad, RepairTags, FinishFirstLoad, FinishSecondLoad, Revoke, Type, Annotate, Make
  <2>6. ~TimerFires /\ ~PersistAll
    BY <1>1 DEF TimerFires, PersistAll
  <2> QED
    BY <1>1, <2>1, <2>2, <2>3, <2>4, <2>5, <2>6 DEF Next, Crash, Stop
<1>2. [Next]_vars =>
        [dirty /\ ~dirty' =>
           \/ docRegistry' = None
           \/ \E i \in DOMAIN saves : /\ saves[i].kind # "load"
                                      /\ crdt_state' = saves[i].snapshot]_vars
  BY <1>1
<1> QED
  BY <1>2, PTL DEF Spec, DirtyUntilWritten

-----------------------------------------------------------------------------
(* Page loads and departures that do not overlap                           *)

Apart == ~Overlap

(* One page loads at a time, or one client departs, and a departing last   *)
(* client leaves an empty room.                                            *)
OneAtATime ==
  /\ \A c, d \in Loading : c = d
  /\ Loading = {} \/ leaving = {}
  /\ \A c, d \in leaving : c = d
  /\ gone = {}
  /\ presence = {c \in Clients : pc[c] \in {"joined", "ready"} \cup SecondLoad}
  /\ last # {} => presence = {}

(* Page loads and departures stay one at a time.                           *)
LEMMA OneAtATimeNext ==
  ASSUME IInv, Apart, OneAtATime, Next
  PROVE  OneAtATime'
<1>0. /\ pc \in [Clients -> {"out", "fetched", "found", "joined", "ready"} \cup FirstLoad \cup SecondLoad]
      /\ last \subseteq leaving
  BY DEF IInv, Pages, Departures
<1>1. ASSUME NEW c \in Clients, Fetch(c) PROVE OneAtATime'
  <2>1. /\ pc[c] = "out" /\ Loading = {} /\ leaving = {} /\ pc' = [pc EXCEPT ![c] = "fetched"]
        /\ UNCHANGED <<presence, gone, leaving, last>>
    BY <1>1 DEF Fetch, Apart
  <2>2. Loading' = {c}
    BY <1>0, <2>1 DEF Loading
  <2> QED
    BY <1>0, <2>1, <2>2 DEF OneAtATime, SecondLoad
<1>2. ASSUME NEW c \in Clients, BeginLoad(c) PROVE OneAtATime'
  <2>1. PICK p \in FirstLoad \cup SecondLoad :
          /\ pc' = [pc EXCEPT ![c] = p]
          /\ (p \in SecondLoad /\ pc[c] = "joined") \/ (p \in FirstLoad /\ pc[c] = "fetched")
    BY <1>2 DEF BeginLoad, GetOrCreate, FirstLoad, SecondLoad
  <2>2. Loading' = Loading
    BY <1>0, <2>1 DEF Loading, FirstLoad, SecondLoad
  <2>3. \A b \in Clients : pc'[b] \in {"joined", "ready"} \cup SecondLoad
                             <=> pc[b] \in {"joined", "ready"} \cup SecondLoad
    BY <1>0, <2>1 DEF FirstLoad, SecondLoad
  <2> QED
    BY <1>2, <2>2, <2>3 DEF BeginLoad, OneAtATime
<1>3. ASSUME NEW c \in Clients, FinishFirstLoad(c) PROVE OneAtATime'
  <2>1. /\ pc[c] \in FirstLoad \cup {"found"} /\ UNCHANGED <<gone, leaving, last>>
        /\ \E p \in {"found", "joined", "out"} :
             /\ pc' = [pc EXCEPT ![c] = p]
             /\ presence' = IF p = "joined" THEN presence \cup {c} ELSE presence
    BY <1>3 DEF FinishFirstLoad, Join
  <2>2. c \in Loading /\ \A b \in Clients : b # c => pc[b] \in {"out", "ready"}
    BY <2>1 DEF OneAtATime, Loading, FirstLoad
  <2>3. Loading' \subseteq {c} /\ leaving = {} /\ last = {}
    BY <1>0, <2>1, <2>2 DEF Loading, OneAtATime
  <2>4. presence' = {b \in Clients : pc'[b] \in {"joined", "ready"} \cup SecondLoad}
    BY <1>0, <2>1 DEF OneAtATime, FirstLoad, SecondLoad
  <2> QED
    BY <2>1, <2>3, <2>4 DEF OneAtATime
<1>4. ASSUME NEW c \in Clients, FinishSecondLoad(c) PROVE OneAtATime'
  <2>1. /\ pc[c] \in SecondLoad /\ gone = {} /\ gone' = {} /\ pc' = [pc EXCEPT ![c] = "ready"]
        /\ UNCHANGED <<presence, leaving, last>>
    BY <1>4 DEF FinishSecondLoad, OneAtATime
  <2>2. Loading' \subseteq Loading
    BY <1>0, <2>1 DEF Loading
  <2>3. \A b \in Clients : pc'[b] \in {"joined", "ready"} \cup SecondLoad
                             <=> pc[b] \in {"joined", "ready"} \cup SecondLoad
    BY <1>0, <2>1
  <2> QED
    BY <2>1, <2>2, <2>3 DEF OneAtATime
<1>5. ASSUME NEW c \in Clients, Leave(c) PROVE OneAtATime'
  <2>1. /\ Loading = {} /\ leaving = {} /\ last = {}
        /\ pc[c] = "ready" /\ pc' = [pc EXCEPT ![c] = "out"]
        /\ gone' = gone /\ presence' = presence \ {c}
        /\ leaving' \subseteq {c} /\ (last' # {} => IsLast(c))
    BY <1>0, <1>5 DEF Leave, Apart, Loading, SecondLoad
  <2>2. Loading' = {} /\ \A b \in Clients : pc[b] \in {"out", "ready"}
    BY <1>0, <2>1 DEF Loading
  <2>3. presence' = {b \in Clients : pc'[b] \in {"joined", "ready"} \cup SecondLoad}
    BY <1>0, <2>1 DEF OneAtATime, SecondLoad
  <2>4. last' # {} => presence' = {}
    BY <2>1 DEF IsLast
  <2> QED
    BY <2>1, <2>2, <2>3, <2>4 DEF OneAtATime
<1>6. ASSUME NEW i \in DOMAIN saves, NEW ok \in BOOLEAN, SaveReturns(i, ok) PROVE OneAtATime'
  <2>1. leaving' \subseteq leaving /\ last' \subseteq last /\ UNCHANGED <<presence, pc, gone>>
    BY <1>6, SaveReturnsFacts
  <2> QED
    BY <2>1 DEF OneAtATime, Loading
<1>7. ASSUME ProcessEnds PROVE OneAtATime'
  BY <1>7 DEF ProcessEnds, OneAtATime, Loading, SecondLoad
<1>8. ASSUME UNCHANGED clients PROVE OneAtATime'
  BY <1>8 DEF clients, OneAtATime, Loading
<1>9. /\ TimerFires \/ PersistAll => UNCHANGED clients
      /\ \A c \in Clients : RepairTags(c) => UNCHANGED clients
      /\ \A c \in Clients, e \in Edits : Type(c, e) \/ Annotate(c, e) => UNCHANGED clients
  BY DEF TimerFires, PersistAll, RepairTags, Type, Annotate
<1>10. \A c \in Clients : ~Revoke(c)
  BY DEF Revoke, Apart
<1> QED
  BY <1>1, <1>2, <1>3, <1>4, <1>5, <1>6, <1>7, <1>8, <1>9, <1>10 DEF Next, Crash, Stop

-----------------------------------------------------------------------------
(* The invariant of a calm world                                           *)

(* Whoever has been served a document has been served the registered one;  *)
(* one that is not registered yet is as good as the row, which no save is  *)
(* about to change.                                                        *)
Served ==
  \A c \in Clients :
    /\ pc[c] # "found"
    /\ pc[c] = "joined" => docRegistry # None
    /\ pc[c] \in {"ready", "checking", "rechecking"} =>
         docRegistry # None /\ doc[c] = docRegistry
    /\ pc[c] \in {"creating", "recreating"} =>
         docRegistry = None /\ content[doc[c]] = crdt_state
    /\ pc[c] = "fetched" /\ docRegistry = None => row[c] = crdt_state
    /\ pc[c] # "out" /\ docRegistry = None => saves = << >>

(* The row, the saves in flight and the registered document, each holding  *)
(* what those before it hold.                                              *)
Chain ==
  /\ Rising(saves, crdt_state)
  /\ docRegistry # None =>
       /\ crdt_state \subseteq content[docRegistry]
       /\ \A i \in DOMAIN saves : saves[i].snapshot \subseteq content[docRegistry]

EditsKept ==
  /\ \A i \in DOMAIN saves : saves[i].kind = "edit" => saves[i].by \in saves[i].snapshot
  /\ saved \subseteq crdt_state

CalmInv == OneAtATime /\ Served /\ Chain /\ EditsKept

(* The row never shrinks on the way. *)
CalmStep == CalmInv' /\ crdt_state \subseteq crdt_state'

LEMMA CalmInit == Init => CalmInv
BY DEF Init, CalmInv, OneAtATime, Served, Chain, Rising, EditsKept, Loading, SecondLoad

(* A cancelled save that is committed all the same was the first of them. *)
LEMMA CalmCancelled ==
  ASSUME InOrder, NEW M, NEW s \in Seq(M), NEW state, Rising(s, state), Cancelled(s, state)
  PROVE  /\ state \subseteq crdt_state' /\ Rising(WithoutTimer(s), crdt_state')
         /\ \A high : state \subseteq high /\ (\A i \in DOMAIN s : s[i].snapshot \subseteq high)
                        => crdt_state' \subseteq high
<1>1. \/ crdt_state' = state
      \/ 1 \in DOMAIN s /\ crdt_state' = s[1].snapshot
  BY CancelledState
<1>2. CASE crdt_state' = state
  BY <1>2, WithoutTimerRising
<1>3. CASE 1 \in DOMAIN s /\ crdt_state' = s[1].snapshot
  BY <1>3, FirstRising, WithoutTimerRising
<1> QED
  BY <1>1, <1>2, <1>3

LEMMA EditsLeft ==
  ASSUME NEW M, NEW s \in Seq(M),
         \A i \in DOMAIN s : s[i].kind = "edit" => s[i].by \in s[i].snapshot
  PROVE  /\ \A i \in DOMAIN WithoutTimer(s) : WithoutTimer(s)[i].kind = "edit" =>
              WithoutTimer(s)[i].by \in WithoutTimer(s)[i].snapshot
         /\ \A x \in M : (x.kind = "edit" => x.by \in x.snapshot) =>
              \A i \in DOMAIN Append(s, x) : Append(s, x)[i].kind = "edit" =>
                Append(s, x)[i].by \in Append(s, x)[i].snapshot
BY WithoutTimerOneByOne, AppendOneByOne

(* A force persist appends what the registered document holds. *)
LEMMA CalmForced ==
  ASSUME IInv, Calm, CalmInv, docRegistry # None,
         NEW kind \in Kind, NEW by \in Clients \cup Edits \cup {None}, NEW isDirty, NEW state,
         ForcePersist(kind, by, isDirty, saves, state), Cancelled(saves, crdt_state),
         content[docRegistry] \subseteq state[docRegistry],
         kind = "edit" => by \in state[docRegistry]
  PROVE  /\ crdt_state \subseteq crdt_state' /\ Rising(saves', crdt_state')
         /\ crdt_state' \subseteq state[docRegistry]
         /\ \A i \in DOMAIN saves' :
              /\ saves'[i].snapshot \subseteq state[docRegistry]
              /\ saves'[i].kind = "edit" => saves'[i].by \in saves'[i].snapshot
<1> DEFINE t == WithoutTimer(saves)
           high == state[docRegistry]
           x == [snapshot |-> high, kind |-> kind, by |-> by]
           any == [snapshot : SUBSET (made \cup high), kind : Kind, by : Clients \cup Edits \cup {None}]
<1>1. saves \in Seq(SaveRec) /\ saves \in Seq(any)
  <2>1. SaveRec \subseteq any
    BY DEF SaveRec
  <2> HIDE DEF any
  <2> QED
    BY <2>1, SeqMore DEF IInv
<1>2. /\ Rising(saves, crdt_state) /\ crdt_state \subseteq high
      /\ \A i \in DOMAIN saves : saves[i].snapshot \subseteq high
      /\ \A i \in DOMAIN saves : saves[i].kind = "edit" => saves[i].by \in saves[i].snapshot
  BY DEF CalmInv, Chain, EditsKept
<1>3. x \in any /\ x.snapshot = high /\ (x.kind = "edit" => x.by \in x.snapshot)
  OBVIOUS
<1>4. saves' = IF isDirty THEN t \o << x >> ELSE t
  BY <1>1, ForcedSaves
<1> HIDE DEF any, x, high
<1>5. /\ crdt_state \subseteq crdt_state' /\ Rising(t, crdt_state') /\ crdt_state' \subseteq high
  BY <1>1, <1>2, CalmCancelled DEF Calm
<1>6. /\ t \in Seq(any)
      /\ \A i \in DOMAIN t : t[i].snapshot \subseteq high
      /\ \A i \in DOMAIN t : t[i].kind = "edit" => t[i].by \in t[i].snapshot
  BY <1>1, <1>2, WithoutTimerSeq, WithoutTimerOneByOne, EditsLeft
<1> HIDE DEF t
<1>7. CASE isDirty
  <2>1. saves' = Append(t, x)
    BY <1>3, <1>4, <1>6, <1>7, OneMore
  <2>2. Rising(saves', crdt_state')
    BY <1>3, <1>5, <1>6, <2>1, AppendRising
  <2>3. \A i \in DOMAIN saves' : saves'[i] = x \/ \E k \in DOMAIN t : saves'[i] = t[k]
    BY <1>3, <1>6, <2>1, AppendOneByOne
  <2> QED
    BY <1>3, <1>5, <1>6, <2>2, <2>3 DEF high
<1>8. CASE ~isDirty
  BY <1>4, <1>5, <1>6, <1>8 DEF high
<1> QED
  BY <1>7, <1>8

LEMMA CalmFetch ==
  ASSUME IInv, Calm, CalmInv, NEW c \in Clients, Fetch(c)
  PROVE  CalmStep
<1> USE DEF CalmInv
<1>1. /\ pc[c] = "out" /\ Loading = {} /\ leaving = {} /\ saves = << >>
      /\ pc' = [pc EXCEPT ![c] = "fetched"] /\ row' = [row EXCEPT ![c] = crdt_state]
      /\ UNCHANGED <<crdt_state, content, documents, docRegistry, saves, presence, doc, gone,
                     leaving, last, saved>>
  BY DEF Fetch, Calm, registries
<1>2. pc \in [Clients -> {"out", "fetched", "found", "joined", "ready"} \cup FirstLoad \cup SecondLoad]
  BY DEF IInv, Pages
<1>4. OneAtATime'
  BY OneAtATimeNext DEF Calm, Apart, Next
<1>5. Served'
  BY <1>1, <1>2 DEF IInv, Rows, Served
<1>6. Chain' /\ EditsKept'
  BY <1>1 DEF Chain, Rising, EditsKept
<1> QED
  BY <1>1, <1>4, <1>5, <1>6 DEF CalmStep

(* The only page that loads looks its document up. *)
LEMMA CalmBeginLoad ==
  ASSUME IInv, Calm, CalmInv, NEW c \in Clients, BeginLoad(c)
  PROVE  CalmStep
<1> USE DEF CalmInv
<1>1. /\ UNCHANGED <<crdt_state, documents, docRegistry, saves, presence, gone, leaving, last, saved>>
      /\ row' = [row EXCEPT ![c] = {}]
  BY DEF BeginLoad, registries
<1>2. PICK state, hit, miss :
        /\ GetOrCreate(c, state, hit, miss)
        /\ \/ pc[c] = "fetched" /\ state = row[c] /\ hit = "checking" /\ miss = "creating"
           \/ pc[c] = "joined" /\ hit = "rechecking" /\ miss = "recreating"
  BY DEF BeginLoad, LoadedFrom, Calm
<1>3. /\ pc \in [Clients -> {"out", "fetched", "found", "joined", "ready"} \cup FirstLoad \cup SecondLoad]
      /\ doc \in [Clients -> DocIds \cup {None}] /\ docRegistry = documents
      /\ row \in [Clients -> SUBSET made] /\ content \in [DocIds -> SUBSET made]
  BY DEF IInv, Pages, Docs, Rows
<1>4. /\ c \in Loading /\ \A b \in Clients : b # c => pc[b] \in {"out", "ready"}
  BY <1>2 DEF OneAtATime, Loading
<1>5. PICK p \in {hit, miss}, d \in DocIds :
        /\ pc' = [pc EXCEPT ![c] = p] /\ doc' = [doc EXCEPT ![c] = d]
        /\ \/ documents # None /\ p = hit /\ d = documents /\ content' = content
           \/ documents = None /\ p = miss /\ content' = [content EXCEPT ![d] = state]
  <2>1. /\ pc' = [pc EXCEPT ![c] = IF documents # None THEN hit ELSE miss]
        /\ \E d \in DocIds :
             /\ doc' = [doc EXCEPT ![c] = d]
             /\ \/ documents # None /\ d = documents /\ content' = content
                \/ /\ documents = None /\ \A b \in Clients : d # doc[b]
                   /\ content' = [content EXCEPT ![d] = state]
    BY <1>2, LookedUp
  <2> QED
    BY <2>1
<1>6. /\ p \in FirstLoad \cup SecondLoad
      /\ p \in SecondLoad <=> pc[c] = "joined"
  BY <1>2, <1>5 DEF FirstLoad, SecondLoad
<1>8. OneAtATime'
  BY OneAtATimeNext DEF Calm, Apart, Next
<1>9. CASE documents # None
  <2>1. p = hit /\ d = documents /\ content' = content
    BY <1>5, <1>9
  <2>2. Served'
    BY <1>1, <1>2, <1>3, <1>4, <1>5, <1>9, <2>1 DEF Served
  <2>3. Chain' /\ EditsKept'
    BY <1>1, <2>1 DEF Chain, EditsKept, Rising
  <2> QED
    BY <1>1, <1>8, <2>2, <2>3 DEF CalmStep
<1>10. CASE documents = None
  <2>1. p = miss /\ content' = [content EXCEPT ![d] = state]
    BY <1>5, <1>10
  <2>2. /\ pc[c] = "fetched" /\ state = crdt_state /\ saves = << >>
        /\ \A b \in Clients : b # c => pc[b] = "out"
    BY <1>2, <1>3, <1>4, <1>10 DEF Served
  <2>3. Served'
    BY <1>1, <1>2, <1>3, <1>5, <1>10, <2>1, <2>2 DEF Served
  <2>4. Chain' /\ EditsKept'
    BY <1>1, <1>3, <1>10 DEF Chain, EditsKept, Rising
  <2> QED
    BY <1>1, <1>8, <2>3, <2>4 DEF CalmStep
<1> QED
  BY <1>9, <1>10

(* The first load returns; a document it created is registered. *)
LEMMA CalmFinishFirstLoad ==
  ASSUME IInv, Calm, CalmInv, NEW c \in Clients, FinishFirstLoad(c)
  PROVE  CalmStep
<1> USE DEF CalmInv
<1>1. /\ pc[c] \in FirstLoad /\ RegisterDocument(c) /\ Join(c)
      /\ UNCHANGED <<crdt_state, content, saves, row, gone, leaving, last, saved>>
  BY DEF FinishFirstLoad, Calm, Served
<1>2. /\ pc \in [Clients -> {"out", "fetched", "found", "joined", "ready"} \cup FirstLoad \cup SecondLoad]
      /\ doc \in [Clients -> DocIds \cup {None}] /\ docRegistry = documents
      /\ doc[c] \in DocIds /\ doc[c] # None
  BY <1>1, NoneAssumption DEF IInv, Pages, Docs, HasDocument, Serving
<1>3. /\ c \in Loading /\ \A b \in Clients : b # c => pc[b] \in {"out", "ready"}
  BY <1>1 DEF OneAtATime, Loading, FirstLoad
<1>4. PICK p \in {"joined", "out"} :
        /\ pc' = [pc EXCEPT ![c] = p] /\ doc' = [doc EXCEPT ![c] = None]
        /\ presence' = IF p = "joined" THEN presence \cup {c} ELSE presence
  BY <1>1 DEF Join
<1>6. OneAtATime'
  BY OneAtATimeNext DEF Calm, Apart, Next
<1>7. CASE pc[c] = "checking"
  <2>1. UNCHANGED <<documents, docRegistry>> /\ docRegistry # None
    BY <1>1, <1>7 DEF RegisterDocument, registries, Served
  <2>2. Served'
    BY <1>1, <1>2, <1>3, <1>4, <2>1 DEF Served
  <2>3. Chain' /\ EditsKept'
    BY <1>1, <2>1 DEF Chain, EditsKept, Rising
  <2> QED
    BY <1>1, <1>6, <2>2, <2>3 DEF CalmStep
<1>8. CASE pc[c] = "creating"
  <2>1. /\ documents' = doc[c] /\ docRegistry' = doc[c]
        /\ docRegistry = None /\ content[doc[c]] = crdt_state /\ saves = << >>
        /\ \A b \in Clients : b # c => pc[b] = "out"
    BY <1>1, <1>3, <1>8 DEF RegisterDocument, Served
  <2>2. Served'
    BY <1>1, <1>2, <1>4, <2>1 DEF Served
  <2>3. Chain' /\ EditsKept'
    BY <1>1, <2>1 DEF Chain, EditsKept, Rising
  <2> QED
    BY <1>1, <1>6, <2>2, <2>3 DEF CalmStep
<1> QED
  BY <1>1, <1>7, <1>8 DEF FirstLoad

(* The second load gives the page the document it will edit. *)
LEMMA CalmFinishSecondLoad ==
  ASSUME IInv, Calm, CalmInv, NEW c \in Clients, FinishSecondLoad(c)
  PROVE  CalmStep
<1> USE DEF CalmInv
<1>1. /\ pc[c] \in SecondLoad /\ RegisterDocument(c) /\ gone = {} /\ gone' = gone \ {c}
      /\ UNCHANGED <<crdt_state, content, saves, presence, row, leaving, last, saved>>
  BY DEF FinishSecondLoad, OneAtATime
<1>2. /\ pc \in [Clients -> {"out", "fetched", "found", "joined", "ready"} \cup FirstLoad \cup SecondLoad]
      /\ doc \in [Clients -> DocIds \cup {None}] /\ docRegistry = documents
      /\ doc[c] \in DocIds /\ doc[c] # None
  BY <1>1, NoneAssumption DEF IInv, Pages, Docs, HasDocument, Serving
<1>3. pc' = [pc EXCEPT ![c] = "ready"] /\ doc' = doc
  BY <1>1, <1>2 DEF FinishSecondLoad
<1>4. /\ c \in Loading /\ \A b \in Clients : b # c => pc[b] \in {"out", "ready"}
  BY <1>1 DEF OneAtATime, Loading, SecondLoad
<1>6. OneAtATime'
  BY OneAtATimeNext DEF Calm, Apart, Next
<1>7. CASE pc[c] = "rechecking"
  <2>1. UNCHANGED <<documents, docRegistry>> /\ docRegistry # None /\ doc[c] = docRegistry
    BY <1>1, <1>7 DEF RegisterDocument, registries, Served
  <2>2. Served'
    BY <1>1, <1>2, <1>3, <1>4, <2>1 DEF Served
  <2>3. Chain' /\ EditsKept'
    BY <1>1, <2>1 DEF Chain, EditsKept, Rising
  <2> QED
    BY <1>1, <1>6, <2>2, <2>3 DEF CalmStep
<1>8. CASE pc[c] = "recreating"
  <2>1. /\ documents' = doc[c] /\ docRegistry' = doc[c]
        /\ docRegistry = None /\ content[doc[c]] = crdt_state /\ saves = << >>
        /\ \A b \in Clients : b # c => pc[b] = "out"
    BY <1>1, <1>4, <1>8 DEF RegisterDocument, Served
  <2>2. Served'
    BY <1>1, <1>2, <1>3, <2>1 DEF Served
  <2>3. Chain' /\ EditsKept'
    BY <1>1, <2>1 DEF Chain, EditsKept, Rising
  <2> QED
    BY <1>1, <1>6, <2>2, <2>3 DEF CalmStep
<1> QED
  BY <1>1, <1>7, <1>8 DEF SecondLoad

(* Someone is served a registered document: nobody waits for the row. *)
LEMMA SomeoneServed ==
  ASSUME IInv, CalmInv, NEW c \in Clients, pc[c] = "ready"
  PROVE  /\ docRegistry # None /\ docRegistry \in DocIds /\ doc[c] = docRegistry
         /\ \A b \in Clients : pc[b] \notin {"found", "creating", "recreating"}
  BY NoneAssumption DEF IInv, Docs, CalmInv, Served

(* A step of the registered document and its saves, no page moving. *)
LEMMA ServedStays ==
  ASSUME CalmInv, UNCHANGED <<pc, doc, docRegistry>>, docRegistry # None
  PROVE  Served'
BY DEF CalmInv, Served

LEMMA CalmType ==
  ASSUME IInv, Calm, CalmInv, NEW c \in Clients, NEW e \in Edits, Type(c, e)
  PROVE  CalmStep
<1> USE DEF CalmInv
<1>1. /\ docRegistry # None /\ docRegistry \in DocIds /\ doc[c] = docRegistry
  BY SomeoneServed DEF Type, Make
<1>2. /\ content' = [content EXCEPT ![doc[c]] = @ \cup {e}]
      /\ saves' = WithoutTimer(saves) /\ Cancelled(saves, crdt_state)
      /\ UNCHANGED <<documents, docRegistry, presence, pc, row, doc, gone, leaving, last, saved>>
  BY DEF Type, Make, registries, clients
<1>3. /\ content \in [DocIds -> SUBSET made] /\ saves \in Seq(SaveRec)
      /\ content'[docRegistry] = content[docRegistry] \cup {e}
  BY <1>1, <1>2 DEF IInv, Rows
<1>4. OneAtATime' /\ Served'
  BY <1>1, <1>2, ServedStays, OneAtATimeNext DEF Calm, Apart, Next
<1>5. /\ crdt_state \subseteq crdt_state' /\ Rising(saves', crdt_state')
      /\ crdt_state' \subseteq content[docRegistry]
  BY <1>1, <1>2, <1>3, CalmCancelled DEF Calm, Chain
<1>6. \A i \in DOMAIN saves' : saves'[i].snapshot \subseteq content[docRegistry]
  BY <1>1, <1>2, <1>3, WithoutTimerOneByOne DEF Chain
<1>7. Chain'
  BY <1>2, <1>3, <1>5, <1>6 DEF Chain
<1>8. EditsKept'
  BY <1>2, <1>3, <1>5, EditsLeft DEF EditsKept
<1> QED
  BY <1>4, <1>5, <1>7, <1>8 DEF CalmStep

LEMMA CalmAnnotate ==
  ASSUME IInv, Calm, CalmInv, NEW c \in Clients, NEW e \in Edits, Annotate(c, e)
  PROVE  CalmStep
<1> USE DEF CalmInv
<1>1. /\ docRegistry # None /\ docRegistry \in DocIds /\ doc[c] = docRegistry
  BY SomeoneServed DEF Annotate, Make
<1>2. /\ content' = [content EXCEPT ![doc[c]] = @ \cup {e}]
      /\ ForcePersist("edit", e, TRUE, saves, content') /\ Cancelled(saves, crdt_state)
      /\ UNCHANGED <<documents, docRegistry, presence, pc, row, doc, gone, leaving, last>>
      /\ saved' = saved
  BY <1>1 DEF Annotate, Make, registries, clients
<1>3. content'[docRegistry] = content[docRegistry] \cup {e}
  BY <1>1, <1>2 DEF IInv, Rows
<1>4. OneAtATime' /\ Served'
  BY <1>1, <1>2, ServedStays, OneAtATimeNext DEF Calm, Apart, Next
<1>5. /\ crdt_state \subseteq crdt_state' /\ Rising(saves', crdt_state')
      /\ crdt_state' \subseteq content'[docRegistry]
      /\ \A i \in DOMAIN saves' :
           /\ saves'[i].snapshot \subseteq content'[docRegistry]
           /\ saves'[i].kind = "edit" => saves'[i].by \in saves'[i].snapshot
  <2>1. "edit" \in Kind /\ e \in content'[docRegistry] /\ e \in Clients \cup Edits \cup {None}
        /\ content[docRegistry] \subseteq content'[docRegistry]
    BY <1>3 DEF Kind
  <2> QED
    BY <1>1, <1>2, <2>1, CalmForced
<1>6. Chain' /\ EditsKept'
  BY <1>2, <1>5 DEF Chain, EditsKept
<1> QED
  BY <1>4, <1>5, <1>6 DEF CalmStep

LEMMA CalmTimerFires ==
  ASSUME IInv, Calm, CalmInv, TimerFires
  PROVE  CalmStep
<1> USE DEF CalmInv
<1>1. UNCHANGED <<crdt_state, content, documents, docRegistry, presence, pc, row, doc, gone,
                  leaving, last, saved>>
  BY DEF TimerFires, registries, clients
<1>2. OneAtATime'
  BY OneAtATimeNext DEF Calm, Apart, Next
<1>3. CASE saves' = saves
  <2>1. Served' /\ Chain' /\ EditsKept'
    BY <1>1, <1>3 DEF Served, Chain, Rising, EditsKept
  <2> QED
    BY <1>1, <1>2, <2>1 DEF CalmStep
<1>4. CASE saves' # saves
  <2> DEFINE x == Save(docRegistry, "timer", None)
  <2>1. docRegistry # None /\ saves' = Append(saves, x)
    BY <1>4 DEF TimerFires
  <2>2. /\ x \in SaveRec /\ saves \in Seq(SaveRec)
    BY <2>1, SnapshotMade DEF IInv, Docs, Kind
  <2>3. x.snapshot = content[docRegistry] /\ x.kind = "timer"
    BY DEF Save
  <2> HIDE DEF x
  <2>4. Rising(saves', crdt_state)
    BY <2>1, <2>2, <2>3, AppendRising DEF Chain
  <2>5. \A i \in DOMAIN saves' : saves'[i] = x \/ \E k \in DOMAIN saves : saves'[i] = saves[k]
    BY <2>1, <2>2, AppendOneByOne
  <2>6. Chain' /\ EditsKept'
    BY <1>1, <2>1, <2>3, <2>4, <2>5 DEF Chain, EditsKept
  <2>7. Served'
    BY <1>1, <2>1, ServedStays
  <2> QED
    BY <1>1, <1>2, <2>6, <2>7 DEF CalmStep
<1> QED
  BY <1>3, <1>4

LEMMA CalmPersistAll ==
  ASSUME IInv, Calm, CalmInv, PersistAll
  PROVE  CalmStep
<1> USE DEF CalmInv
<1>1. /\ ForcePersist("all", None, dirty, saves, content) /\ Cancelled(saves, crdt_state)
      /\ UNCHANGED <<content, documents, docRegistry, presence, pc, row, doc, gone, leaving, last, saved>>
  BY DEF PersistAll, registries, clients
<1>2. OneAtATime' /\ saves \in Seq(SaveRec)
  BY OneAtATimeNext DEF Calm, Apart, Next, IInv
<1>3. CASE docRegistry # None
  <2>1. "all" \in Kind /\ None \in Clients \cup Edits \cup {None} /\ "all" # "edit"
        /\ content[docRegistry] \subseteq content[docRegistry]
    BY DEF Kind
  <2>2. /\ crdt_state \subseteq crdt_state' /\ Rising(saves', crdt_state')
        /\ crdt_state' \subseteq content[docRegistry]
        /\ \A i \in DOMAIN saves' :
             /\ saves'[i].snapshot \subseteq content[docRegistry]
             /\ saves'[i].kind = "edit" => saves'[i].by \in saves'[i].snapshot
    BY <1>1, <1>3, <2>1, CalmForced
  <2>3. Chain' /\ EditsKept'
    BY <1>1, <2>2 DEF Chain, EditsKept
  <2> QED
    BY <1>1, <1>2, <1>3, <2>2, <2>3, ServedStays DEF CalmStep
<1>4. CASE docRegistry = None
  <2>1. saves' = WithoutTimer(saves)
    BY <1>1, <1>2, <1>4, ForcedSaves
  <2>2. crdt_state \subseteq crdt_state' /\ Rising(saves', crdt_state')
    BY <1>1, <1>2, <2>1, CalmCancelled DEF Calm, Chain
  <2>3. Chain' /\ EditsKept'
    BY <1>1, <1>2, <1>4, <2>1, <2>2, EditsLeft DEF Chain, EditsKept
  <2>4. saves = << >> => saves' = << >> /\ crdt_state' = crdt_state
    BY <1>1, <2>1 DEF WithoutTimer, Cancelled
  <2>5. Served'
    BY <1>1, <1>4, <2>4 DEF Served
  <2> QED
    BY <1>2, <2>2, <2>3, <2>5 DEF CalmStep
<1> QED
  BY <1>3, <1>4

(* Only a page that edits leaves, and no other loads meanwhile. *)
LEMMA CalmLeave ==
  ASSUME IInv, Calm, CalmInv, NEW c \in Clients, Leave(c)
  PROVE  CalmStep
<1> USE DEF CalmInv
<1> DEFINE waits == dirty /\ docRegistry # None
<1>1. /\ Loading = {} /\ leaving = {} /\ last = {}
      /\ pc[c] = "ready" /\ pc' = [pc EXCEPT ![c] = "out"]
      /\ gone' = gone /\ presence' = presence \ {c} /\ doc' = [doc EXCEPT ![c] = None]
      /\ ForcePersist("leave", c, dirty, saves, content) /\ Cancelled(saves, crdt_state)
      /\ UNCHANGED <<content, row, saved>>
  BY DEF Leave, Calm, Loading, SecondLoad, IInv, Departures
<1>2. /\ leaving' = IF waits THEN leaving \cup {c} ELSE leaving
      /\ last' = IF waits /\ IsLast(c) THEN last \cup {c} ELSE last
      /\ \/ docRegistry' = docRegistry
         \/ docRegistry' = None /\ IsLast(c)
  BY DEF Leave, Evict, registries
<1>3. /\ pc \in [Clients -> {"out", "fetched", "found", "joined", "ready"} \cup FirstLoad \cup SecondLoad]
      /\ doc \in [Clients -> DocIds \cup {None}] /\ saves \in Seq(SaveRec)
      /\ docRegistry # None
      /\ \A b \in Clients : pc[b] \in {"out", "ready"}
  BY <1>1, SomeoneServed DEF IInv, Pages, Docs, Loading
<1>5. OneAtATime'
  BY OneAtATimeNext DEF Calm, Apart, Next
<1>6. /\ crdt_state \subseteq crdt_state' /\ Rising(saves', crdt_state')
      /\ crdt_state' \subseteq content[docRegistry]
      /\ \A i \in DOMAIN saves' :
           /\ saves'[i].snapshot \subseteq content[docRegistry]
           /\ saves'[i].kind = "edit" => saves'[i].by \in saves'[i].snapshot
  <2>1. "leave" \in Kind /\ c \in Clients \cup Edits \cup {None} /\ "leave" # "edit"
        /\ content[docRegistry] \subseteq content[docRegistry]
    BY DEF Kind
  <2> QED
    BY <1>1, <1>3, <2>1, CalmForced
<1>7. Chain' /\ EditsKept'
  BY <1>1, <1>2, <1>6 DEF Chain, EditsKept
<1>8. Served'
  <2>1. IsLast(c) => \A b \in Clients : b # c => pc[b] = "out"
    BY <1>3 DEF IsLast, OneAtATime
  <2>2. \A b \in Clients : pc'[b] = "out" \/ (pc'[b] = "ready" /\ b # c /\ pc[b] = "ready")
    BY <1>1, <1>3
  <2>3. \A b \in Clients : pc'[b] = "ready" => docRegistry' # None /\ doc'[b] = docRegistry'
    BY <1>1, <1>2, <1>3, <2>1, <2>2 DEF Served
  <2> QED
    BY <2>2, <2>3 DEF Served
<1> QED
  BY <1>5, <1>6, <1>7, <1>8 DEF CalmStep

(* The first save returns, and was written; a last client that awaited it  *)
(* leaves nobody whose document could go.                                  *)
LEMMA CalmSaveReturns ==
  ASSUME IInv, Calm, CalmInv, NEW i \in DOMAIN saves, NEW ok \in BOOLEAN, SaveReturns(i, ok)
  PROVE  CalmStep
<1> USE DEF CalmInv
<1> DEFINE x == saves[1]
           rest == RemoveAt(saves, 1)
<1>1. /\ i = 1 /\ ok = TRUE /\ 1 \in DOMAIN saves /\ saves # << >> /\ saves \in Seq(SaveRec)
      /\ Returned(i, ok) = x.snapshot
  <2>1. i = 1 /\ ok = TRUE
    BY SaveReturnsFacts DEF Calm
  <2> QED
    BY <2>1 DEF Returned, IInv
<1>2. /\ saved' = IF x.kind = "edit" THEN saved \cup {x.by} ELSE saved
      /\ leaving' \subseteq leaving /\ last' \subseteq last
      /\ UNCHANGED <<content, presence, pc, row, doc, gone>>
  BY <1>1, SaveReturnsFacts
<1>3. /\ Rising(rest, x.snapshot) /\ crdt_state \subseteq x.snapshot /\ rest \in Seq(SaveRec)
  BY <1>1, FirstRising, RemoveAtRising, RemoveAtFacts DEF Chain
<1>4. /\ \A j \in DOMAIN rest : \E k \in DOMAIN saves : rest[j] = saves[k]
  BY <1>1, RemoveAtOneByOne
<1>5. \A j \in DOMAIN rest : rest[j].kind = "edit" => rest[j].by \in rest[j].snapshot
  BY <1>4 DEF EditsKept
<1>6. x.kind = "edit" => x.by \in x.snapshot
  BY <1>1 DEF EditsKept
<1>7. OneAtATime'
  BY OneAtATimeNext DEF Calm, Apart, Next
<1>8. CASE Evicts(i)
  <2>1. /\ documents' = None /\ docRegistry' = None
        /\ saves' = WithoutTimer(rest) /\ Cancelled(rest, x.snapshot)
    BY <1>1, <1>8, SaveReturnsFacts
  <2>2. \A c \in Clients : pc[c] = "out"
    BY <1>8 DEF Evicts, OneAtATime, Loading, IInv, Departures
  <2>3. Served'
    BY <1>2, <2>2 DEF Served
  <2> HIDE DEF rest, x
  <2>4. x.snapshot \subseteq crdt_state' /\ Rising(saves', crdt_state')
    BY <1>3, <2>1, CalmCancelled DEF Calm
  <2>5. Chain' /\ EditsKept'
    BY <1>2, <1>3, <1>5, <1>6, <2>1, <2>4, EditsLeft DEF Chain, EditsKept
  <2> QED
    BY <1>3, <1>7, <2>3, <2>4, <2>5 DEF CalmStep
<1>9. CASE ~Evicts(i)
  <2>1. /\ UNCHANGED <<documents, docRegistry>> /\ saves' = rest /\ crdt_state' = x.snapshot
    BY <1>1, <1>9, SaveReturnsFacts DEF registries
  <2>2. Served'
    <3>1. CASE docRegistry = None
      <4>1. \A c \in Clients : pc[c] = "out"
        BY <1>1, <3>1 DEF Served
      <4> QED
        BY <1>2, <4>1 DEF Served
    <3>2. CASE docRegistry # None
      BY <1>2, <2>1, <3>2, ServedStays
    <3> QED
      BY <3>1, <3>2
  <2>3. docRegistry # None =>
          x.snapshot \subseteq content[docRegistry]
          /\ \A j \in DOMAIN rest : rest[j].snapshot \subseteq content[docRegistry]
    BY <1>1, <1>4 DEF Chain
  <2> HIDE DEF rest, x
  <2>4. Chain' /\ EditsKept'
    BY <1>2, <1>3, <1>5, <1>6, <2>1, <2>3 DEF Chain, EditsKept
  <2> QED
    BY <1>3, <1>7, <2>1, <2>2, <2>4 DEF CalmStep
<1> QED
  BY <1>8, <1>9

LEMMA CalmProcessEnds ==
  ASSUME IInv, Calm, CalmInv, ProcessEnds
  PROVE  CalmStep
<1> USE DEF CalmInv, ProcessEnds
<1>1. OneAtATime'
  BY DEF OneAtATime, Loading, SecondLoad
<1>2. Served' /\ Chain' /\ EditsKept'
  BY DEF Served, Chain, Rising, EditsKept
<1> QED
  BY <1>1, <1>2 DEF CalmStep

LEMMA CalmNext ==
  ASSUME IInv, Calm, CalmInv, [Next]_vars
  PROVE  CalmStep
<1>1. CASE UNCHANGED vars
  <2> USE <1>1 DEF vars, CalmInv
  <2>1. OneAtATime' /\ Served'
    BY DEF OneAtATime, Loading, Served
  <2>2. Chain' /\ EditsKept'
    BY DEF Chain, Rising, EditsKept
  <2> QED
    BY <2>1, <2>2 DEF CalmStep
<1>2. ASSUME NEW c \in Clients PROVE ~RepairTags(c) /\ ~Revoke(c)
  BY DEF Calm, RepairTags, Revoke
<1>3. CASE Next
  BY <1>2, <1>3, CalmTimerFires, CalmPersistAll, CalmSaveReturns, CalmProcessEnds, CalmFetch,
     CalmBeginLoad, CalmFinishFirstLoad, CalmFinishSecondLoad, CalmLeave, CalmType, CalmAnnotate
  DEF Next, Crash, Stop
<1> QED
  BY <1>1, <1>3

(* The conditions a workspace lives under never change. *)
LEMMA SameWorld ==
  ASSUME [Next]_vars
  PROVE  world' = world /\ (Calm' <=> Calm) /\ (Alone' <=> Alone) /\ (Overlap' <=> Overlap)
<1>1. world' = world
  BY DEF Next, vars, TimerFires, PersistAll, SaveReturns, Crash, Stop, ProcessEnds, Fetch, BeginLoad,
     RepairTags, FinishFirstLoad, FinishSecondLoad, Leave, Revoke, Type, Annotate, Make
<1> QED
  BY <1>1 DEF Calm, Alone, Overlap, InOrder, Failures, Drift, Restarts

LEMMA AlwaysCalm == Spec => [](IInv /\ (Calm => CalmInv))
<1>1. Init => IInv /\ (Calm => CalmInv)
  BY IInvInit, CalmInit
<1>2. IInv /\ (Calm => CalmInv) /\ [Next]_vars => (IInv /\ (Calm => CalmInv))'
  BY IInvNext, CalmNext, SameWorld DEF CalmStep
<1> QED
  BY <1>1, <1>2, PTL DEF Spec

-----------------------------------------------------------------------------
(* The invariant of page loads that do not overlap, whatever saves do      *)

(* Whoever has been served a document has been served the registered one,  *)
(* and one that is created holds no more than the row, or a save that is   *)
(* about to reach it.                                                      *)
Shared ==
  \A c \in Clients :
    /\ pc[c] # "recreating"
    /\ pc[c] = "joined" => docRegistry # None
    /\ pc[c] \in {"ready", "checking", "rechecking", "found"} =>
         docRegistry # None /\ doc[c] = docRegistry
    /\ pc[c] = "creating" =>
         /\ docRegistry = None /\ content[doc[c]] \subseteq crdt_state
         /\ \A i \in DOMAIN saves : content[doc[c]] \subseteq saves[i].snapshot
    /\ pc[c] = "fetched" /\ docRegistry = None =>
         row[c] \subseteq crdt_state /\ saves = << >>

(* No save in flight misses an edit that was not made while one was, and   *)
(* what the row misses of those is marked.                                 *)
Covered(known, s, row_, mark) ==
  /\ \A i \in DOMAIN s : known \subseteq s[i].snapshot
  /\ known \subseteq row_ \/ mark
CoveredDoc ==
  docRegistry # None => Covered(content[docRegistry] \ late, saves, crdt_state, dirty)

ApartInv == OneAtATime /\ Shared /\ CoveredDoc

LEMMA ApartInit == Init => ApartInv
BY DEF Init, ApartInv, OneAtATime, Shared, CoveredDoc, Covered, Loading, SecondLoad

LEMMA NoOtherLoads ==
  ASSUME OneAtATime, NEW c \in Loading
  PROVE  \A b \in Clients : b # c => pc[b] \in {"out", "ready"}
BY DEF OneAtATime, Loading

(* A step of the registered document and its saves, no page moving. *)
LEMMA SharedStays ==
  ASSUME Shared, UNCHANGED <<pc, doc, docRegistry>>, docRegistry # None
  PROVE  Shared'
BY DEF Shared

(* What every save and the row hold, a cancelled save that is committed    *)
(* all the same does not take away.                                        *)
LEMMA CancelledKeeps ==
  ASSUME NEW s, NEW state, NEW known, Cancelled(s, state), known \subseteq state,
         \A i \in DOMAIN s : known \subseteq s[i].snapshot
  PROVE  known \subseteq crdt_state'
BY CancelledState

LEMMA WithoutTimerKeeps ==
  ASSUME NEW M, NEW s \in Seq(M), NEW known, \A i \in DOMAIN s : known \subseteq s[i].snapshot
  PROVE  \A i \in DOMAIN WithoutTimer(s) : known \subseteq WithoutTimer(s)[i].snapshot
BY WithoutTimerOneByOne

LEMMA AppendKeeps ==
  ASSUME NEW M, NEW s \in Seq(M), NEW x, NEW known, known \subseteq x.snapshot,
         \A i \in DOMAIN s : known \subseteq s[i].snapshot
  PROVE  \A i \in DOMAIN Append(s, x) : known \subseteq Append(s, x)[i].snapshot
<1>1. M \subseteq M \cup {x} /\ x \in M \cup {x}
  OBVIOUS
<1>2. s \in Seq(M \cup {x})
  BY <1>1, SeqMore
<1>3. \A i \in DOMAIN Append(s, x) :
        Append(s, x)[i] = x \/ \E k \in DOMAIN s : Append(s, x)[i] = s[k]
  BY <1>1, <1>2, AppendOneByOne
<1> QED
  BY <1>3

(* So does a force persist, which may add a save of the document. *)
LEMMA ForcedKeeps ==
  ASSUME IInv, NEW kind, NEW by, NEW isDirty, NEW state, NEW known,
         ForcePersist(kind, by, isDirty, saves, state),
         docRegistry # None => known \subseteq state[docRegistry],
         \A i \in DOMAIN WithoutTimer(saves) : known \subseteq WithoutTimer(saves)[i].snapshot
  PROVE  \A i \in DOMAIN saves' : known \subseteq saves'[i].snapshot
<1> DEFINE t == WithoutTimer(saves)
           x == [snapshot |-> state[docRegistry], kind |-> kind, by |-> by]
<1>1. saves \in Seq(SaveRec) /\ t \in Seq(SaveRec)
  BY WithoutTimerSeq DEF IInv
<1>2. saves' = IF isDirty /\ docRegistry # None THEN t \o << x >> ELSE t
  BY <1>1, ForcedSaves
<1>3. t \o << x >> = Append(t, x)
  <2>1. t \in Seq(SaveRec \cup {x})
    BY <1>1, SeqMore
  <2> HIDE DEF t, x
  <2> QED
    BY <2>1, OneMore
<1>4. x.snapshot = state[docRegistry]
  OBVIOUS
<1>5. \A i \in DOMAIN t : known \subseteq t[i].snapshot
  OBVIOUS
<1> HIDE DEF t, x
<1> QED
  BY <1>1, <1>2, <1>3, <1>4, <1>5, AppendKeeps

LEMMA ApartFetch ==
  ASSUME IInv, Apart, ApartInv, NEW c \in Clients, Fetch(c)
  PROVE  Shared' /\ CoveredDoc'
<1> USE DEF ApartInv
<1>1. /\ saves = << >>
      /\ pc' = [pc EXCEPT ![c] = "fetched"] /\ row' = [row EXCEPT ![c] = crdt_state]
      /\ UNCHANGED <<crdt_state, content, docRegistry, dirty, saves, doc, late>>
  BY DEF Fetch, Apart, registries
<1>2. /\ pc \in [Clients -> {"out", "fetched", "found", "joined", "ready"} \cup FirstLoad \cup SecondLoad]
      /\ row \in [Clients -> SUBSET made]
  BY DEF IInv, Pages, Rows
<1>3. Shared'
  BY <1>1, <1>2 DEF Shared
<1>4. CoveredDoc'
  BY <1>1 DEF CoveredDoc, Covered
<1> QED
  BY <1>3, <1>4

(* A document is created of the fetched row, or empty. *)
LEMMA ApartBeginLoad ==
  ASSUME IInv, ApartInv, NEW c \in Clients, BeginLoad(c)
  PROVE  Shared' /\ CoveredDoc'
<1> USE DEF ApartInv
<1>1. /\ UNCHANGED <<crdt_state, documents, docRegistry, dirty, saves, late>>
      /\ row' = [row EXCEPT ![c] = {}]
  BY DEF BeginLoad, registries
<1>2. PICK state, hit, miss :
        /\ GetOrCreate(c, state, hit, miss)
        /\ \/ /\ pc[c] = "fetched" /\ state \subseteq row[c]
              /\ hit = "checking" /\ miss = "creating"
           \/ pc[c] = "joined" /\ hit = "rechecking" /\ miss = "recreating"
  BY DEF BeginLoad, LoadedFrom
<1>3. /\ pc \in [Clients -> {"out", "fetched", "found", "joined", "ready"} \cup FirstLoad \cup SecondLoad]
      /\ doc \in [Clients -> DocIds \cup {None}] /\ docRegistry = documents
      /\ row \in [Clients -> SUBSET made] /\ content \in [DocIds -> SUBSET made]
  BY DEF IInv, Pages, Docs, Rows
<1>4. \A b \in Clients : b # c => pc[b] \in {"out", "ready"}
  BY <1>2, NoOtherLoads DEF Loading
<1>5. PICK p \in {hit, miss}, d \in DocIds :
        /\ pc' = [pc EXCEPT ![c] = p] /\ doc' = [doc EXCEPT ![c] = d]
        /\ \/ documents # None /\ p = hit /\ d = documents /\ content' = content
           \/ documents = None /\ p = miss /\ content' = [content EXCEPT ![d] = state]
  <2>1. /\ pc' = [pc EXCEPT ![c] = IF documents # None THEN hit ELSE miss]
        /\ \E d \in DocIds :
             /\ doc' = [doc EXCEPT ![c] = d]
             /\ \/ documents # None /\ d = documents /\ content' = content
                \/ /\ documents = None /\ \A b \in Clients : d # doc[b]
                   /\ content' = [content EXCEPT ![d] = state]
    BY <1>2, LookedUp
  <2> QED
    BY <2>1
<1>6. CASE documents # None
  <2>1. p = hit /\ d = documents /\ content' = content
    BY <1>5, <1>6
  <2>2. Shared'
    BY <1>1, <1>2, <1>3, <1>4, <1>5, <1>6, <2>1 DEF Shared
  <2>3. CoveredDoc'
    BY <1>1, <2>1 DEF CoveredDoc, Covered
  <2> QED
    BY <2>2, <2>3
<1>7. CASE documents = None
  <2>1. p = miss /\ content' = [content EXCEPT ![d] = state]
    BY <1>5, <1>7
  <2>2. /\ pc[c] = "fetched" /\ state \subseteq crdt_state /\ saves = << >>
        /\ miss = "creating" /\ \A b \in Clients : b # c => pc[b] = "out"
    BY <1>2, <1>3, <1>4, <1>7 DEF Shared
  <2>3. pc'[c] = "creating" /\ doc'[c] = d /\ content'[d] = state
    BY <1>3, <1>5, <2>1, <2>2
  <2>4. Shared'
    BY <1>1, <1>3, <1>5, <1>7, <2>2, <2>3 DEF Shared
  <2>5. CoveredDoc'
    BY <1>1, <1>3, <1>7 DEF CoveredDoc
  <2> QED
    BY <2>4, <2>5
<1> QED
  BY <1>6, <1>7

(* A repair saves the registered document, or one that the row holds.      *)
LEMMA ApartLoadSaved ==
  ASSUME IInv, ApartInv, NEW c \in Clients, pc[c] \in Serving,
         saves' = Append(saves, Save(doc[c], "load", c))
  PROVE  /\ pc[c] = "creating" =>
              \A i \in DOMAIN saves' : content[doc[c]] \subseteq saves'[i].snapshot
         /\ docRegistry # None =>
              \A i \in DOMAIN saves' : content[docRegistry] \ late \subseteq saves'[i].snapshot
<1> USE DEF ApartInv
<1> DEFINE x == Save(doc[c], "load", c)
<1>1. saves \in Seq(SaveRec) /\ x.snapshot = content[doc[c]] /\ saves' = Append(saves, x)
  BY DEF IInv, Save
<1> HIDE DEF x
<1>2. CASE pc[c] = "creating"
  <2>1. docRegistry = None /\ \A i \in DOMAIN saves : content[doc[c]] \subseteq saves[i].snapshot
    BY <1>2 DEF Shared
  <2> QED
    BY <1>1, <2>1, AppendKeeps
<1>3. CASE pc[c] # "creating"
  <2>1. docRegistry # None /\ doc[c] = docRegistry
    BY <1>3 DEF Shared, Serving, FirstLoad, SecondLoad
  <2>2. \A i \in DOMAIN saves : content[docRegistry] \ late \subseteq saves[i].snapshot
    BY <2>1 DEF CoveredDoc, Covered
  <2>3. content[docRegistry] \ late \subseteq x.snapshot
    BY <1>1, <2>1
  <2> QED
    BY <1>1, <1>3, <2>2, <2>3, AppendKeeps
<1> QED
  BY <1>2, <1>3

LEMMA ApartRepairTags ==
  ASSUME IInv, ApartInv, NEW c \in Clients, RepairTags(c)
  PROVE  Shared' /\ CoveredDoc'
<1> USE DEF ApartInv
<1>1. /\ pc[c] \in FirstLoad \cup SecondLoad /\ saves' = Append(saves, Save(doc[c], "load", c))
      /\ UNCHANGED <<crdt_state, content, docRegistry, dirty, pc, row, doc, late>>
  BY DEF RepairTags, registries, clients
<1>2. \A b \in Clients : b # c => pc[b] \in {"out", "ready"}
  BY <1>1, NoOtherLoads DEF Loading, FirstLoad, SecondLoad
<1>3. /\ pc[c] = "creating" =>
           \A i \in DOMAIN saves' : content[doc[c]] \subseteq saves'[i].snapshot
      /\ docRegistry # None =>
           \A i \in DOMAIN saves' : content[docRegistry] \ late \subseteq saves'[i].snapshot
  BY <1>1, ApartLoadSaved DEF Serving
<1>4. Shared'
  BY <1>1, <1>2, <1>3 DEF Shared, FirstLoad, SecondLoad
<1>5. CoveredDoc'
  BY <1>1, <1>3 DEF CoveredDoc, Covered
<1> QED
  BY <1>4, <1>5

(* A document that is registered holds no more than the row and the saves. *)
LEMMA ApartFinishFirstLoad ==
  ASSUME IInv, ApartInv, NEW c \in Clients, FinishFirstLoad(c)
  PROVE  Shared' /\ CoveredDoc'
<1> USE DEF ApartInv
<1>1. /\ pc[c] \in FirstLoad \cup {"found"} /\ RegisterDocument(c)
      /\ UNCHANGED <<crdt_state, content, dirty, row, late>>
      /\ \/ saves' = saves /\ Join(c)
         \/ /\ pc[c] \in FirstLoad /\ saves' = Append(saves, Save(doc[c], "load", c))
            /\ pc' = [pc EXCEPT ![c] = "found"] /\ doc' = doc
  BY DEF FinishFirstLoad, RegisterDocument, registries, FirstLoad
<1>2. /\ pc \in [Clients -> {"out", "fetched", "found", "joined", "ready"} \cup FirstLoad \cup SecondLoad]
      /\ doc \in [Clients -> DocIds \cup {None}]
      /\ doc[c] # None /\ pc[c] \in Serving
  BY <1>1, NoneAssumption DEF IInv, Pages, Docs, HasDocument, Serving
<1>3. \A b \in Clients : b # c => pc[b] \in {"out", "ready"}
  BY <1>1, NoOtherLoads DEF Loading, FirstLoad
<1>4. /\ docRegistry' = doc[c] /\ docRegistry' # None
      /\ pc[c] # "creating" => docRegistry' = docRegistry
      /\ pc[c] = "creating" => /\ \A b \in Clients : b # c => pc[b] = "out"
                               /\ content[doc[c]] \subseteq crdt_state
  BY <1>1, <1>2, <1>3 DEF RegisterDocument, registries, Shared, FirstLoad
<1>5. \A i \in DOMAIN saves' : content[docRegistry'] \ late \subseteq saves'[i].snapshot
  <2>1. CASE saves' = saves
    BY <1>4, <2>1 DEF Shared, CoveredDoc, Covered
  <2>2. CASE saves' = Append(saves, Save(doc[c], "load", c))
    BY <1>2, <1>4, <2>2, ApartLoadSaved
  <2> QED
    BY <1>1, <2>1, <2>2
<1>6. CoveredDoc'
  BY <1>1, <1>4, <1>5 DEF CoveredDoc, Covered
<1>7. \/ pc'[c] \in {"joined", "out"}
      \/ pc'[c] = "found" /\ doc'[c] = doc[c]
  BY <1>1, <1>2 DEF Join
<1>8. \A b \in Clients : b # c => pc'[b] = pc[b] /\ doc'[b] = doc[b]
  BY <1>1, <1>2 DEF Join
<1>9. Shared'
  BY <1>3, <1>4, <1>7, <1>8 DEF Shared
<1> QED
  BY <1>6, <1>9

LEMMA ApartFinishSecondLoad ==
  ASSUME IInv, ApartInv, NEW c \in Clients, FinishSecondLoad(c)
  PROVE  Shared' /\ CoveredDoc'
<1> USE DEF ApartInv
<1>1. /\ pc[c] = "rechecking" /\ RegisterDocument(c) /\ gone = {}
      /\ UNCHANGED <<crdt_state, content, dirty, saves, row, late>>
  BY DEF FinishSecondLoad, OneAtATime, Shared, SecondLoad
<1>2. /\ pc \in [Clients -> {"out", "fetched", "found", "joined", "ready"} \cup FirstLoad \cup SecondLoad]
      /\ doc \in [Clients -> DocIds \cup {None}]
  BY DEF IInv, Pages, Docs
<1>3. /\ pc' = [pc EXCEPT ![c] = "ready"] /\ doc' = doc /\ docRegistry' = docRegistry
      /\ docRegistry # None
  BY <1>1, <1>2 DEF FinishSecondLoad, RegisterDocument, registries, Shared
<1>4. Shared'
  BY <1>1, <1>2, <1>3 DEF Shared
<1>5. CoveredDoc'
  BY <1>1, <1>3 DEF CoveredDoc, Covered
<1> QED
  BY <1>4, <1>5

(* An edit is in the document and marked; the saves in flight that miss it *)
(* make it a late one.                                                     *)
LEMMA ApartMake ==
  ASSUME IInv, ApartInv, NEW c \in Clients, NEW e \in Edits, Type(c, e) \/ Annotate(c, e)
  PROVE  Shared' /\ CoveredDoc'
<1> USE DEF ApartInv
<1> DEFINE known == content'[docRegistry] \ late'
<1>1. /\ docRegistry # None /\ docRegistry \in DocIds /\ doc[c] = docRegistry
  BY NoneAssumption DEF Type, Annotate, Make, Shared, IInv, Docs
<1>2. /\ content' = [content EXCEPT ![doc[c]] = @ \cup {e}] /\ dirty' = TRUE
      /\ late' = IF WithoutTimer(saves) = << >> THEN late ELSE late \cup {e}
      /\ UNCHANGED <<docRegistry, pc, doc>>
  BY DEF Type, Annotate, Make, registries, clients
<1>3. content'[docRegistry] = content[docRegistry] \cup {e} /\ saves \in Seq(SaveRec)
  BY <1>1, <1>2 DEF IInv, Rows
<1>4. \A i \in DOMAIN WithoutTimer(saves) : known \subseteq WithoutTimer(saves)[i].snapshot
  <2>1. CASE WithoutTimer(saves) = << >>
    BY <2>1
  <2>2. CASE WithoutTimer(saves) # << >>
    <3>1. known \subseteq content[docRegistry] \ late
      BY <1>2, <1>3, <2>2
    <3>2. \A i \in DOMAIN saves : known \subseteq saves[i].snapshot
      BY <1>1, <3>1 DEF CoveredDoc, Covered
    <3> HIDE DEF known
    <3> QED
      BY <1>3, <3>2, WithoutTimerKeeps
  <2> QED
    BY <2>1, <2>2
<1>5. \A i \in DOMAIN saves' : known \subseteq saves'[i].snapshot
  <2>1. CASE Type(c, e)
    BY <1>4, <2>1 DEF Type
  <2>2. CASE Annotate(c, e)
    <3>1. ForcePersist("edit", e, TRUE, saves, content') /\ known \subseteq content'[docRegistry]
      BY <2>2 DEF Annotate
    <3> HIDE DEF known
    <3> QED
      BY <1>4, <3>1, ForcedKeeps
  <2> QED
    BY <2>1, <2>2
<1>6. Shared'
  BY <1>1, <1>2, SharedStays
<1>7. CoveredDoc'
  BY <1>2, <1>5 DEF CoveredDoc, Covered
<1> QED
  BY <1>6, <1>7

LEMMA ApartTimerFires ==
  ASSUME IInv, ApartInv, TimerFires
  PROVE  Shared' /\ CoveredDoc'
<1> USE DEF ApartInv
<1>1. UNCHANGED <<crdt_state, content, docRegistry, dirty, pc, row, doc, late>>
  BY DEF TimerFires, registries, clients
<1>2. CASE saves' = saves
  BY <1>1, <1>2 DEF Shared, CoveredDoc, Covered
<1>3. CASE saves' # saves
  <2> DEFINE x == Save(docRegistry, "timer", None)
             known == content[docRegistry] \ late
  <2>1. docRegistry # None /\ saves' = Append(saves, x)
    BY <1>3 DEF TimerFires
  <2>2. saves \in Seq(SaveRec) /\ known \subseteq x.snapshot
    BY DEF IInv, Save
  <2>3. \A i \in DOMAIN saves : known \subseteq saves[i].snapshot
    BY <2>1 DEF CoveredDoc, Covered
  <2> HIDE DEF x, known
  <2>4. \A i \in DOMAIN saves' : known \subseteq saves'[i].snapshot
    BY <2>1, <2>2, <2>3, AppendKeeps
  <2>5. CoveredDoc'
    BY <1>1, <2>1, <2>4 DEF CoveredDoc, Covered, known
  <2> QED
    BY <1>1, <2>1, <2>5, SharedStays
<1> QED
  BY <1>2, <1>3

LEMMA ApartPersistAll ==
  ASSUME IInv, ApartInv, PersistAll
  PROVE  Shared' /\ CoveredDoc'
<1> USE DEF ApartInv
<1>1. /\ ForcePersist("all", None, dirty, saves, content) /\ Cancelled(saves, crdt_state)
      /\ dirty' = dirty /\ dirty
      /\ UNCHANGED <<content, docRegistry, pc, row, doc, late>>
  BY DEF PersistAll, registries, clients
<1>2. saves \in Seq(SaveRec)
  BY DEF IInv
<1>3. ASSUME NEW known, docRegistry # None => known \subseteq content[docRegistry],
             \A i \in DOMAIN saves : known \subseteq saves[i].snapshot
      PROVE  \A i \in DOMAIN saves' : known \subseteq saves'[i].snapshot
  BY <1>1, <1>2, <1>3, WithoutTimerKeeps, ForcedKeeps
<1>4. CASE docRegistry # None
  <2> DEFINE known == content[docRegistry] \ late
  <2>1. known \subseteq content[docRegistry] /\ \A i \in DOMAIN saves : known \subseteq saves[i].snapshot
    BY <1>4 DEF CoveredDoc, Covered
  <2> HIDE DEF known
  <2>2. \A i \in DOMAIN saves' : known \subseteq saves'[i].snapshot
    BY <1>3, <2>1
  <2>3. CoveredDoc'
    BY <1>1, <2>2 DEF CoveredDoc, Covered, known
  <2> QED
    BY <1>1, <1>4, <2>3, SharedStays
<1>5. CASE docRegistry = None
  <2>1. saves' = WithoutTimer(saves)
    BY <1>1, <1>2, <1>5, ForcedSaves
  <2>2. saves = << >> => saves' = << >> /\ crdt_state' = crdt_state
    BY <1>1, <2>1 DEF WithoutTimer, Cancelled
  <2>3. ASSUME NEW c \in Clients, pc[c] = "creating"
        PROVE  /\ content[doc[c]] \subseteq crdt_state'
               /\ \A i \in DOMAIN saves' : content[doc[c]] \subseteq saves'[i].snapshot
    <3>1. /\ content[doc[c]] \subseteq crdt_state
          /\ \A i \in DOMAIN saves : content[doc[c]] \subseteq saves[i].snapshot
      BY <2>3 DEF Shared
    <3> QED
      BY <1>1, <1>3, <1>5, <3>1, CancelledKeeps
  <2>4. Shared'
    BY <1>1, <1>5, <2>2, <2>3 DEF Shared
  <2>5. CoveredDoc'
    BY <1>1, <1>5 DEF CoveredDoc
  <2> QED
    BY <2>4, <2>5
<1> QED
  BY <1>4, <1>5

(* Only a page that edits leaves; its document goes only when it is last.  *)
LEMMA ApartLeave ==
  ASSUME IInv, Apart, ApartInv, NEW c \in Clients, Leave(c)
  PROVE  Shared' /\ CoveredDoc'
<1> USE DEF ApartInv
<1> DEFINE known == content[docRegistry] \ late
<1>1. /\ Loading = {} /\ pc[c] = "ready" /\ pc' = [pc EXCEPT ![c] = "out"]
      /\ doc' = [doc EXCEPT ![c] = None]
      /\ ForcePersist("leave", c, dirty, saves, content) /\ Cancelled(saves, crdt_state)
      /\ UNCHANGED <<content, row, late>>
      /\ \/ docRegistry' = docRegistry /\ dirty' = dirty
         \/ docRegistry' = None /\ IsLast(c)
  BY DEF Leave, Apart, Loading, SecondLoad, Evict, registries
<1>2. /\ pc \in [Clients -> {"out", "fetched", "found", "joined", "ready"} \cup FirstLoad \cup SecondLoad]
      /\ doc \in [Clients -> DocIds \cup {None}] /\ saves \in Seq(SaveRec)
      /\ docRegistry # None
      /\ \A b \in Clients : pc[b] \in {"out", "ready"}
  BY <1>1 DEF IInv, Pages, Docs, Loading, Shared
<1>3. CoveredDoc'
  <2>1. /\ known \subseteq content[docRegistry]
        /\ \A i \in DOMAIN saves : known \subseteq saves[i].snapshot
        /\ known \subseteq crdt_state \/ dirty
    BY <1>2 DEF CoveredDoc, Covered
  <2> HIDE DEF known
  <2>2. \A i \in DOMAIN saves' : known \subseteq saves'[i].snapshot
    BY <1>1, <1>2, <2>1, WithoutTimerKeeps, ForcedKeeps
  <2>3. known \subseteq crdt_state' \/ dirty
    BY <1>1, <2>1, CancelledKeeps
  <2> QED
    BY <1>1, <2>2, <2>3 DEF CoveredDoc, Covered, known
<1>4. Shared'
  <2>1. IsLast(c) => \A b \in Clients : b # c => pc[b] = "out"
    BY <1>2 DEF IsLast, OneAtATime
  <2>2. \A b \in Clients : pc'[b] = "out" \/ (pc'[b] = "ready" /\ b # c /\ pc[b] = "ready")
    BY <1>1, <1>2
  <2>3. \A b \in Clients : pc'[b] = "ready" => docRegistry' # None /\ doc'[b] = docRegistry'
    BY <1>1, <1>2, <2>1, <2>2 DEF Shared
  <2> QED
    BY <2>2, <2>3 DEF Shared
<1> QED
  BY <1>3, <1>4

(* A save that returns wrote what it should, or left the mark.             *)
LEMMA ApartSaveReturns ==
  ASSUME IInv, ApartInv, NEW i \in DOMAIN saves, NEW ok \in BOOLEAN, SaveReturns(i, ok)
  PROVE  Shared' /\ CoveredDoc'
<1> USE DEF ApartInv
<1> DEFINE rest == RemoveAt(saves, i)
<1>0. saves \in Seq(SaveRec) /\ saves # << >>
  BY DEF IInv
<1>1. saves \in Seq(SaveRec) /\ saves # << >> /\ UNCHANGED <<content, pc, row, doc, late>>
  BY <1>0, SaveReturnsFacts
<1>2. \A j \in DOMAIN rest : \E k \in DOMAIN saves : rest[j] = saves[k]
  BY <1>1, RemoveAtOneByOne
<1>3. CASE Evicts(i)
  <2>1. docRegistry' = None
    BY <1>3, SaveReturnsFacts
  <2>2. \A c \in Clients : pc[c] = "out"
    BY <1>3 DEF Evicts, OneAtATime, Loading, IInv, Departures
  <2> QED
    BY <1>1, <2>1, <2>2 DEF Shared, CoveredDoc
<1>4. CASE ~Evicts(i)
  <2>1. /\ docRegistry' = docRegistry /\ saves' = rest /\ crdt_state' = Returned(i, ok)
        /\ dirty' = (dirty /\ (ok => saves[i].kind = "load"))
    BY <1>4, SaveReturnsFacts DEF registries
  <2>2. CoveredDoc'
    BY <1>1, <1>2, <2>1 DEF CoveredDoc, Covered, Returned
  <2>3. Shared'
    BY <1>1, <1>2, <2>1 DEF Shared, Returned
  <2> QED
    BY <2>2, <2>3
<1> QED
  BY <1>3, <1>4

LEMMA ApartNext ==
  ASSUME IInv, Apart, ApartInv, [Next]_vars
  PROVE  ApartInv'
<1>1. CASE UNCHANGED vars
  <2> USE <1>1 DEF vars, ApartInv
  <2>1. OneAtATime'
    BY DEF OneAtATime, Loading
  <2>2. Shared' /\ CoveredDoc'
    BY DEF Shared, CoveredDoc, Covered
  <2> QED
    BY <2>1, <2>2
<1>2. \A c \in Clients : ~Revoke(c)
  BY DEF Revoke, Apart
<1>3. ProcessEnds => Shared' /\ CoveredDoc'
  BY DEF ProcessEnds, Shared, CoveredDoc
<1>4. CASE Next
  <2>1. Shared' /\ CoveredDoc'
    BY <1>2, <1>3, <1>4, ApartTimerFires, ApartPersistAll, ApartSaveReturns, ApartFetch,
       ApartBeginLoad, ApartRepairTags, ApartFinishFirstLoad, ApartFinishSecondLoad, ApartLeave,
       ApartMake
    DEF Next, Crash, Stop
  <2> QED
    BY <1>4, <2>1, OneAtATimeNext DEF ApartInv
<1> QED
  BY <1>1, <1>4

LEMMA AlwaysApart == Spec => [](IInv /\ (Apart => ApartInv))
<1>1. Init => IInv /\ (Apart => ApartInv)
  BY IInvInit, ApartInit
<1>2. IInv /\ (Apart => ApartInv) /\ [Next]_vars => (IInv /\ (Apart => ApartInv))'
  BY IInvNext, ApartNext, SameWorld DEF Apart
<1> QED
  BY <1>1, <1>2, PTL DEF Spec

-----------------------------------------------------------------------------
(* The invariant of a tab that types alone                                 *)

(* What the workspace holds: the registered document, or else the row. *)
Held == IF docRegistry # None THEN content[docRegistry] ELSE crdt_state

(* Nothing else is saved, served or fetched. *)
SavesHeld == \A i \in DOMAIN saves : saves[i].snapshot = Held
PagesHeld ==
  \A c \in Clients :
    /\ pc[c] \in Serving => content[doc[c]] = Held
    /\ pc[c] = "fetched" /\ docRegistry = None => row[c] = crdt_state

(* The registered document goes only with a client that was deleted. *)
Registered ==
  \A c \in Clients :
    /\ pc[c] \in {"checking", "found", "ready", "joined", "rechecking"} /\ c \notin gone =>
         docRegistry # None
    /\ pc[c] \in {"checking", "found", "ready", "rechecking"} /\ c \notin gone =>
         doc[c] = docRegistry
    /\ pc[c] \in {"creating", "recreating"} => docRegistry = None

(* A page that is served has no tag repair of its own in flight. *)
OnlyTimer ==
  \A i \in DOMAIN saves :
    /\ saves[i].kind \in {"timer", "load", "leave"}
    /\ saves[i].kind = "load" =>
         /\ saves[i].by \in Clients
         /\ pc[saves[i].by] \in FirstLoad \cup SecondLoad \cup {"found"}

(* The row is behind only while the mark is set. *)
Behind == crdt_state \subseteq Held /\ (docRegistry # None => crdt_state = Held \/ dirty)

AloneInv == SavesHeld /\ PagesHeld /\ Registered /\ OnlyTimer /\ Behind

AloneStep == AloneInv' /\ crdt_state \subseteq crdt_state'

LEMMA AloneInit == Init => AloneInv
BY DEF Init, AloneInv, SavesHeld, PagesHeld, Registered, OnlyTimer, Behind, Held, Serving,
   FirstLoad, SecondLoad

LEMMA OneClient ==
  ASSUME Alone
  PROVE  \A b, c \in Clients : b = c
<1>1. \E c : Clients = {c}
  BY FS_Singleton, DocsAssumption DEF Alone
<1> QED
  BY <1>1

(* What is left in flight of saves that all hold the same. *)
LEMMA AloneCancelled ==
  ASSUME NEW M, NEW s \in Seq(M), NEW held, \A i \in DOMAIN s : s[i].snapshot = held
  PROVE  /\ \A i \in DOMAIN WithoutTimer(s) : WithoutTimer(s)[i].snapshot = held
         /\ \A state : Cancelled(s, state) => crdt_state' \in {state, held}
BY WithoutTimerOneByOne, CancelledState

LEMMA AloneFetch ==
  ASSUME IInv, Alone, AloneInv, NEW c \in Clients, Fetch(c)
  PROVE  AloneStep
<1> USE DEF AloneInv
<1>1. /\ pc[c] = "out" /\ pc' = [pc EXCEPT ![c] = "fetched"]
      /\ row' = [row EXCEPT ![c] = crdt_state]
      /\ UNCHANGED <<crdt_state, content, documents, docRegistry, dirty, saves, doc, gone>>
  BY DEF Fetch, registries
<1>2. /\ pc \in [Clients -> {"out", "fetched", "found", "joined", "ready"} \cup FirstLoad \cup SecondLoad]
      /\ row \in [Clients -> SUBSET made]
  BY DEF IInv, Pages, Rows
<1>3. Held' = Held
  BY <1>1 DEF Held
<1>4. SavesHeld' /\ Behind'
  BY <1>1, <1>3 DEF SavesHeld, Behind
<1>5. PagesHeld'
  BY <1>1, <1>2, <1>3 DEF PagesHeld, Serving, FirstLoad, SecondLoad
<1>6. Registered'
  BY <1>1, <1>2 DEF Registered
<1>7. OnlyTimer'
  BY <1>1, <1>2 DEF OnlyTimer, FirstLoad, SecondLoad
<1> QED
  BY <1>1, <1>4, <1>5, <1>6, <1>7 DEF AloneStep

LEMMA AloneBeginLoad ==
  ASSUME IInv, Alone, AloneInv, NEW c \in Clients, BeginLoad(c)
  PROVE  AloneStep
<1> USE DEF AloneInv
<1>1. UNCHANGED <<crdt_state, documents, docRegistry, dirty, saves, gone>>
  BY DEF BeginLoad, registries
<1>2. PICK state, hit, miss :
        /\ GetOrCreate(c, state, hit, miss)
        /\ \/ pc[c] = "fetched" /\ state = row[c] /\ hit = "checking" /\ miss = "creating"
           \/ pc[c] = "joined" /\ state = crdt_state /\ hit = "rechecking" /\ miss = "recreating"
  BY DEF BeginLoad, LoadedFrom, Alone
<1>3. /\ pc \in [Clients -> {"out", "fetched", "found", "joined", "ready"} \cup FirstLoad \cup SecondLoad]
      /\ doc \in [Clients -> DocIds \cup {None}] /\ docRegistry = documents
      /\ content \in [DocIds -> SUBSET made]
  BY DEF IInv, Pages, Docs, Rows
<1>4. \A b \in Clients : b = c
  BY OneClient
<1>5. PICK p \in {hit, miss}, d \in DocIds :
        /\ pc' = [pc EXCEPT ![c] = p] /\ doc' = [doc EXCEPT ![c] = d]
        /\ \/ documents # None /\ p = hit /\ d = documents /\ content' = content
           \/ documents = None /\ p = miss /\ content' = [content EXCEPT ![d] = state]
  <2>1. /\ pc' = [pc EXCEPT ![c] = IF documents # None THEN hit ELSE miss]
        /\ \E d \in DocIds :
             /\ doc' = [doc EXCEPT ![c] = d]
             /\ \/ documents # None /\ d = documents /\ content' = content
                \/ /\ documents = None /\ \A b \in Clients : d # doc[b]
                   /\ content' = [content EXCEPT ![d] = state]
    BY <1>2, LookedUp
  <2> QED
    BY <2>1
<1>6. pc'[c] = p /\ doc'[c] = d /\ p \in FirstLoad \cup SecondLoad /\ p # "fetched"
  BY <1>2, <1>3, <1>5 DEF FirstLoad, SecondLoad
<1>7. Held' = Held /\ content'[d] = Held
  <2>1. CASE documents # None
    BY <1>1, <1>3, <1>5, <2>1 DEF Held
  <2>2. CASE documents = None
    <3>1. state = crdt_state
      BY <1>2, <1>3, <2>2 DEF PagesHeld
    <3> QED
      BY <1>1, <1>3, <1>5, <2>2, <3>1 DEF Held
  <2> QED
    BY <2>1, <2>2
<1>8. SavesHeld' /\ Behind'
  BY <1>1, <1>7 DEF SavesHeld, Behind
<1>9. PagesHeld'
  BY <1>4, <1>6, <1>7 DEF PagesHeld
<1>10. Registered'
  BY <1>1, <1>2, <1>3, <1>4, <1>5, <1>6 DEF Registered
<1>11. OnlyTimer'
  BY <1>1, <1>4, <1>6 DEF OnlyTimer
<1> QED
  BY <1>1, <1>8, <1>9, <1>10, <1>11 DEF AloneStep

(* A tag repair saves what everything holds. *)
LEMMA AloneLoadSaved ==
  ASSUME IInv, AloneInv, NEW c \in Clients, pc[c] \in Serving,
         saves' = Append(saves, Save(doc[c], "load", c))
  PROVE  \A i \in DOMAIN saves' :
           /\ saves'[i].snapshot = Held
           /\ \/ saves'[i].kind = "load" /\ saves'[i].by = c
              \/ \E k \in DOMAIN saves : saves'[i] = saves[k]
<1> DEFINE x == Save(doc[c], "load", c)
<1>1. doc[c] \in DocIds
  BY DEF IInv, HasDocument
<1>2. x \in SaveRec /\ saves \in Seq(SaveRec)
  BY <1>1, SnapshotMade DEF Kind, IInv
<1>3. x.kind = "load" /\ x.by = c /\ x.snapshot = Held
  BY DEF Save, AloneInv, PagesHeld
<1>4. saves' = Append(saves, x)
  OBVIOUS
<1> HIDE DEF x
<1>5. \A i \in DOMAIN saves' : saves'[i] = x \/ \E k \in DOMAIN saves : saves'[i] = saves[k]
  BY <1>2, <1>4, AppendOneByOne
<1> QED
  BY <1>3, <1>5 DEF AloneInv, SavesHeld

LEMMA AloneRepairTags ==
  ASSUME IInv, Alone, AloneInv, NEW c \in Clients, RepairTags(c)
  PROVE  AloneStep
<1> USE DEF AloneInv
<1>1. /\ pc[c] \in FirstLoad \cup SecondLoad /\ saves' = Append(saves, Save(doc[c], "load", c))
      /\ UNCHANGED <<crdt_state, content, documents, docRegistry, dirty, pc, row, doc, gone>>
  BY DEF RepairTags, registries, clients
<1>2. Held' = Held
  BY <1>1 DEF Held
<1>3. PagesHeld' /\ Registered' /\ Behind'
  BY <1>1, <1>2 DEF PagesHeld, Registered, Behind
<1>4. \A i \in DOMAIN saves' :
        /\ saves'[i].snapshot = Held
        /\ \/ saves'[i].kind = "load" /\ saves'[i].by = c
           \/ \E k \in DOMAIN saves : saves'[i] = saves[k]
  BY <1>1, AloneLoadSaved DEF Serving
<1>5. SavesHeld' /\ OnlyTimer'
  BY <1>1, <1>2, <1>4 DEF SavesHeld, OnlyTimer
<1> QED
  BY <1>1, <1>3, <1>5 DEF AloneStep

(* The document a page created is registered, if it is not yet: it holds   *)
(* what the row holds.                                                     *)
LEMMA AloneRegister ==
  ASSUME IInv, AloneInv, NEW c \in Clients, pc[c] \in Serving, RegisterDocument(c),
         UNCHANGED <<crdt_state, content, dirty>>
  PROVE  /\ Held' = Held /\ Behind'
         /\ docRegistry' # None \/ docRegistry' = docRegistry
         /\ pc[c] \in {"creating", "recreating"} =>
              docRegistry' # None /\ docRegistry' = doc[c]
         /\ pc[c] \notin {"creating", "recreating"} => docRegistry' = docRegistry
<1> USE DEF AloneInv
<1>1. doc[c] \in DocIds /\ doc[c] # None /\ content[doc[c]] = Held
  BY NoneAssumption DEF IInv, HasDocument, PagesHeld
<1>2. CASE pc[c] \in {"creating", "recreating"}
  <2>1. docRegistry = None /\ docRegistry' = doc[c]
    BY <1>2 DEF Registered, RegisterDocument
  <2>2. Held' = Held /\ crdt_state = Held
    BY <1>1, <2>1 DEF Held
  <2>3. Behind'
    BY <2>2 DEF Behind
  <2> QED
    BY <1>1, <1>2, <2>1, <2>2, <2>3
<1>3. CASE pc[c] \notin {"creating", "recreating"}
  <2>1. docRegistry' = docRegistry
    BY <1>3 DEF RegisterDocument, registries
  <2>2. Held' = Held
    BY <2>1 DEF Held
  <2> QED
    BY <1>3, <2>1, <2>2 DEF Behind
<1> QED
  BY <1>2, <1>3

LEMMA AloneFinishFirstLoad ==
  ASSUME IInv, Alone, AloneInv, NEW c \in Clients, FinishFirstLoad(c)
  PROVE  AloneStep
<1> USE DEF AloneInv
<1>1. /\ pc[c] \in FirstLoad \cup {"found"} /\ pc[c] \in Serving /\ ~Checking(c) /\ c \notin gone
      /\ RegisterDocument(c)
      /\ UNCHANGED <<crdt_state, content, dirty, row, gone>>
  BY DEF FinishFirstLoad, RegisterDocument, Serving, FirstLoad, SecondLoad, IInv, GoneLoads
<1>2. \/ /\ pc[c] \in FirstLoad /\ saves' = Append(saves, Save(doc[c], "load", c))
         /\ pc' = [pc EXCEPT ![c] = "found"] /\ doc' = doc
      \/ /\ saves' = saves
         /\ \/ pc' = [pc EXCEPT ![c] = "joined"]
            \/ pc' = [pc EXCEPT ![c] = "out"]
  BY DEF FinishFirstLoad, Join
<1>3. pc \in [Clients -> {"out", "fetched", "found", "joined", "ready"} \cup FirstLoad \cup SecondLoad]
  BY DEF IInv, Pages
<1>4. \A b \in Clients : b = c
  BY OneClient
<1>5. /\ Held' = Held /\ Behind' /\ docRegistry' # None
      /\ pc[c] \in {"creating", "recreating"} => docRegistry' = doc[c]
      /\ pc[c] \notin {"creating", "recreating"} => docRegistry' = docRegistry
  BY <1>1, AloneRegister DEF Registered, FirstLoad
<1>6. \A i \in DOMAIN saves : saves[i].kind # "load"
  BY <1>1, <1>4 DEF Checking, OnlyTimer
<1>7. CASE saves' = saves /\ (pc'[c] = "joined" \/ pc'[c] = "out")
  <2>1. PagesHeld' /\ Registered'
    BY <1>3, <1>4, <1>5, <1>7 DEF PagesHeld, Registered, Serving, FirstLoad, SecondLoad
  <2>2. SavesHeld' /\ OnlyTimer'
    BY <1>5, <1>6, <1>7 DEF SavesHeld, OnlyTimer
  <2> QED
    BY <1>1, <1>5, <2>1, <2>2 DEF AloneStep
<1>8. CASE /\ pc[c] \in FirstLoad /\ pc'[c] = "found" /\ doc' = doc
           /\ saves' = Append(saves, Save(doc[c], "load", c))
  <2>1. PagesHeld'
    BY <1>1, <1>4, <1>5, <1>8 DEF PagesHeld
  <2>2. Registered'
    BY <1>1, <1>4, <1>5, <1>8 DEF Registered, FirstLoad
  <2>3. \A i \in DOMAIN saves' :
          /\ saves'[i].snapshot = Held
          /\ \/ saves'[i].kind = "load" /\ saves'[i].by = c
             \/ \E k \in DOMAIN saves : saves'[i] = saves[k]
    BY <1>1, <1>8, AloneLoadSaved
  <2>4. SavesHeld' /\ OnlyTimer'
    BY <1>5, <1>6, <1>8, <2>3 DEF SavesHeld, OnlyTimer
  <2> QED
    BY <1>1, <1>5, <2>1, <2>2, <2>4 DEF AloneStep
<1> QED
  BY <1>2, <1>3, <1>7, <1>8

LEMMA AloneFinishSecondLoad ==
  ASSUME IInv, Alone, AloneInv, NEW c \in Clients, FinishSecondLoad(c)
  PROVE  AloneStep
<1> USE DEF AloneInv
<1>1. /\ pc[c] \in SecondLoad /\ pc[c] \in Serving /\ ~Checking(c) /\ RegisterDocument(c)
      /\ pc' = [pc EXCEPT ![c] = IF c \in gone THEN "out" ELSE "ready"]
      /\ doc' = [doc EXCEPT ![c] = IF c \in gone THEN None ELSE @] /\ gone' = gone \ {c}
      /\ UNCHANGED <<crdt_state, content, dirty, saves, row>>
  BY DEF FinishSecondLoad, Serving
<1>2. /\ pc \in [Clients -> {"out", "fetched", "found", "joined", "ready"} \cup FirstLoad \cup SecondLoad]
      /\ doc \in [Clients -> DocIds \cup {None}]
  BY DEF IInv, Pages, Docs
<1>3. \A b \in Clients : b = c
  BY OneClient
<1>4. /\ Held' = Held /\ Behind'
      /\ pc[c] \in {"creating", "recreating"} => docRegistry' # None /\ docRegistry' = doc[c]
      /\ pc[c] \notin {"creating", "recreating"} => docRegistry' = docRegistry
  BY <1>1, AloneRegister
<1>5. \A i \in DOMAIN saves : saves[i].kind # "load"
  BY <1>1, <1>3 DEF Checking, OnlyTimer
<1>6. SavesHeld' /\ OnlyTimer'
  BY <1>1, <1>4, <1>5 DEF SavesHeld, OnlyTimer
<1>7. CASE c \in gone
  <2>1. pc'[c] = "out"
    BY <1>1, <1>2, <1>7
  <2>2. PagesHeld' /\ Registered'
    BY <1>3, <2>1 DEF PagesHeld, Registered, Serving, FirstLoad, SecondLoad
  <2> QED
    BY <1>1, <1>4, <1>6, <2>2 DEF AloneStep
<1>8. CASE c \notin gone
  <2>1. pc'[c] = "ready" /\ doc'[c] = doc[c]
    BY <1>1, <1>2, <1>8
  <2>2. PagesHeld'
    BY <1>1, <1>3, <1>4, <2>1 DEF PagesHeld
  <2>3. Registered'
    BY <1>1, <1>3, <1>4, <1>8, <2>1 DEF Registered, SecondLoad
  <2> QED
    BY <1>1, <1>4, <1>6, <2>2, <2>3 DEF AloneStep
<1> QED
  BY <1>7, <1>8

(* Only the pending save may be in flight when the user types, and it is   *)
(* cancelled.                                                              *)
LEMMA AloneType ==
  ASSUME IInv, Alone, AloneInv, NEW c \in Clients, NEW e \in Edits, Type(c, e)
  PROVE  AloneStep
<1> USE DEF AloneInv
<1>1. /\ pc[c] = "ready" /\ content' = [content EXCEPT ![doc[c]] = @ \cup {e}] /\ dirty' = TRUE
      /\ saves' = WithoutTimer(saves) /\ Cancelled(saves, crdt_state)
      /\ UNCHANGED <<documents, docRegistry, pc, row, doc, gone>>
  BY DEF Type, Make, registries, clients
<1>2. /\ saves \in Seq(SaveRec) /\ content \in [DocIds -> SUBSET made]
      /\ doc[c] \in DocIds /\ doc[c] # None /\ c \notin gone /\ c \notin leaving
  BY <1>1, NoneAssumption DEF IInv, Rows, HasDocument, Serving, GoneLoads, SecondLoad
<1>3. \A b \in Clients : b = c
  BY OneClient
<1>4. docRegistry = doc[c] /\ docRegistry # None
  BY <1>1, <1>2 DEF Registered
<1>5. Held' = Held \cup {e} /\ content'[doc[c]] = Held'
  BY <1>1, <1>2, <1>4 DEF Held
<1>6. crdt_state \subseteq crdt_state' /\ crdt_state' \subseteq Held
  <2>1. crdt_state' \in {crdt_state, Held}
    BY <1>1, <1>2, AloneCancelled DEF SavesHeld
  <2> QED
    BY <2>1 DEF Behind
<1>7. \A i \in DOMAIN saves : saves[i].kind = "timer"
  <2> SUFFICES ASSUME NEW i \in DOMAIN saves PROVE saves[i].kind = "timer"
    OBVIOUS
  <2>1. saves[i].kind # "load"
    BY <1>1, <1>3 DEF OnlyTimer, FirstLoad, SecondLoad
  <2>2. saves[i].kind # "leave"
    BY <1>2, <1>3 DEF IInv, Departures, Departing
  <2> QED
    BY <2>1, <2>2 DEF OnlyTimer
<1>8. DOMAIN saves' = {}
  <2>1. NoTimer(saves')
    BY <1>1, <1>2, WithoutTimerNoTimer DEF IInv, Timers
  <2>2. \A i \in DOMAIN saves' : \E k \in DOMAIN saves : saves'[i] = saves[k]
    BY <1>1, <1>2, WithoutTimerOneByOne
  <2> QED
    BY <1>7, <2>1, <2>2 DEF NoTimer
<1>9. SavesHeld' /\ OnlyTimer'
  BY <1>8 DEF SavesHeld, OnlyTimer
<1>10. PagesHeld' /\ Registered'
  BY <1>1, <1>3, <1>4, <1>5 DEF PagesHeld, Registered
<1>11. Behind'
  BY <1>1, <1>5, <1>6 DEF Behind
<1> QED
  BY <1>6, <1>9, <1>10, <1>11 DEF AloneStep

LEMMA AloneTimerFires ==
  ASSUME IInv, Alone, AloneInv, TimerFires
  PROVE  AloneStep
<1> USE DEF AloneInv
<1>1. UNCHANGED <<crdt_state, content, documents, docRegistry, dirty, pc, row, doc, gone>>
  BY DEF TimerFires, registries, clients
<1>2. Held' = Held
  BY <1>1 DEF Held
<1>3. PagesHeld' /\ Registered' /\ Behind'
  BY <1>1, <1>2 DEF PagesHeld, Registered, Behind
<1>4. \A i \in DOMAIN saves' :
        \/ saves'[i].kind = "timer" /\ saves'[i].snapshot = Held
        \/ \E k \in DOMAIN saves : saves'[i] = saves[k]
  <2>1. CASE saves' = saves
    BY <2>1
  <2>2. CASE saves' # saves
    <3> DEFINE x == Save(docRegistry, "timer", None)
    <3>1. docRegistry # None /\ saves' = Append(saves, x)
      BY <2>2 DEF TimerFires
    <3>2. x \in SaveRec /\ saves \in Seq(SaveRec)
      BY <3>1, SnapshotMade DEF IInv, Docs, Kind
    <3>3. x.kind = "timer" /\ x.snapshot = Held
      BY <3>1 DEF Save, Held
    <3> HIDE DEF x
    <3> QED
      BY <3>1, <3>2, <3>3, AppendOneByOne
  <2> QED
    BY <2>1, <2>2
<1>5. SavesHeld' /\ OnlyTimer'
  BY <1>1, <1>2, <1>4 DEF SavesHeld, OnlyTimer
<1> QED
  BY <1>1, <1>3, <1>5 DEF AloneStep

LEMMA AloneSaveReturns ==
  ASSUME IInv, Alone, AloneInv, NEW i \in DOMAIN saves, NEW ok \in BOOLEAN, SaveReturns(i, ok)
  PROVE  AloneStep
<1> USE DEF AloneInv
<1> DEFINE rest == RemoveAt(saves, i)
<1>1. ok = TRUE /\ saves \in Seq(SaveRec) /\ UNCHANGED <<content, pc, row, doc, gone>>
  BY SaveReturnsFacts DEF Alone, IInv
<1>2. Returned(i, ok) = Held
  BY <1>1 DEF Returned, SavesHeld
<1>3. rest \in Seq(SaveRec) /\ \A j \in DOMAIN rest : \E k \in DOMAIN saves : rest[j] = saves[k]
  BY <1>1, RemoveAtFacts, RemoveAtOneByOne
<1>4. \A j \in DOMAIN rest : rest[j].snapshot = Held
  BY <1>3 DEF SavesHeld
<1>5. crdt_state \subseteq Held
  BY DEF Behind
<1>6. CASE Evicts(i)
  <2>1. /\ docRegistry' = None
        /\ saves' = WithoutTimer(rest) /\ Cancelled(rest, Returned(i, ok))
    BY <1>6, SaveReturnsFacts
  <2> HIDE DEF rest
  <2>2. /\ crdt_state' = Held /\ \A j \in DOMAIN saves' : saves'[j].snapshot = Held
    BY <1>2, <1>3, <1>4, <2>1, AloneCancelled
  <2>3. Held' = Held
    BY <2>1, <2>2 DEF Held
  <2>4. \A j \in DOMAIN saves' : \E k \in DOMAIN saves : saves'[j] = saves[k]
    BY <1>3, <2>1, WithoutTimerOneByOne
  <2>5. SavesHeld' /\ OnlyTimer' /\ Behind'
    BY <1>1, <2>1, <2>2, <2>3, <2>4 DEF SavesHeld, OnlyTimer, Behind
  <2>6. \A c \in Clients : pc[c] = "out" \/ (c \in gone /\ pc[c] \in {"joined"} \cup SecondLoad)
    BY <1>6, OneClient DEF Evicts, IInv, Departures, GoneLoads
  <2>7. PagesHeld' /\ Registered'
    BY <1>1, <2>1, <2>3, <2>6 DEF PagesHeld, Registered, Serving, FirstLoad, SecondLoad
  <2> QED
    BY <1>5, <2>2, <2>5, <2>7 DEF AloneStep
<1>7. CASE ~Evicts(i)
  <2>1. /\ docRegistry' = docRegistry /\ saves' = rest /\ crdt_state' = Held
    BY <1>2, <1>7, SaveReturnsFacts DEF registries
  <2>2. Held' = Held /\ (docRegistry = None => crdt_state' = crdt_state)
    BY <1>1, <2>1 DEF Held
  <2> HIDE DEF rest
  <2>3. SavesHeld' /\ OnlyTimer' /\ Behind'
    BY <1>1, <1>3, <1>4, <2>1, <2>2 DEF SavesHeld, OnlyTimer, Behind
  <2>4. PagesHeld' /\ Registered'
    BY <1>1, <2>1, <2>2 DEF PagesHeld, Registered
  <2> QED
    BY <1>5, <2>1, <2>3, <2>4 DEF AloneStep
<1> QED
  BY <1>6, <1>7

(* The departing client's save holds the document that goes with it; if    *)
(* nothing was unsaved the row holds it already.                           *)
LEMMA AloneLeave ==
  ASSUME IInv, Alone, AloneInv, NEW c \in Clients, Leave(c)
  PROVE  AloneStep
<1> USE DEF AloneInv
<1> DEFINE waits == dirty /\ docRegistry # None
           t == WithoutTimer(saves)
           x == [snapshot |-> content[docRegistry], kind |-> "leave", by |-> c]
<1>1. /\ pc[c] \in {"joined", "ready"} \cup SecondLoad /\ c \notin gone
      /\ Cancelled(saves, crdt_state)
      /\ \/ /\ pc[c] = "ready" /\ gone' = gone
            /\ pc' = [pc EXCEPT ![c] = "out"] /\ doc' = [doc EXCEPT ![c] = None]
         \/ pc[c] # "ready" /\ gone' = gone \cup {c} /\ pc' = pc /\ doc' = doc
      /\ UNCHANGED <<content, row>>
      /\ ForcePersist("leave", c, dirty, saves, content)
  BY DEF Leave
<1>2. \/ docRegistry' = docRegistry /\ dirty' = dirty
      \/ ~waits /\ docRegistry' = None
  BY DEF Leave, Evict, registries
<1>3. /\ pc \in [Clients -> {"out", "fetched", "found", "joined", "ready"} \cup FirstLoad \cup SecondLoad]
      /\ doc \in [Clients -> DocIds \cup {None}] /\ saves \in Seq(SaveRec)
      /\ docRegistry \in DocIds \cup {None}
  BY DEF IInv, Pages, Docs
<1>4. \A b \in Clients : b = c
  BY OneClient
<1>5. /\ crdt_state' \in {crdt_state, Held}
      /\ t \in Seq(SaveRec) /\ \A i \in DOMAIN t : t[i].snapshot = Held
      /\ \A i \in DOMAIN t : \E k \in DOMAIN saves : t[i] = saves[k]
  <2>1. /\ t \in Seq(SaveRec)
        /\ \A i \in DOMAIN t : \E k \in DOMAIN saves : t[i] = saves[k]
    BY <1>3, WithoutTimerSeq, WithoutTimerOneByOne
  <2>2. \A i \in DOMAIN saves : saves[i].snapshot = Held
    BY DEF SavesHeld
  <2>3. /\ \A i \in DOMAIN t : t[i].snapshot = Held
        /\ \A state : Cancelled(saves, state) => crdt_state' \in {state, Held}
    BY <1>3, <2>2, AloneCancelled
  <2> QED
    BY <1>1, <2>1, <2>3
<1>6. waits => x \in SaveRec /\ x.snapshot = Held /\ x.kind = "leave"
  BY <1>3 DEF IInv, Rows, SaveRec, Kind, Held
<1>7. saves' = IF waits THEN t \o << x >> ELSE t
  BY <1>1, <1>3, ForcedSaves
<1> HIDE DEF t, x
<1>8. \A i \in DOMAIN saves' :
        /\ saves'[i].snapshot = Held
        /\ saves'[i].kind = "leave" \/ \E k \in DOMAIN saves : saves'[i] = saves[k]
  <2>1. CASE waits
    <3>1. saves' = Append(t, x)
      BY <1>5, <1>6, <1>7, <2>1, OneMore
    <3>2. \A i \in DOMAIN saves' : saves'[i] = x \/ \E k \in DOMAIN t : saves'[i] = t[k]
      BY <1>5, <1>6, <2>1, <3>1, AppendOneByOne
    <3> QED
      BY <1>5, <1>6, <2>1, <3>2
  <2>2. CASE ~waits
    BY <1>5, <1>7, <2>2
  <2> QED
    BY <2>1, <2>2
<1>9. crdt_state \subseteq crdt_state' /\ crdt_state' \subseteq Held
  BY <1>5 DEF Behind
<1>10. Held' = Held /\ Behind'
  <2>1. CASE docRegistry' = None
    <3>1. crdt_state = Held
      BY <1>2, <2>1 DEF Behind, Held
    <3> QED
      BY <1>9, <2>1, <3>1 DEF Held, Behind
  <2>2. CASE docRegistry' # None
    <3>1. docRegistry' = docRegistry /\ dirty' = dirty /\ content' = content
      BY <1>1, <1>2, <2>2
    <3>2. Held' = Held
      BY <2>2, <3>1 DEF Held
    <3> QED
      BY <1>9, <2>2, <3>1, <3>2 DEF Behind
  <2> QED
    BY <2>1, <2>2
<1>11. \/ pc'[c] = "out"
       \/ /\ pc'[c] = pc[c] /\ pc[c] # "ready" /\ c \in gone' /\ doc' = doc
  BY <1>1, <1>3
<1>12. SavesHeld'
  BY <1>8, <1>10 DEF SavesHeld
<1>13. OnlyTimer'
  <2>1. \A i \in DOMAIN saves : saves[i].kind = "load" => pc[c] # "ready"
    BY <1>4 DEF OnlyTimer, FirstLoad, SecondLoad
  <2> QED
    BY <1>1, <1>4, <1>8, <2>1 DEF OnlyTimer
<1>14. PagesHeld'
  BY <1>1, <1>4, <1>10, <1>11 DEF PagesHeld, Serving, FirstLoad, SecondLoad
<1>15. Registered'
  BY <1>1, <1>2, <1>4, <1>11 DEF Registered, SecondLoad
<1> QED
  BY <1>9, <1>10, <1>12, <1>13, <1>14, <1>15 DEF AloneStep

LEMMA AloneRevoke ==
  ASSUME AloneInv, NEW c \in Clients, Revoke(c)
  PROVE  AloneStep
<1> USE DEF AloneInv, Revoke, registries
<1>1. Held' = Held
  BY DEF Held
<1> QED
  BY <1>1 DEF AloneStep, SavesHeld, PagesHeld, Registered, OnlyTimer, Behind

LEMMA AloneProcessEnds ==
  ASSUME ProcessEnds
  PROVE  AloneStep
BY DEF ProcessEnds, AloneStep, AloneInv, SavesHeld, PagesHeld, Registered, OnlyTimer, Behind, Held,
   Serving, FirstLoad, SecondLoad

LEMMA AloneNext ==
  ASSUME IInv, Alone, AloneInv, [Next]_vars
  PROVE  AloneStep
<1>1. CASE UNCHANGED vars
  <2>1. Held' = Held
    BY <1>1 DEF vars, Held
  <2> QED
    BY <1>1, <2>1
    DEF vars, AloneInv, AloneStep, SavesHeld, PagesHeld, Registered, OnlyTimer, Behind
<1>2. ~PersistAll /\ ~Stop
  BY DEF Alone, PersistAll, Stop
<1>3. ASSUME NEW c \in Clients, NEW e \in Edits PROVE ~Annotate(c, e)
  BY DEF Alone, Annotate
<1>4. CASE Next
  BY <1>2, <1>3, <1>4, AloneTimerFires, AloneSaveReturns, AloneProcessEnds, AloneFetch,
     AloneBeginLoad, AloneRepairTags, AloneFinishFirstLoad, AloneFinishSecondLoad, AloneLeave,
     AloneRevoke, AloneType
  DEF Next, Crash
<1> QED
  BY <1>1, <1>4

LEMMA AlwaysAlone == Spec => [](IInv /\ (Alone => AloneInv))
<1>1. Init => IInv /\ (Alone => AloneInv)
  BY IInvInit, AloneInit
<1>2. IInv /\ (Alone => AloneInv) /\ [Next]_vars => (IInv /\ (Alone => AloneInv))'
  BY IInvNext, AloneNext, SameWorld DEF AloneStep
<1> QED
  BY <1>1, <1>2, PTL DEF Spec

-----------------------------------------------------------------------------
(* While page loads and departures do not overlap every page that can edit *)
(* shares the registered document, however saves fail or overtake each     *)
(* other: no load replaces it under an open page, and no departure evicts  *)
(* it while another page edits it (annotation_doc.py:1024-1034,            *)
(* broadcast.py:320-323).                                                  *)
THEOREM ShareOneDocument == Spec => []OneDocument
<1>1. IInv /\ (Apart => ApartInv) => OneDocument
  BY DEF Apart, ApartInv, Shared, OneDocument
<1> QED
  BY <1>1, AlwaysApart, PTL

(* In a calm world an annotation whose handler went on to show "Saved" is  *)
(* in the row, whatever restarts and crashes follow (highlights.py:307).   *)
THEOREM SavedIsDurable == Spec => []SavedMeansDurable
<1>1. IInv /\ (Calm => CalmInv) => SavedMeansDurable
  BY DEF CalmInv, EditsKept, SavedMeansDurable
<1> QED
  BY <1>1, AlwaysCalm, PTL

(* While page loads and departures do not overlap, what any number of tabs *)
(* typed and annotated and the row lacks is marked dirty, however saves    *)
(* are cancelled, fail or overtake each other; only what was made while an *)
(* earlier save was in flight may have lost its mark to that save          *)
(* (mark_dirty_workspace, persistence.py:134-137).                         *)
THEOREM UnsavedStaysDirty == Spec => []UnsavedIsDirty
<1>1. IInv /\ (Apart => ApartInv) => UnsavedIsDirty
  BY DEF Apart, ApartInv, CoveredDoc, Covered, UnsavedIsDirty
<1> QED
  BY <1>1, AlwaysApart, PTL

(* Where those promises hold, no save replaces the column by a state       *)
(* without what it holds already (save_workspace_crdt_state).              *)
THEOREM RowOnlyGrows == Spec => RowNeverForgets
<1>1. /\ IInv /\ (Calm => CalmInv) /\ IInv /\ (Alone => AloneInv) /\ [Next]_vars
         => [Calm \/ Alone => crdt_state \subseteq crdt_state']_vars
  BY CalmNext, AloneNext DEF CalmStep, AloneStep
<1> QED
  BY <1>1, AlwaysCalm, AlwaysAlone, PTL DEF Spec, RowNeverForgets

-----------------------------------------------------------------------------
(* In a calm world the registry, the saves and the pages implement         *)
(* DurableDocument.                                                        *)

(* What a document built again will hold once the saves in flight have     *)
(* been written.                                                           *)
LastOf(s, state) == IF s # << >> THEN s[Len(s)].snapshot ELSE state

Latest  == IF docRegistry # None THEN content[docRegistry] ELSE LastOf(saves, crdt_state)
Editing == {c \in Clients : pc[c] = "ready"}

DD == INSTANCE DurableDocument WITH
        open <- Editing, view <- Latest, stored <- crdt_state, acked <- saved

(* Without a registered document nothing waits to be saved. *)
Idle == docRegistry = None => ~dirty /\ timer = "none"

LEMMA LastOfRising ==
  ASSUME NEW M, NEW s \in Seq(M), NEW state, Rising(s, state)
  PROVE  /\ state \subseteq LastOf(s, state)
         /\ \A i \in DOMAIN s : s[i].snapshot \subseteq LastOf(s, state)
<1>1. DOMAIN s = 1 .. Len(s) /\ Len(s) \in Nat
  OBVIOUS
<1>2. CASE s = << >>
  BY <1>2 DEF LastOf
<1>3. CASE s # << >>
  <2>1. Len(s) \in DOMAIN s
    BY <1>1, <1>3
  <2>2. \A i \in DOMAIN s : i = Len(s) \/ i < Len(s)
    BY <1>1
  <2> QED
    BY <1>3, <2>1, <2>2 DEF LastOf, Rising
<1> QED
  BY <1>2, <1>3

LEMMA LastOfRest ==
  ASSUME NEW M, NEW s \in Seq(M), NEW state, 1 \in DOMAIN s
  PROVE  LastOf(RemoveAt(s, 1), s[1].snapshot) = LastOf(s, state)
<1> DEFINE t == RemoveAt(s, 1)
<1>1. DOMAIN s = 1 .. Len(s) /\ Len(s) \in Nat /\ s # << >>
  OBVIOUS
<1>2. /\ t \in Seq(M) /\ Len(t) = Len(s) - 1
      /\ \A j \in 1 .. Len(s) - 1 : t[j] = s[j + 1]
  <2>1. \A j \in 1 .. Len(s) - 1 : (IF j < 1 THEN j ELSE j + 1) = j + 1
    BY <1>1
  <2> QED
    BY <2>1, RemoveAtFacts
<1> HIDE DEF t
<1>3. CASE Len(s) = 1
  <2>1. t = << >>
    BY <1>2, <1>3
  <2> QED
    BY <1>1, <1>3, <2>1 DEF LastOf, t
<1>4. CASE Len(s) # 1
  <2>1. t # << >> /\ Len(t) \in 1 .. Len(s) - 1 /\ Len(t) + 1 = Len(s)
    BY <1>1, <1>2, <1>4
  <2> QED
    BY <1>1, <1>2, <2>1 DEF LastOf, t
<1> QED
  BY <1>3, <1>4

(* Whatever a step writes to the row was in flight before it.              *)
LEMMA RowSource ==
  ASSUME IInv, [Next]_vars
  PROVE  crdt_state' = crdt_state \/ \E i \in DOMAIN saves : crdt_state' = saves[i].snapshot
<1> DEFINE Known == crdt_state' = crdt_state \/ \E i \in DOMAIN saves : crdt_state' = saves[i].snapshot
<1>1. Cancelled(saves, crdt_state) => Known
  BY CancelledState
<1>2. ASSUME NEW i \in DOMAIN saves, NEW ok \in BOOLEAN, SaveReturns(i, ok) PROVE Known
  <2>1. \A j \in DOMAIN RemoveAt(saves, i) :
          \E k \in DOMAIN saves : RemoveAt(saves, i)[j] = saves[k]
    BY RemoveAtOneByOne DEF IInv
  <2>2. Returned(i, ok) \in {crdt_state, saves[i].snapshot}
    BY DEF Returned
  <2>3. CASE Evicts(i)
    <3>1. Cancelled(RemoveAt(saves, i), Returned(i, ok))
      BY <1>2, <2>3, SaveReturnsFacts
    <3> QED
      BY <2>1, <2>2, <3>1, CancelledState
  <2>4. CASE ~Evicts(i)
    BY <1>2, <2>2, <2>4, SaveReturnsFacts
  <2> QED
    BY <2>3, <2>4
<1>3. ASSUME NEW c \in Clients, NEW e \in Edits, Type(c, e) \/ Annotate(c, e) PROVE Known
  BY <1>1, <1>3 DEF Type, Annotate, Make
<1>4. ASSUME NEW c \in Clients,
             \/ Fetch(c) \/ BeginLoad(c) \/ RepairTags(c) \/ FinishFirstLoad(c)
             \/ FinishSecondLoad(c) \/ Revoke(c)
      PROVE  crdt_state' = crdt_state
  BY <1>4 DEF Fetch, BeginLoad, RepairTags, FinishFirstLoad, FinishSecondLoad, Revoke
<1>5. ASSUME NEW c \in Clients, Leave(c) PROVE Known
  BY <1>1, <1>5 DEF Leave
<1>6. PersistAll => Known
  BY <1>1 DEF PersistAll
<1>7. TimerFires \/ Crash \/ Stop \/ UNCHANGED vars => crdt_state' = crdt_state
  BY DEF TimerFires, Crash, Stop, ProcessEnds, vars
<1> HIDE DEF Known
<1>8. Known
  BY <1>2, <1>3, <1>4, <1>5, <1>6, <1>7 DEF Next, Known
<1> QED
  BY <1>8 DEF Known

(* The row and the saves in flight are part of what is shown. *)
LEMMA LatestHoldsAll ==
  ASSUME IInv, CalmInv
  PROVE  /\ crdt_state \subseteq Latest
         /\ \A i \in DOMAIN saves : saves[i].snapshot \subseteq Latest
<1>1. saves \in Seq(SaveRec) /\ Rising(saves, crdt_state)
  BY DEF IInv, CalmInv, Chain
<1>2. CASE docRegistry # None
  BY <1>2 DEF CalmInv, Chain, Latest
<1>3. CASE docRegistry = None
  BY <1>1, <1>3, LastOfRising DEF Latest
<1> QED
  BY <1>2, <1>3

LEMMA CalmWrites ==
  ASSUME IInv, Calm, CalmInv, [Next]_vars
  PROVE  DD!Writes
<1>1. crdt_state \subseteq crdt_state'
  BY CalmNext DEF CalmStep
<1>2. crdt_state' \subseteq Latest
  BY RowSource, LatestHoldsAll
<1> QED
  BY <1>1, <1>2 DEF DD!Writes

-----------------------------------------------------------------------------
(* Each step is one of DurableDocument's, or none *)

Implements == [DD!Next]_(DD!vars) /\ Idle'

(* A page that loads shows nothing yet, and what it is given is what there *)
(* is: the registered document or else the row.                            *)
LEMMA LoadImplements ==
  ASSUME IInv, Calm, CalmInv, Idle, NEW c \in Clients,
         Fetch(c) \/ BeginLoad(c) \/ FinishFirstLoad(c)
  PROVE  Implements
<1> USE DEF CalmInv
<1>1. /\ pc \in [Clients -> {"out", "fetched", "found", "joined", "ready"} \cup FirstLoad \cup SecondLoad]
      /\ docRegistry = documents
  BY DEF IInv, Pages, Docs
<1>2. /\ UNCHANGED <<crdt_state, saves, saved, dirty, timer>>
      /\ pc[c] # "ready" /\ \E p : p # "ready" /\ pc' = [pc EXCEPT ![c] = p]
  <2>1. CASE Fetch(c)
    BY <2>1 DEF Fetch
  <2>2. CASE BeginLoad(c)
    BY <2>2 DEF BeginLoad, GetOrCreate
  <2>3. CASE FinishFirstLoad(c)
    BY <2>3 DEF FinishFirstLoad, Calm, Served, Join, FirstLoad
  <2> QED
    BY <2>1, <2>2, <2>3
<1>3. Editing' = Editing
  BY <1>1, <1>2 DEF Editing
<1>4. CASE docRegistry' = docRegistry /\ (docRegistry = None \/ content' = content)
  BY <1>2, <1>3, <1>4 DEF Implements, Idle, DD!vars, Latest
<1>5. CASE ~(docRegistry' = docRegistry /\ (docRegistry = None \/ content' = content))
  <2>1. /\ pc[c] = "creating" /\ docRegistry' = doc[c] /\ content' = content
    <3>1. ~Fetch(c) /\ ~BeginLoad(c)
      BY <1>1, <1>5 DEF Fetch, BeginLoad, GetOrCreate, registries
    <3> QED
      BY <1>5, <3>1 DEF FinishFirstLoad, RegisterDocument, registries, Calm, Served, FirstLoad
  <2>2. /\ docRegistry = None /\ saves = << >> /\ content[doc[c]] = crdt_state
        /\ doc[c] # None
    BY <2>1, NoneAssumption DEF Served, IInv, HasDocument, Serving, FirstLoad
  <2>3. Latest' = Latest
    BY <1>2, <2>1, <2>2 DEF Latest, LastOf
  <2> QED
    BY <1>2, <1>3, <2>1, <2>2, <2>3 DEF Implements, Idle, DD!vars
<1> QED
  BY <1>4, <1>5

(* The page is served: it shows the document from now on. *)
LEMMA ServedImplements ==
  ASSUME IInv, Calm, CalmInv, Idle, NEW c \in Clients, FinishSecondLoad(c)
  PROVE  Implements
<1> USE DEF CalmInv
<1>1. /\ pc \in [Clients -> {"out", "fetched", "found", "joined", "ready"} \cup FirstLoad \cup SecondLoad]
      /\ UNCHANGED <<crdt_state, content, saves, saved, dirty, timer>>
      /\ pc[c] \in SecondLoad /\ pc' = [pc EXCEPT ![c] = "ready"]
      /\ RegisterDocument(c)
  BY DEF IInv, Pages, FinishSecondLoad, OneAtATime
<1>2. Editing' = Editing \cup {c}
  BY <1>1 DEF Editing
<1>3. CASE pc[c] = "recreating"
  <2>1. /\ docRegistry' = doc[c] /\ doc[c] # None
        /\ docRegistry = None /\ saves = << >> /\ content[doc[c]] = crdt_state
    BY <1>1, <1>3, NoneAssumption
    DEF RegisterDocument, Served, IInv, HasDocument, Serving, SecondLoad
  <2>2. Latest' = Latest
    BY <1>1, <2>1 DEF Latest, LastOf
  <2>3. DD!Open(c) /\ Idle'
    BY <1>1, <1>2, <2>1, <2>2 DEF DD!Open, Idle
  <2> QED
    BY <2>3 DEF Implements, DD!Next
<1>4. CASE pc[c] = "rechecking"
  <2>1. docRegistry' = docRegistry
    BY <1>1, <1>4 DEF RegisterDocument, registries
  <2>2. Latest' = Latest
    BY <1>1, <2>1 DEF Latest
  <2>3. DD!Open(c) /\ Idle'
    BY <1>1, <1>2, <2>1, <2>2 DEF DD!Open, Idle
  <2> QED
    BY <2>3 DEF Implements, DD!Next
<1> QED
  BY <1>1, <1>3, <1>4 DEF SecondLoad

LEMMA MakeImplements ==
  ASSUME IInv, Calm, CalmInv, NEW c \in Clients, NEW e \in Edits,
         Type(c, e) \/ Annotate(c, e), DD!Writes
  PROVE  Implements
<1>1. pc[c] = "ready"
  BY DEF Type, Annotate, Make
<1>2. docRegistry # None /\ docRegistry \in DocIds /\ doc[c] = docRegistry
  BY <1>1, SomeoneServed
<1>3. /\ content' = [content EXCEPT ![doc[c]] = @ \cup {e}]
      /\ UNCHANGED <<pc, docRegistry, saved>>
  BY <1>2 DEF Type, Annotate, Make, clients, registries
<1>4. Latest' = Latest \cup {e}
  BY <1>2, <1>3 DEF Latest, IInv, Rows
<1>5. DD!Make(c, e)
  BY <1>1, <1>3, <1>4 DEF DD!Make, Editing
<1> QED
  BY <1>2, <1>3, <1>5 DEF Implements, Idle, DD!Next

(* Saves are started only while a document is registered. *)
LEMMA StartImplements ==
  ASSUME Idle, CalmInv, TimerFires \/ PersistAll, DD!Writes
  PROVE  Implements
<1>1. docRegistry # None /\ UNCHANGED <<content, docRegistry, pc, saved>>
  BY DEF Idle, TimerFires, PersistAll, registries, clients
<1>2. Latest' = Latest /\ Editing' = Editing
  BY <1>1 DEF Latest, Editing
<1>3. DD!Save
  BY <1>1, <1>2 DEF DD!Save
<1> QED
  BY <1>1, <1>3 DEF Implements, Idle, DD!Next

(* The document is dropped: what is in flight is all that may still come.  *)
LEMMA Dropped ==
  ASSUME IInv, CalmInv, IInv', CalmInv', docRegistry' = None,
         saves' = << >> \/ \A i \in DOMAIN saves' : \E k \in DOMAIN saves : saves'[i] = saves[k],
         DD!Writes
  PROVE  DD!Shrinks
<1>1. /\ saves' \in Seq(SaveRec') /\ Rising(saves', crdt_state')
      /\ Latest' = LastOf(saves', crdt_state')
  BY DEF IInv, CalmInv, Chain, Latest
<1>2. crdt_state' \subseteq Latest'
  BY <1>1, LastOfRising
<1>3. Latest' \subseteq Latest
  <2>1. CASE saves' = << >>
    BY <1>1, <2>1 DEF LastOf, DD!Writes
  <2>2. CASE saves' # << >>
    <3>1. Len(saves') \in DOMAIN saves'
      BY <1>1, <2>2
    <3> QED
      BY <1>1, <2>2, <3>1, LatestHoldsAll DEF LastOf
  <2> QED
    BY <2>1, <2>2
<1> QED
  BY <1>2, <1>3 DEF DD!Shrinks

(* A save returns: the row is written and an annotation acknowledged, or   *)
(* the last client, who left an empty room, evicts the document.           *)
LEMMA ReturnImplements ==
  ASSUME IInv, Calm, CalmInv, Idle, IInv', CalmInv', NEW i \in DOMAIN saves, NEW ok \in BOOLEAN,
         SaveReturns(i, ok), DD!Writes
  PROVE  Implements
<1>1. /\ i = 1 /\ ok = TRUE /\ 1 \in DOMAIN saves /\ saves \in Seq(SaveRec)
      /\ UNCHANGED <<content, pc>>
      /\ saved \subseteq saved'
  BY SaveReturnsFacts DEF Calm, IInv
<1>2. Editing' = Editing
  BY <1>1 DEF Editing
<1>3. CASE Evicts(i)
  <2>1. /\ docRegistry' = None /\ dirty' = FALSE /\ timer' = "none"
        /\ saves' = WithoutTimer(RemoveAt(saves, 1)) /\ saved' = saved
    BY <1>1, <1>3, SaveReturnsFacts DEF Evicts
  <2>2. Editing' = {}
    BY <1>2, <1>3 DEF Editing, Evicts, CalmInv, OneAtATime, IInv, Departures
  <2>3. \A j \in DOMAIN saves' : \E k \in DOMAIN saves : saves'[j] = saves[k]
    <3>1. RemoveAt(saves, 1) \in Seq(SaveRec)
      BY <1>1, RemoveAtFacts
    <3>2. \A j \in DOMAIN RemoveAt(saves, 1) : \E k \in DOMAIN saves : RemoveAt(saves, 1)[j] = saves[k]
      BY <1>1, RemoveAtOneByOne
    <3>3. \A j \in DOMAIN saves' : \E k \in DOMAIN RemoveAt(saves, 1) : saves'[j] = RemoveAt(saves, 1)[k]
      BY <2>1, <3>1, WithoutTimerOneByOne
    <3> QED
      BY <3>2, <3>3
  <2>4. DD!Lose
    BY <2>1, <2>2, <2>3, Dropped DEF DD!Lose
  <2> QED
    BY <2>1, <2>4 DEF Implements, Idle, DD!Next
<1>4. CASE ~Evicts(i)
  <2>1. /\ docRegistry' = docRegistry /\ saves' = RemoveAt(saves, 1)
        /\ crdt_state' = saves[1].snapshot
        /\ timer' \in {timer, "none"}
        /\ dirty' => dirty
    BY <1>1, <1>4, SaveReturnsFacts DEF registries, Returned
  <2>2. Latest' = Latest
    BY <1>1, <2>1, LastOfRest DEF Latest
  <2>3. saved' \subseteq saved \cup crdt_state'
    BY DEF CalmInv, EditsKept
  <2>4. DD!Save
    BY <1>1, <1>2, <2>2, <2>3 DEF DD!Save
  <2>5. Idle'
    BY <2>1 DEF Idle
  <2> QED
    BY <2>4, <2>5 DEF Implements, DD!Next
<1> QED
  BY <1>3, <1>4

(* A page is closed: the document goes at once only when nobody is left    *)
(* and nothing is marked dirty.                                            *)
LEMMA CloseImplements ==
  ASSUME IInv, Calm, CalmInv, IInv', CalmInv', NEW c \in Clients, Leave(c), DD!Writes
  PROVE  Implements
<1>1. /\ pc[c] = "ready" /\ pc' = [pc EXCEPT ![c] = "out"]
      /\ Loading = {} /\ UNCHANGED <<content, saved>>
      /\ presence' = presence \ {c}
      /\ ForcePersist("leave", c, dirty, saves, content)
  BY DEF Leave, Calm, Loading, SecondLoad
<1>2. /\ pc \in [Clients -> {"out", "fetched", "found", "joined", "ready"} \cup FirstLoad \cup SecondLoad]
      /\ saves \in Seq(SaveRec) /\ docRegistry # None
  BY <1>1, SomeoneServed DEF IInv, Pages
<1>3. c \in Editing /\ Editing' = Editing \ {c}
  BY <1>1, <1>2 DEF Editing
<1>4. CASE docRegistry' = docRegistry
  <2>1. Latest' = Latest
    BY <1>1, <1>2, <1>4 DEF Latest
  <2>2. DD!Close(c)
    BY <1>1, <1>3, <2>1 DEF DD!Close
  <2> QED
    BY <1>2, <1>4, <2>2 DEF Implements, Idle, DD!Next
<1>5. CASE docRegistry' # docRegistry
  <2>1. ~dirty /\ IsLast(c) /\ docRegistry' = None /\ dirty' = FALSE
    BY <1>5 DEF Leave, Evict, registries
  <2>2. timer' = "none" /\ saves' = WithoutTimer(saves)
    <3>1. /\ timer' = "none"
          /\ saves' = IF dirty /\ docRegistry # None
                      THEN WithoutTimer(saves)
                           \o << [snapshot |-> content[docRegistry], kind |-> "leave", by |-> c] >>
                      ELSE WithoutTimer(saves)
      BY <1>1, <1>2, ForcedSaves
    <3> QED
      BY <2>1, <3>1
  <2>3. Editing' = {}
    BY <1>3, <2>1 DEF IsLast, CalmInv, OneAtATime, Editing
  <2>4. \A j \in DOMAIN saves' : \E k \in DOMAIN saves : saves'[j] = saves[k]
    BY <1>2, <2>2, WithoutTimerOneByOne
  <2>5. DD!Close(c)
    BY <1>1, <1>3, <2>1, <2>3, <2>4, Dropped DEF DD!Close
  <2> QED
    BY <2>1, <2>2, <2>5 DEF Implements, Idle, DD!Next
<1> QED
  BY <1>4, <1>5

LEMMA EndImplements ==
  ASSUME IInv, CalmInv, IInv', CalmInv', ProcessEnds, DD!Writes
  PROVE  Implements
<1>1. /\ docRegistry' = None /\ saves' = << >> /\ dirty' = FALSE /\ timer' = "none"
      /\ saved' = saved /\ Editing' = {}
  BY DEF ProcessEnds, Editing
<1>2. DD!Lose
  BY <1>1, Dropped DEF DD!Lose
<1> QED
  BY <1>1, <1>2 DEF Implements, Idle, DD!Next

LEMMA CalmImplements ==
  ASSUME IInv, Calm, CalmInv, Idle, [Next]_vars
  PROVE  Implements
<1>1. DD!Writes /\ IInv' /\ CalmInv'
  BY CalmWrites, IInvNext, CalmNext DEF CalmStep
<1>2. CASE UNCHANGED vars
  BY <1>2 DEF vars, Implements, Idle, DD!vars, Latest, Editing, Idle
<1>3. ASSUME NEW c \in Clients PROVE ~RepairTags(c) /\ ~Revoke(c)
  BY DEF Calm, RepairTags, Revoke
<1>4. CASE Next
  BY <1>1, <1>3, <1>4, LoadImplements, ServedImplements, MakeImplements, StartImplements,
     ReturnImplements, CloseImplements, EndImplements
  DEF Next, Crash, Stop
<1> QED
  BY <1>2, <1>4

(* Where nothing fails or overlaps, what the registry, the debounced and   *)
(* the forced saves and the departures make of the document is one that    *)
(* all pages share, that the row follows without ever losing anything,     *)
(* whose acknowledged annotations are in the row, and of which only the    *)
(* departure of the last client or the end of the process can drop what    *)
(* was not stored.                                                         *)
THEOREM RefinesDurableDocument == Calm /\ Spec => DD!Spec
<1>1. Init => DD!Init /\ Idle
  BY DEF Init, DD!Init, Latest, LastOf, Editing, Idle
<1>2. Init /\ Calm => IInv /\ CalmInv /\ Idle /\ DD!Init
  BY <1>1, IInvInit, CalmInit
<1>3. IInv /\ Calm /\ CalmInv /\ Idle /\ [Next]_vars
        => (IInv /\ Calm /\ CalmInv /\ Idle)' /\ [DD!Next]_(DD!vars)
  BY IInvNext, CalmNext, SameWorld, CalmImplements DEF CalmStep, Implements
<1> QED
  BY <1>2, <1>3, PTL DEF Spec, DD!Spec
=============================================================================
