--------------------------- MODULE SelectionProofs ---------------------------
(***************************************************************************)
(* Selections and highlights, for every number of tabs, every set of       *)
(* documents and drags and all bounds: the types, one highlight per        *)
(* report, what a settled browser draws and shows, and which selection a   *)
(* tag would be applied to.                                                *)
(*                                                                         *)
(* The last two speak of states where nothing is on its way.  Each is the  *)
(* end of an invariant about the queues: the last message that matters,    *)
(* after the script that sets a page up, says what the server has now; and *)
(* if there is none, the browser shows it already, or a script it has begun *)
(* is going to, or the message came too early to be followed.              *)
(*                                                                         *)
(* What a range resolves to is left to the model checker: nothing here     *)
(* depends on how offsets are computed.                                    *)
(***************************************************************************)
EXTENDS Selection, SequenceTheorems, FiniteSetTheorems, FunctionTheorems, TLAPS

(***************************************************************************)
(* Queues of messages: positions by operation                              *)
(***************************************************************************)

(* The positions of the messages with one of the operations ops. *)
Of(q, ops) == {i \in DOMAIN q : q[i].op \in ops}

Latest(S, i) == i \in S /\ \A j \in S : j <= i

(* The operations a property looks at. *)
Inits == {"init"}
Draws == {"init", "apply"}
Changes == {"selection_made", "selection_cleared"}
Made == {"selection_made"}
Removals == {"removeAllRanges"}

(* The scripts about client o that come after a page is set up. *)
Words(q, o) ==
  {i \in Of(q, {"show", "hide", "replay"}) : q[i].of = o /\ \A j \in Of(q, Inits) : j < i}

LEMMA AppendAt ==
  ASSUME NEW M, NEW q \in Seq(M), NEW m \in M
  PROVE  /\ Append(q, m) \in Seq(M)
         /\ DOMAIN q = 1 .. Len(q) /\ Len(q) \in Nat
         /\ DOMAIN Append(q, m) = 1 .. (Len(q) + 1)
         /\ \A i \in 1 .. Len(q) : Append(q, m)[i] = q[i]
         /\ Append(q, m)[Len(q) + 1] = m
OBVIOUS

LEMMA TailAt ==
  ASSUME NEW M, NEW q \in Seq(M), q # << >>
  PROVE  /\ Tail(q) \in Seq(M)
         /\ Len(q) \in Nat \ {0}
         /\ DOMAIN q = 1 .. Len(q)
         /\ DOMAIN Tail(q) = 1 .. (Len(q) - 1)
         /\ \A i \in 1 .. (Len(q) - 1) : Tail(q)[i] = q[i + 1]
         /\ Head(q) = q[1] /\ Head(q) \in M
OBVIOUS

(* Appending a message of another operation. *)
LEMMA OfAppendOther ==
  ASSUME NEW M, NEW q \in Seq(M), NEW m \in M, NEW ops, m.op \notin ops
  PROVE  /\ Of(Append(q, m), ops) = Of(q, ops)
         /\ \A i \in Of(q, ops) : Append(q, m)[i] = q[i]
<1>1. \A i : i \in Of(Append(q, m), ops) <=> i \in Of(q, ops)
  BY AppendAt DEF Of
<1> QED
  BY <1>1, AppendAt DEF Of

(* Taking the first message away moves the others up. *)
LEMMA OfTail ==
  ASSUME NEW M, NEW q \in Seq(M), q # << >>, NEW ops
  PROVE  /\ \A i \in Of(Tail(q), ops) : i \in Nat \ {0} /\ i + 1 \in Of(q, ops)
                                        /\ Tail(q)[i] = q[i + 1]
         /\ \A i \in Of(q, ops) : i = 1 \/ i - 1 \in Of(Tail(q), ops)
         /\ \A i \in Of(q, ops) : i \in Nat \ {0}
         /\ 1 \in Of(q, ops) <=> Head(q).op \in ops
         /\ \A i : Latest(Of(Tail(q), ops), i) => Latest(Of(q, ops), i + 1)
         /\ Of(Tail(q), ops) = {} /\ Of(q, ops) # {} => Latest(Of(q, ops), 1)
<1>1. /\ Len(q) \in Nat \ {0}
      /\ DOMAIN q = 1 .. Len(q)
      /\ DOMAIN Tail(q) = 1 .. (Len(q) - 1)
      /\ \A i \in 1 .. (Len(q) - 1) : Tail(q)[i] = q[i + 1]
      /\ Head(q) = q[1]
  BY TailAt
<1>2. \A i \in Of(Tail(q), ops) : i \in Nat \ {0} /\ i + 1 \in Of(q, ops)
                                  /\ Tail(q)[i] = q[i + 1]
  BY <1>1 DEF Of
<1>3. ASSUME NEW i \in Of(q, ops), i # 1 PROVE i - 1 \in Of(Tail(q), ops)
  <2>1. i - 1 \in 1 .. (Len(q) - 1) /\ (i - 1) + 1 = i
    BY <1>1, <1>3 DEF Of
  <2>2. Tail(q)[i - 1] = q[i]
    BY <1>1, <2>1
  <2> QED
    BY <1>1, <1>3, <2>1, <2>2 DEF Of
<1>4. \A i \in Of(q, ops) : i \in Nat \ {0}
  BY <1>1 DEF Of
<1>5. 1 \in Of(q, ops) <=> Head(q).op \in ops
  BY <1>1 DEF Of
<1>6. ASSUME NEW i, Latest(Of(Tail(q), ops), i) PROVE Latest(Of(q, ops), i + 1)
  <2>1. i \in Nat \ {0} /\ i + 1 \in Of(q, ops)
    BY <1>2, <1>6 DEF Latest
  <2>2. ASSUME NEW j \in Of(q, ops) PROVE j <= i + 1
    <3>1. CASE j = 1
      BY <2>1, <3>1
    <3>2. CASE j # 1
      <4>1. j - 1 \in Of(Tail(q), ops) /\ j \in Nat
        BY <1>3, <1>4, <2>2, <3>2
      <4>2. j - 1 <= i
        BY <1>6, <4>1 DEF Latest
      <4> QED
        BY <2>1, <4>1, <4>2
    <3> QED
      BY <3>1, <3>2
  <2> QED
    BY <2>1, <2>2 DEF Latest
<1>7. ASSUME Of(Tail(q), ops) = {}, Of(q, ops) # {} PROVE Latest(Of(q, ops), 1)
  BY <1>3, <1>7 DEF Latest
<1> QED
  BY <1>2, <1>3, <1>4, <1>5, <1>6, <1>7

(* The same for the scripts about a client. *)
LEMMA WordsAppendOther ==
  ASSUME NEW M, NEW q \in Seq(M), NEW m \in M, NEW o, m.op # "init",
         m.op \in {"show", "hide", "replay"} => m.of # o
  PROVE  /\ Words(Append(q, m), o) = Words(q, o)
         /\ \A i \in Words(q, o) : Append(q, m)[i] = q[i]
<1>1. /\ DOMAIN q = 1 .. Len(q) /\ Len(q) \in Nat
      /\ DOMAIN Append(q, m) = 1 .. (Len(q) + 1)
      /\ \A i \in 1 .. Len(q) : Append(q, m)[i] = q[i]
      /\ Append(q, m)[Len(q) + 1] = m
  BY AppendAt
<1>2. Of(Append(q, m), Inits) = Of(q, Inits)
  <2>1. m.op \notin Inits
    BY DEF Inits
  <2> QED
    BY <2>1, OfAppendOther
<1>3. ASSUME NEW i PROVE i \in Words(Append(q, m), o) <=> i \in Words(q, o)
  <2>1. CASE i \in 1 .. Len(q)
    BY <1>1, <1>2, <2>1 DEF Words, Of
  <2>2. CASE i = Len(q) + 1
    BY <1>1, <2>2 DEF Words, Of
  <2>3. CASE i \notin 1 .. (Len(q) + 1)
    BY <1>1, <2>3 DEF Words, Of
  <2> QED
    BY <1>1, <2>1, <2>2, <2>3
<1>4. \A i \in Words(q, o) : i \in 1 .. Len(q)
  BY <1>1 DEF Words, Of
<1> QED
  BY <1>1, <1>3, <1>4

LEMMA WordsAppend ==
  ASSUME NEW M, NEW q \in Seq(M), NEW m \in M,
         m.op \in {"show", "hide", "replay"}
  PROVE  /\ Words(Append(q, m), m.of) # {}
         /\ \A i : Latest(Words(Append(q, m), m.of), i) => Append(q, m)[i] = m
<1>1. /\ DOMAIN q = 1 .. Len(q) /\ Len(q) \in Nat
      /\ DOMAIN Append(q, m) = 1 .. (Len(q) + 1)
      /\ Append(q, m)[Len(q) + 1] = m
  BY AppendAt
<1>2. m.op # "init"
  OBVIOUS
<1>3. Of(Append(q, m), Inits) = Of(q, Inits)
  <2>1. m.op \notin Inits
    BY <1>2 DEF Inits
  <2> QED
    BY <2>1, OfAppendOther
<1>4. \A j \in Of(q, Inits) : j \in 1 .. Len(q)
  BY <1>1 DEF Of
<1>5. Len(q) + 1 \in Words(Append(q, m), m.of)
  BY <1>1, <1>3, <1>4 DEF Words, Of
<1>6. ASSUME NEW i, Latest(Words(Append(q, m), m.of), i) PROVE Append(q, m)[i] = m
  <2>1. i \in 1 .. (Len(q) + 1) /\ Len(q) + 1 <= i
    BY <1>1, <1>5, <1>6 DEF Latest, Words, Of
  <2>2. i = Len(q) + 1
    BY <1>1, <2>1
  <2> QED
    BY <1>1, <2>2
<1> QED
  BY <1>5, <1>6

LEMMA WordsTail ==
  ASSUME NEW M, NEW q \in Seq(M), q # << >>, NEW o
  PROVE  /\ \A i : Latest(Words(Tail(q), o), i) =>
              Latest(Words(q, o), i + 1) /\ Tail(q)[i] = q[i + 1]
         /\ Words(Tail(q), o) = {} /\ Words(q, o) # {} => Latest(Words(q, o), 1)
<1>1. /\ Len(q) \in Nat \ {0}
      /\ DOMAIN q = 1 .. Len(q)
      /\ DOMAIN Tail(q) = 1 .. (Len(q) - 1)
      /\ \A i \in 1 .. (Len(q) - 1) : Tail(q)[i] = q[i + 1]
  BY TailAt
<1>2. /\ \A j \in Of(Tail(q), Inits) : j \in Nat \ {0} /\ j + 1 \in Of(q, Inits)
      /\ \A j \in Of(q, Inits) : j = 1 \/ j - 1 \in Of(Tail(q), Inits)
      /\ \A j \in Of(q, Inits) : j \in Nat \ {0}
  BY OfTail
<1>3. ASSUME NEW i \in Words(Tail(q), o)
      PROVE  i \in Nat \ {0} /\ i + 1 \in Words(q, o) /\ Tail(q)[i] = q[i + 1]
  <2>1. /\ i \in 1 .. (Len(q) - 1) /\ Tail(q)[i].op \in {"show", "hide", "replay"}
        /\ Tail(q)[i].of = o /\ \A j \in Of(Tail(q), Inits) : j < i
    BY <1>1 DEF Words, Of
  <2>2. Tail(q)[i] = q[i + 1] /\ i + 1 \in 1 .. Len(q)
    BY <1>1, <2>1
  <2>3. ASSUME NEW j \in Of(q, Inits) PROVE j < i + 1
    <3>1. CASE j = 1
      BY <1>1, <2>1, <3>1
    <3>2. CASE j # 1
      <4>1. j - 1 < i /\ j \in Nat
        BY <1>2, <2>1, <3>2
      <4> QED
        BY <1>1, <2>1, <4>1
    <3> QED
      BY <3>1, <3>2
  <2> QED
    BY <1>1, <2>1, <2>2, <2>3 DEF Words, Of
<1>4. ASSUME NEW i \in Words(q, o), i # 1
      PROVE  i \in Nat /\ i - 1 \in Words(Tail(q), o)
  <2>1. /\ i \in 1 .. Len(q) /\ q[i].op \in {"show", "hide", "replay"}
        /\ q[i].of = o /\ \A j \in Of(q, Inits) : j < i
    BY <1>1 DEF Words, Of
  <2>2. i - 1 \in 1 .. (Len(q) - 1) /\ (i - 1) + 1 = i
    BY <1>1, <1>4, <2>1
  <2>3. Tail(q)[i - 1] = q[i]
    BY <1>1, <2>2
  <2>4. \A j \in Of(Tail(q), Inits) : j < i - 1
    BY <1>2, <2>1, <2>2
  <2> QED
    BY <1>1, <2>1, <2>2, <2>3, <2>4 DEF Words, Of
<1>5. ASSUME NEW i, Latest(Words(Tail(q), o), i)
      PROVE  Latest(Words(q, o), i + 1) /\ Tail(q)[i] = q[i + 1]
  <2>1. i \in Nat \ {0} /\ i + 1 \in Words(q, o) /\ Tail(q)[i] = q[i + 1]
    BY <1>3, <1>5 DEF Latest
  <2>2. ASSUME NEW j \in Words(q, o) PROVE j <= i + 1
    <3>1. CASE j = 1
      BY <2>1, <3>1
    <3>2. CASE j # 1
      <4>1. j - 1 \in Words(Tail(q), o) /\ j \in Nat
        BY <1>4, <2>2, <3>2
      <4>2. j - 1 <= i
        BY <1>5, <4>1 DEF Latest
      <4> QED
        BY <2>1, <4>1, <4>2
    <3> QED
      BY <3>1, <3>2
  <2> QED
    BY <2>1, <2>2 DEF Latest
<1>6. ASSUME Words(Tail(q), o) = {}, Words(q, o) # {} PROVE Latest(Words(q, o), 1)
  BY <1>4, <1>6 DEF Latest
<1> QED
  BY <1>5, <1>6

(***************************************************************************)
(* The shape of the state                                                  *)
(***************************************************************************)

(* The offsets a report of the document may carry. *)
Ats == Interval(doc)

UpMsg ==
  [op : {"selection_made"}, at : Ats, id : 1..MaxEmits]
    \union [op : {"selection_cleared", "keydown"}]

PendingMsg ==
  [op : {"init"}, hl : SUBSET Ats] \union [op : {"replay"}, of : Clients, at : Ats]

DownMsg ==
  PendingMsg \union [op : {"apply"}, hl : SUBSET Ats]
    \union [op : {"show"}, of : Clients, at : Ats]
    \union [op : {"hide"}, of : Clients] \union [op : {"removeAllRanges"}]

Highlight == [at : Ats, id : 1..MaxEmits, text : {Sliced[doc][i] : i \in Ats}]

Report == [by : Clients, range : Documents[doc].drags]

Selected == [at : Ats, id : 1..MaxEmits]

PagesShape ==
  /\ page \in [Clients -> {"away", "loading", "open", "gone"}]
  /\ present = {c \in Clients : page[c] \in {"loading", "open"}}
  /\ \A c \in Clients : presence[c] # None => c \in present
  /\ \A c \in Clients : page[c] # "open" => up[c] = <<>>

BrowserShape ==
  /\ live \in [Clients -> Documents[doc].drags \union {None}]
  /\ stored \in [Clients -> Documents[doc].drags \union {None}]
  /\ clicked \in [Clients -> BOOLEAN] /\ ready \in [Clients -> BOOLEAN]
  /\ functions \in [Clients -> BOOLEAN] /\ behind \in [Clients -> BOOLEAN]
  /\ pending \in [Clients -> SUBSET PendingMsg] /\ missed \in [Clients -> SUBSET Clients]
  /\ DOMAIN drawn = Clients

RemoteShape ==
  /\ DOMAIN styles = Clients /\ DOMAIN remote = Clients
  /\ \A v \in Clients : DOMAIN remote[v] = Clients
  /\ \A v \in Clients : styles[v] = {o \in Clients : remote[v][o] # None}

ServerShape ==
  /\ adding \in [Clients -> {"no", "persist", "broadcast"}]
  /\ selection \in [Clients -> Selected \union {None}]
  /\ presence \in [Clients -> Ats \union {None}]
  /\ highlights \in Seq(Highlight)

QueuesShape ==
  /\ up \in [Clients -> Seq(UpMsg)]
  /\ down \in [Clients -> Seq(DownMsg)]
  /\ emitted \in Seq(Report) /\ Len(emitted) <= MaxEmits

Shape ==
  /\ doc \in DOMAIN Documents
  /\ PagesShape /\ BrowserShape /\ RemoteShape /\ ServerShape /\ QueuesShape

(* The sets of messages depend on the document alone, which never changes. *)
LEMMA SameSets ==
  ASSUME doc' = doc
  PROVE  /\ Ats' = Ats /\ UpMsg' = UpMsg /\ DownMsg' = DownMsg /\ PendingMsg' = PendingMsg
         /\ Highlight' = Highlight /\ Report' = Report /\ Selected' = Selected
BY DEF Ats, UpMsg, PendingMsg, DownMsg, Highlight, Report, Selected

(* A message is appended to the queues of some clients. *)
LEMMA Sent ==
  ASSUME NEW M, NEW queue \in [Clients -> Seq(M)], NEW targets, NEW msg \in M
  PROVE  /\ Send(queue, targets, msg) \in [Clients -> Seq(M)]
         /\ \A c \in Clients : Send(queue, targets, msg)[c] =
              IF c \in targets THEN Append(queue[c], msg) ELSE queue[c]
<1>1. \A c \in Clients : queue[c] \in Seq(M) /\ Append(queue[c], msg) \in Seq(M)
  BY AppendAt
<1> QED
  BY <1>1 DEF Send

(* None of the sentinels is an offset. *)
LEMMA AtsAreOffsets ==
  ASSUME doc \in DOMAIN Documents
  PROVE  /\ None \notin Ats
         /\ None \notin Documents[doc].drags
         /\ \A r \in Documents[doc].drags : Reported[doc][r] # None => Reported[doc][r] \in Ats
BY SelectionAssumption DEF Ats, Interval

(* The highlights a push carries. *)
LEMMA HighlightDataShape ==
  ASSUME highlights \in Seq(Highlight)
  PROVE  HighlightData \subseteq Ats
<1>1. \A i \in DOMAIN highlights : highlights[i] \in Highlight
  OBVIOUS
<1>2. \A h \in Range(highlights) : h.at \in Ats
  BY <1>1 DEF Range, Highlight
<1> QED
  BY <1>2 DEF HighlightData

(* The scripts the server sends. *)
LEMMA ScriptShapes ==
  /\ \A hl \in SUBSET Ats : [op |-> "apply", hl |-> hl] \in DownMsg
                            /\ [op |-> "init", hl |-> hl] \in DownMsg
  /\ \A c \in Clients : Hide(c) \in DownMsg
                        /\ \A at \in Ats : Show(c, at) \in DownMsg /\ ShowAgain(c, at) \in DownMsg
  /\ [op |-> "removeAllRanges"] \in DownMsg
BY DEF DownMsg, PendingMsg, Hide, Show, ShowAgain

(* What the operation of a message says of its fields. *)
LEMMA UpFields ==
  ASSUME NEW m \in UpMsg
  PROVE  /\ m.op \in {"selection_made", "selection_cleared", "keydown"}
         /\ m.op = "selection_made" => m.at \in Ats /\ m.id \in 1..MaxEmits
BY DEF UpMsg

LEMMA DownFields ==
  ASSUME NEW m \in DownMsg
  PROVE  /\ m.op \in {"init", "apply", "show", "hide", "replay", "removeAllRanges"}
         /\ m.op \in {"init", "apply"} => m.hl \in SUBSET Ats
         /\ m.op \in {"show", "hide", "replay"} => m.of \in Clients
         /\ m.op \in {"show", "replay"} => m.at \in Ats
         /\ m.op \in {"init", "replay"} => m \in PendingMsg
BY DEF DownMsg, PendingMsg

LEMMA PendingFields ==
  ASSUME NEW m \in PendingMsg
  PROVE  /\ m.op \in {"init", "replay"}
         /\ m.op = "init" => m.hl \in SUBSET Ats
         /\ m.op = "replay" => m.of \in Clients /\ m.at \in Ats
BY DEF PendingMsg

(* The replay of the selections tells each once: a sequence of all scripts *)
(* about the others that select something.                                 *)
LEMMA SetToSeqLists ==
  ASSUME NEW S, IsFiniteSet(S)
  PROVE  /\ SetToSeq(S) \in Seq(S)
         /\ DOMAIN SetToSeq(S) = 1 .. Len(SetToSeq(S))
         /\ \A x \in S : \E i \in DOMAIN SetToSeq(S) : SetToSeq(S)[i] = x
<1> DEFINE n == Cardinality(S)
           f == SetToSeq(S)
<1>1. n \in Nat /\ ExistsBijection(1 .. n, S)
  BY FS_CardinalityType
<1>2. PICK g \in Bijection(1 .. n, S) : TRUE
  BY <1>1 DEF ExistsBijection
<1>3. g \in [1 .. n -> S] /\ IsInjective(g)
  BY <1>2 DEF Bijection, Injection, IsInjective
<1>4. f \in [1 .. n -> S] /\ IsInjective(f)
  BY <1>3 DEF SetToSeq
<1>5. f \in Injection(1 .. n, S)
  BY <1>4 DEF Injection, IsInjective
<1>6. IsFiniteSet(1 .. n) /\ Cardinality(1 .. n) = n
  BY <1>1, FS_Interval
<1>7. f \in Surjection(1 .. n, S)
  BY <1>5, <1>6, FS_Injection
<1> HIDE DEF f, n
<1>8. f \in Seq(S) /\ DOMAIN f = 1 .. n /\ Len(f) = n
  BY <1>1, <1>4
<1>9. \A x \in S : \E i \in 1 .. n : f[i] = x
  BY <1>7 DEF Surjection
<1> QED
  BY <1>8, <1>9 DEF f

LEMMA ReplayTells ==
  ASSUME Shape, NEW c \in Clients
  PROVE  /\ Replay(c) \in Seq(DownMsg)
         /\ \A i \in DOMAIN Replay(c) :
              \E o \in Others(c) : /\ presence[o] # None
                                   /\ Replay(c)[i] = ShowAgain(o, presence[o])
         /\ \A o \in Others(c) : presence[o] # None =>
              \E i \in DOMAIN Replay(c) : Replay(c)[i] = ShowAgain(o, presence[o])
<1> DEFINE S == {o \in Others(c) : presence[o] # None}
           f == SetToSeq(S)
<1>1. S \subseteq Clients
  BY DEF Others, Shape, PagesShape
<1>2. IsFiniteSet(S)
  BY <1>1, FS_Subset, SelectionAssumption
<1>3. /\ f \in Seq(S) /\ DOMAIN f = 1 .. Len(f)
      /\ \A x \in S : \E i \in DOMAIN f : f[i] = x
  BY <1>2, SetToSeqLists
<1>4. Replay(c) = [i \in DOMAIN f |-> ShowAgain(f[i], presence[f[i]])]
  BY DEF Replay
<1>5. \A o \in S : ShowAgain(o, presence[o]) \in DownMsg
  BY <1>1, ScriptShapes DEF Shape, ServerShape
<1> HIDE DEF f
<1>6. \A i \in 1 .. Len(f) : f[i] \in S
  BY <1>3
<1>7. Len(f) \in Nat
  BY <1>3
<1>8. Replay(c) \in [1 .. Len(f) -> DownMsg]
  BY <1>3, <1>4, <1>5, <1>6
<1>9. Replay(c) \in Seq(DownMsg)
  BY <1>7, <1>8
<1>10. \A i \in DOMAIN Replay(c) :
         \E o \in Others(c) : presence[o] # None /\ Replay(c)[i] = ShowAgain(o, presence[o])
  BY <1>3, <1>4, <1>6
<1>11. \A o \in Others(c) : presence[o] # None =>
         \E i \in DOMAIN Replay(c) : Replay(c)[i] = ShowAgain(o, presence[o])
  BY <1>3, <1>4
<1> QED
  BY <1>9, <1>10, <1>11

LEMMA SentDown ==
  ASSUME Shape, NEW targets, NEW msg \in DownMsg
  PROVE  /\ Send(down, targets, msg) \in [Clients -> Seq(DownMsg)]
         /\ \A c \in Clients : Send(down, targets, msg)[c] =
              IF c \in targets THEN Append(down[c], msg) ELSE down[c]
<1>1. down \in [Clients -> Seq(DownMsg)]
  BY DEF Shape, QueuesShape
<1> QED
  BY <1>1, Sent

-----------------------------------------------------------------------------
(* The steps of a user leave pages, the server and the scripts alone.      *)
LEMMA ShapeUser ==
  ASSUME Shape, NEW c \in Clients, User(c)
  PROVE  Shape'
<1>1. doc' = doc /\ UNCHANGED <<page, down, ready, drawn, remote, styles, scripts, server>>
  BY DEF User, SelectionChange, Collapse, MouseUp, Click, ClickSettles, PressTag, browser
<1>2. /\ Ats' = Ats /\ UpMsg' = UpMsg /\ DownMsg' = DownMsg /\ PendingMsg' = PendingMsg
      /\ Highlight' = Highlight /\ Report' = Report /\ Selected' = Selected
  BY <1>1, SameSets
<1>3. RemoteShape'
  BY <1>1 DEF Shape, RemoteShape
<1>4. ServerShape'
  BY <1>1, <1>2 DEF Shape, ServerShape, server
<1>5. BrowserShape'
  <2>1. CASE \E r \in Documents[doc].drags : SelectionChange(c, r)
    BY <1>1, <1>2, <2>1 DEF SelectionChange, Shape, BrowserShape, scripts
  <2>2. CASE Collapse(c)
    BY <1>1, <1>2, <2>2 DEF Collapse, Shape, BrowserShape, scripts
  <2>3. CASE MouseUp(c)
    BY <1>1, <1>2, <2>3 DEF MouseUp, Shape, BrowserShape, scripts
  <2>4. CASE Click(c)
    BY <1>1, <1>2, <2>4 DEF Click, Shape, BrowserShape, scripts
  <2>5. CASE ClickSettles(c)
    BY <1>1, <1>2, <2>5 DEF ClickSettles, Shape, BrowserShape, scripts
  <2>6. CASE PressTag(c)
    BY <1>1, <1>2, <2>6 DEF PressTag, Shape, BrowserShape, scripts, browser
  <2> QED
    BY <2>1, <2>2, <2>3, <2>4, <2>5, <2>6 DEF User
<1>6. /\ up' \in [Clients -> Seq(UpMsg)]
      /\ \A d \in Clients : up'[d] = up[d] \/ page[d] = "open"
      /\ emitted' \in Seq(Report) /\ Len(emitted') <= MaxEmits
  <2>1. CASE up' = up /\ emitted' = emitted
    BY <2>1 DEF Shape, QueuesShape
  <2>2. CASE MouseUp(c) /\ Reported[doc][RangeAt(c)] # None
    <3> DEFINE at == Reported[doc][RangeAt(c)]
               id == Len(emitted) + 1
               msg == [op |-> "selection_made", at |-> at, id |-> id]
               rep == [by |-> c, range |-> RangeAt(c)]
    <3>1. /\ page[c] = "open" /\ RangeAt(c) # None /\ at # None
          /\ Len(emitted) < MaxEmits
          /\ emitted' = Append(emitted, rep)
          /\ up' = Send(up, {c}, msg)
      BY <2>2 DEF MouseUp
    <3>2. RangeAt(c) \in Documents[doc].drags
      BY <3>1 DEF RangeAt, Shape, BrowserShape
    <3>3. at \in Ats
      BY <3>1, <3>2, AtsAreOffsets DEF Shape
    <3>4. emitted \in Seq(Report) /\ Len(emitted) \in Nat
      BY DEF Shape, QueuesShape
    <3>5. id \in 1 .. MaxEmits
      BY <3>1, <3>4, SelectionAssumption
    <3> HIDE DEF at, id
    <3>6. msg \in UpMsg
      BY <3>3, <3>5 DEF UpMsg
    <3>7. rep \in Report
      BY <3>2 DEF Report
    <3> HIDE DEF msg, rep
    <3>8. emitted' \in Seq(Report) /\ Len(emitted') = Len(emitted) + 1
      BY <3>1, <3>4, <3>7, AppendAt
    <3>9. /\ Send(up, {c}, msg) \in [Clients -> Seq(UpMsg)]
          /\ \A d \in Clients : Send(up, {c}, msg)[d] =
               IF d \in {c} THEN Append(up[d], msg) ELSE up[d]
      BY <3>6, Sent DEF Shape, QueuesShape
    <3>10. Len(emitted') <= MaxEmits
      BY <3>1, <3>4, <3>8, SelectionAssumption
    <3> QED
      BY <3>1, <3>8, <3>9, <3>10
  <2>3. CASE /\ page[c] = "open" /\ emitted' = emitted
             /\ \/ up' = Send(up, {c}, [op |-> "selection_cleared"])
                \/ up' = Send(up, {c}, [op |-> "keydown"])
    <3>1. [op |-> "selection_cleared"] \in UpMsg /\ [op |-> "keydown"] \in UpMsg
      BY DEF UpMsg
    <3>2. PICK msg \in UpMsg : up' = Send(up, {c}, msg)
      BY <2>3, <3>1
    <3>3. /\ Send(up, {c}, msg) \in [Clients -> Seq(UpMsg)]
          /\ \A d \in Clients : Send(up, {c}, msg)[d] =
               IF d \in {c} THEN Append(up[d], msg) ELSE up[d]
      BY Sent DEF Shape, QueuesShape
    <3> QED
      BY <2>3, <3>2, <3>3 DEF Shape, QueuesShape
  <2>4. CASE \/ \E r \in Documents[doc].drags : SelectionChange(c, r)
             \/ Collapse(c) \/ Click(c)
    BY <2>1, <2>4 DEF SelectionChange, Collapse, Click
  <2>5. CASE MouseUp(c)
    <3>1. CASE Reported[doc][RangeAt(c)] = None
      BY <2>1, <2>5, <3>1 DEF MouseUp
    <3> QED
      BY <2>2, <2>5, <3>1
  <2>6. CASE ClickSettles(c)
    BY <2>1, <2>3, <2>6 DEF ClickSettles
  <2>7. CASE PressTag(c)
    BY <2>3, <2>7 DEF PressTag
  <2> QED
    BY <2>4, <2>5, <2>6, <2>7 DEF User
<1>7. QueuesShape'
  BY <1>1, <1>2, <1>6 DEF Shape, QueuesShape
<1>8. PagesShape'
  BY <1>1, <1>6 DEF Shape, PagesShape, server
<1> QED
  BY <1>1, <1>3, <1>4, <1>5, <1>7, <1>8 DEF Shape

(* A page opens.                                                           *)
LEMMA ShapeOpenPage ==
  ASSUME Shape, NEW c \in Clients, OpenPage(c)
  PROVE  Shape'
<1> DEFINE msg == [op |-> "apply", hl |-> HighlightData]
<1>1. /\ page[c] = "away" /\ page' = [page EXCEPT ![c] = "loading"]
      /\ present' = present \union {c}
      /\ down' = Send(down, present, msg)
      /\ functions' = [functions EXCEPT ![c] = TRUE] \/ functions' = [functions EXCEPT ![c] = FALSE]
      /\ UNCHANGED <<doc, live, stored, clicked, pending, ready, drawn, remote, styles, behind,
                     missed, up, selection, adding, presence, highlights, emitted>>
  BY DEF OpenPage
<1>2. /\ Ats' = Ats /\ UpMsg' = UpMsg /\ DownMsg' = DownMsg /\ PendingMsg' = PendingMsg
      /\ Highlight' = Highlight /\ Report' = Report /\ Selected' = Selected
  BY <1>1, SameSets
<1>3. msg \in DownMsg
  BY ScriptShapes, HighlightDataShape DEF Shape, ServerShape
<1> HIDE DEF msg
<1>4. down' \in [Clients -> Seq(DownMsg)]
  BY <1>1, <1>3, SentDown
<1>5. PagesShape'
  BY <1>1 DEF Shape, PagesShape
<1>6. functions' \in [Clients -> BOOLEAN]
  BY <1>1 DEF Shape, BrowserShape
<1>7. BrowserShape' /\ RemoteShape'
  BY <1>1, <1>2, <1>6 DEF Shape, BrowserShape, RemoteShape
<1> QED
  BY <1>1, <1>2, <1>4, <1>5, <1>7 DEF Shape, ServerShape, QueuesShape

(* A page is rendered.                                                     *)
LEMMA ShapeRenderPage ==
  ASSUME Shape, NEW c \in Clients, RenderPage(c)
  PROVE  Shape'
<1> DEFINE msg == [op |-> "init", hl |-> HighlightData]
<1>1. /\ page[c] = "loading" /\ page' = [page EXCEPT ![c] = "open"]
      /\ down' = [down EXCEPT ![c] = down[c] \o <<msg>> \o Replay(c)]
      /\ UNCHANGED <<doc, live, stored, clicked, ready, drawn, remote, styles, scripts, up,
                     selection, adding, present, presence, highlights, emitted>>
  BY DEF RenderPage, browser, server
<1>2. /\ Ats' = Ats /\ UpMsg' = UpMsg /\ DownMsg' = DownMsg /\ PendingMsg' = PendingMsg
      /\ Highlight' = Highlight /\ Report' = Report /\ Selected' = Selected
  BY <1>1, SameSets
<1>3. msg \in DownMsg
  BY ScriptShapes, HighlightDataShape DEF Shape, ServerShape
<1> HIDE DEF msg
<1>4. down[c] \in Seq(DownMsg) /\ <<msg>> \in Seq(DownMsg) /\ Replay(c) \in Seq(DownMsg)
  BY <1>3, ReplayTells DEF Shape, QueuesShape
<1>5. down[c] \o <<msg>> \o Replay(c) \in Seq(DownMsg)
  BY <1>4
<1>6. down' \in [Clients -> Seq(DownMsg)]
  BY <1>1, <1>5 DEF Shape, QueuesShape
<1>7. PagesShape'
  BY <1>1 DEF Shape, PagesShape
<1> QED
  BY <1>1, <1>2, <1>6, <1>7 DEF scripts, Shape, BrowserShape, RemoteShape, ServerShape, QueuesShape

(* A client is deleted.                                                    *)
LEMMA ShapeDeleteClient ==
  ASSUME Shape, NEW c \in Clients, DeleteClient(c)
  PROVE  Shape'
<1>1. /\ page' = [page EXCEPT ![c] = "gone"]
      /\ present' = present \ {c}
      /\ presence' = [presence EXCEPT ![c] = None]
      /\ up' = [up EXCEPT ![c] = <<>>]
      /\ down' = Send(down, Others(c), Hide(c))
      /\ UNCHANGED <<doc, live, stored, clicked, ready, drawn, remote, styles, scripts,
                     selection, adding, highlights, emitted>>
  BY DEF DeleteClient, browser
<1>2. /\ Ats' = Ats /\ UpMsg' = UpMsg /\ DownMsg' = DownMsg /\ PendingMsg' = PendingMsg
      /\ Highlight' = Highlight /\ Report' = Report /\ Selected' = Selected
  BY <1>1, SameSets
<1>3. Hide(c) \in DownMsg
  BY ScriptShapes
<1>4. down' \in [Clients -> Seq(DownMsg)]
  BY <1>1, <1>3, SentDown
<1>5. up' \in [Clients -> Seq(UpMsg)] /\ presence' \in [Clients -> Ats \union {None}]
  BY <1>1 DEF Shape, QueuesShape, ServerShape
<1>6. PagesShape'
  BY <1>1 DEF Shape, PagesShape, QueuesShape, ServerShape
<1> QED
  BY <1>1, <1>2, <1>4, <1>5, <1>6 DEF scripts, Shape, BrowserShape, RemoteShape, ServerShape, QueuesShape

(* What a browser does with word of a client: it shows a range, or nothing. *)
Follow(c, o, range) ==
  /\ DOMAIN remote' = Clients /\ DOMAIN styles' = Clients
  /\ \A v \in Clients \ {c} : remote'[v] = remote[v] /\ styles'[v] = styles[v]
  /\ remote'[c] = [remote[c] EXCEPT ![o] = range]
  /\ styles'[c] = IF range = None THEN styles[c] \ {o} ELSE styles[c] \union {o}

(* It shows what it has shown. *)
Keep ==
  /\ DOMAIN remote' = Clients /\ DOMAIN styles' = Clients
  /\ \A v \in Clients : remote'[v] = remote[v] /\ styles'[v] = styles[v]

(* The other browsers load, draw and miss what they have. *)
Local(c) ==
  /\ ready' \in [Clients -> BOOLEAN] /\ functions' \in [Clients -> BOOLEAN]
  /\ behind' \in [Clients -> BOOLEAN] /\ pending' \in [Clients -> SUBSET PendingMsg]
  /\ missed' \in [Clients -> SUBSET Clients] /\ DOMAIN drawn' = Clients
  /\ \A v \in Clients \ {c} :
       /\ ready'[v] = ready[v] /\ functions'[v] = functions[v] /\ behind'[v] = behind[v]
       /\ pending'[v] = pending[v] /\ missed'[v] = missed[v] /\ drawn'[v] = drawn[v]

LEMMA Rendered ==
  ASSUME Shape, NEW c \in Clients, NEW o \in Clients, NEW at, renderRemoteSelection(c, o, at)
  PROVE  Follow(c, o, IF HasContainer(c) THEN Located[doc][at] ELSE None)
<1> DEFINE range == IF HasContainer(c) THEN Located[doc][at] ELSE None
<1>1. /\ DOMAIN remote = Clients /\ DOMAIN styles = Clients
      /\ \A v \in Clients : DOMAIN remote[v] = Clients
  BY DEF Shape, RemoteShape
<1>2. /\ remote' = [remote EXCEPT ![c][o] = range]
      /\ styles' = [styles EXCEPT ![c] = IF range = None THEN styles[c] \ {o}
                                         ELSE styles[c] \union {o}]
  <2>1. CASE HasContainer(c) /\ Located[doc][at] # None
    BY <2>1 DEF renderRemoteSelection
  <2>2. CASE ~(HasContainer(c) /\ Located[doc][at] # None)
    <3>1. removeRemoteSelection(c, o) /\ range = None
      BY <2>2 DEF renderRemoteSelection
    <3> QED
      BY <3>1 DEF removeRemoteSelection
  <2> QED
    BY <2>1, <2>2
<1> HIDE DEF range
<1>3. Follow(c, o, range)
  BY <1>1, <1>2 DEF Follow
<1> QED
  BY <1>3 DEF range

LEMMA Removed ==
  ASSUME Shape, NEW c \in Clients, NEW o \in Clients, removeRemoteSelection(c, o)
  PROVE  Follow(c, o, None)
BY DEF removeRemoteSelection, Follow, Shape, RemoteShape

LEMMA Cleared ==
  ASSUME Shape, NEW c \in Clients, NEW hl, applyHighlights(c, hl)
  PROVE  Keep /\ drawn' = [drawn EXCEPT ![c] = DrawnOf(hl)]
<1>1. /\ remote' = [remote EXCEPT ![c] = remote[c]] /\ styles' = styles
      /\ drawn' = [drawn EXCEPT ![c] = DrawnOf(hl)]
  BY DEF applyHighlights, clearHighlights
<1>2. DOMAIN remote = Clients /\ DOMAIN styles = Clients
  BY DEF Shape, RemoteShape
<1> QED
  BY <1>1, <1>2 DEF Keep

LEMMA Kept ==
  ASSUME Shape, UNCHANGED <<remote, styles>>
  PROVE  Keep
BY DEF Keep, Shape, RemoteShape

LEMMA FollowShape ==
  ASSUME Shape, NEW c \in Clients,
         Keep \/ \E o \in Clients : \E range : Follow(c, o, range)
  PROVE  RemoteShape'
<1>1. /\ DOMAIN remote = Clients
      /\ \A v \in Clients : DOMAIN remote[v] = Clients
                            /\ styles[v] = {o \in Clients : remote[v][o] # None}
  BY DEF Shape, RemoteShape
<1>2. CASE Keep
  BY <1>1, <1>2 DEF Keep, RemoteShape
<1>3. CASE \E o \in Clients : \E range : Follow(c, o, range)
  <2>1. PICK o \in Clients : \E range : Follow(c, o, range)
    BY <1>3
  <2>2. PICK range : Follow(c, o, range)
    BY <2>1
  <2>3. DOMAIN remote'[c] = Clients /\ styles'[c] = {p \in Clients : remote'[c][p] # None}
    <3>1. CASE range = None
      BY <1>1, <2>2, <3>1 DEF Follow
    <3>2. CASE range # None
      <4>1. /\ remote'[c] = [remote[c] EXCEPT ![o] = range]
            /\ styles'[c] = styles[c] \union {o}
        BY <2>2, <3>2 DEF Follow
      <4> QED
        BY <1>1, <3>2, <4>1
    <3> QED
      BY <3>1, <3>2
  <2>4. /\ DOMAIN remote' = Clients /\ DOMAIN styles' = Clients
        /\ \A v \in Clients \ {c} : remote'[v] = remote[v] /\ styles'[v] = styles[v]
    BY <2>2 DEF Follow
  <2>5. ASSUME NEW v \in Clients
        PROVE  DOMAIN remote'[v] = Clients /\ styles'[v] = {p \in Clients : remote'[v][p] # None}
    <3>1. CASE v = c
      BY <2>3, <3>1
    <3>2. CASE v # c
      BY <1>1, <2>4, <3>2
    <3> QED
      BY <3>1, <3>2
  <2> QED
    BY <2>4, <2>5 DEF RemoteShape
<1> QED
  BY <1>2, <1>3

(* The browser runs a script: what each changes.                           *)
Undefined(msg, c) == msg.op \in {"init", "replay"} /\ ~functions[c]

RunChanges(c, msg) ==
  /\ Local(c) /\ functions'[c] = functions[c]
  /\ live' = IF msg.op = "removeAllRanges" THEN [live EXCEPT ![c] = None] ELSE live
  /\ ready'[c] = (ready[c] \/ (msg.op = "init" /\ functions[c]))
  /\ pending'[c] = IF Undefined(msg, c) THEN pending[c] \union {msg} ELSE pending[c]
  /\ drawn'[c] = IF functions[c] /\ (msg.op = "init" \/ (msg.op = "apply" /\ HasContainer(c)))
                 THEN DrawnOf(msg.hl) ELSE drawn[c]
  /\ behind'[c] = IF msg.op = "apply" THEN InitPending(c) ELSE behind[c]
  /\ missed'[c] = IF msg.op \in {"show", "hide", "replay"} /\ HasContainer(c)
                  THEN IF (msg.op = "replay" \/ functions[c]) /\ ~Polling(c, msg.of)
                       THEN missed[c] \ {msg.of} ELSE missed[c] \union {msg.of}
                  ELSE missed[c]
  /\ IF msg.op \in {"show", "hide", "replay"} /\ functions[c]
     THEN Follow(c, msg.of, IF msg.op # "hide" /\ HasContainer(c)
                            THEN Located[doc][msg.at] ELSE None)
     ELSE Keep

LEMMA RunEffect ==
  ASSUME Shape, NEW c \in Clients, RunScript(c)
  PROVE  LET msg == Head(down[c]) IN
         /\ down[c] # <<>> /\ page[c] \in {"loading", "open"} /\ msg \in DownMsg
         /\ down' = [down EXCEPT ![c] = Tail(down[c])]
         /\ UNCHANGED <<doc, page, stored, clicked, up, server, emitted, inputs>>
         /\ RunChanges(c, msg)
<1>1. PICK msg : msg = Head(down[c])
  OBVIOUS
<1>2. /\ down[c] # <<>> /\ page[c] \in {"loading", "open"}
      /\ down' = [down EXCEPT ![c] = Tail(down[c])]
      /\ UNCHANGED <<doc, page, stored, clicked, functions, up, server, emitted, inputs>>
      /\ \/ msg.op = "init" /\ RunInit(c, msg)
         \/ msg.op = "apply" /\ RunApply(c, msg)
         \/ msg.op = "replay" /\ RunReplay(c, msg)
         \/ msg.op = "show" /\ RunShow(c, msg)
         \/ msg.op = "hide" /\ RunHide(c, msg)
         \/ msg.op = "removeAllRanges" /\ RunRemoveAllRanges(c)
  BY <1>1 DEF RunScript
<1>3. msg \in DownMsg
  BY <1>1, <1>2, TailAt DEF Shape, QueuesShape
<1>4. /\ msg.op \in {"init", "replay"} => msg \in PendingMsg
      /\ msg.op \in {"show", "hide", "replay"} => msg.of \in Clients
  BY <1>3, DownFields
<1>5. /\ ready \in [Clients -> BOOLEAN] /\ functions \in [Clients -> BOOLEAN]
      /\ behind \in [Clients -> BOOLEAN] /\ pending \in [Clients -> SUBSET PendingMsg]
      /\ missed \in [Clients -> SUBSET Clients] /\ DOMAIN drawn = Clients
  BY DEF Shape, BrowserShape
<1>6. CASE msg.op = "init" /\ RunInit(c, msg)
  <2>1. msg.op \notin {"apply", "show", "hide", "replay", "removeAllRanges"}
    BY <1>6
  <2>2. CASE functions[c]
    <3>1. /\ ready' = [ready EXCEPT ![c] = TRUE] /\ UNCHANGED <<live, pending, behind, missed>>
          /\ Keep /\ drawn' = [drawn EXCEPT ![c] = DrawnOf(msg.hl)]
      BY <1>6, <2>2, Cleared DEF RunInit, init
    <3> QED
      BY <1>1, <1>2, <1>3, <1>5, <1>6, <2>1, <2>2, <3>1 DEF RunChanges, Undefined, Local
  <2>3. CASE ~functions[c]
    <3>1. /\ pending' = [pending EXCEPT ![c] = pending[c] \union {msg}]
          /\ UNCHANGED <<live, ready, drawn, behind, missed>> /\ Keep
      BY <1>6, <2>3, Kept DEF RunInit, Wait
    <3>2. pending' \in [Clients -> SUBSET PendingMsg]
      BY <1>4, <1>5, <1>6, <3>1
    <3> QED
      BY <1>1, <1>2, <1>3, <1>5, <1>6, <2>1, <2>3, <3>1, <3>2 DEF RunChanges, Undefined, Local
  <2> QED
    BY <2>2, <2>3
<1>7. CASE msg.op = "apply" /\ RunApply(c, msg)
  <2>1. msg.op \notin {"init", "show", "hide", "replay", "removeAllRanges"}
    BY <1>7
  <2>2. /\ behind' = [behind EXCEPT ![c] = InitPending(c)] /\ InitPending(c) \in BOOLEAN
        /\ UNCHANGED <<live, ready, pending, missed>>
    BY <1>7 DEF RunApply, InitPending
  <2>3. CASE HasContainer(c) /\ functions[c]
    <3>1. Keep /\ drawn' = [drawn EXCEPT ![c] = DrawnOf(msg.hl)]
      BY <1>7, <2>3, Cleared DEF RunApply
    <3> QED
      BY <1>1, <1>2, <1>3, <1>5, <1>7, <2>1, <2>2, <2>3, <3>1 DEF RunChanges, Undefined, Local
  <2>4. CASE ~(HasContainer(c) /\ functions[c])
    <3>1. Keep /\ drawn' = drawn
      BY <1>7, <2>4, Kept DEF RunApply
    <3> QED
      BY <1>1, <1>2, <1>3, <1>5, <1>7, <2>1, <2>2, <2>4, <3>1 DEF RunChanges, Undefined, Local
  <2> QED
    BY <2>3, <2>4
<1>8. ASSUME msg.op \in {"show", "hide", "replay"}, NEW followed \in BOOLEAN, Heard(c, msg.of, followed)
      PROVE  /\ missed' \in [Clients -> SUBSET Clients]
             /\ \A v \in Clients \ {c} : missed'[v] = missed[v]
             /\ missed'[c] = IF HasContainer(c)
                             THEN IF followed /\ ~Polling(c, msg.of)
                                  THEN missed[c] \ {msg.of} ELSE missed[c] \union {msg.of}
                             ELSE missed[c]
  <2>1. msg.of \in Clients
    BY <1>4, <1>8
  <2>2. CASE ~HasContainer(c)
    BY <1>5, <1>8, <2>2 DEF Heard
  <2>3. CASE HasContainer(c) /\ followed /\ ~Polling(c, msg.of)
    <3>1. missed' = [missed EXCEPT ![c] = missed[c] \ {msg.of}]
      BY <1>8, <2>3 DEF Heard
    <3> QED
      BY <1>5, <2>3, <3>1
  <2>4. CASE HasContainer(c) /\ ~(followed /\ ~Polling(c, msg.of))
    <3>1. missed' = [missed EXCEPT ![c] = missed[c] \union {msg.of}]
      BY <1>8, <2>4 DEF Heard
    <3> QED
      BY <1>5, <2>1, <2>4, <3>1
  <2> QED
    BY <2>2, <2>3, <2>4
<1>9. CASE msg.op = "replay" /\ RunReplay(c, msg)
  <2>1. msg.op \notin {"init", "apply", "show", "hide", "removeAllRanges"} /\ msg.of \in Clients
    BY <1>4, <1>9
  <2>2. Heard(c, msg.of, TRUE) /\ UNCHANGED <<live, behind>>
    BY <1>9 DEF RunReplay
  <2>3. CASE functions[c]
    <3>1. /\ Follow(c, msg.of, IF HasContainer(c) THEN Located[doc][msg.at] ELSE None)
          /\ UNCHANGED <<ready, drawn, pending>>
      BY <1>9, <2>1, <2>3, Rendered DEF RunReplay
    <3> QED
      BY <1>1, <1>2, <1>3, <1>5, <1>8, <1>9, <2>1, <2>2, <2>3, <3>1
         DEF RunChanges, Undefined, Local
  <2>4. CASE ~functions[c]
    <3>1. /\ pending' = [pending EXCEPT ![c] = pending[c] \union {msg}]
          /\ UNCHANGED <<ready, drawn>> /\ Keep
      BY <1>9, <2>4, Kept DEF RunReplay, Wait
    <3>2. pending' \in [Clients -> SUBSET PendingMsg]
      BY <1>4, <1>5, <1>9, <3>1
    <3> QED
      BY <1>1, <1>2, <1>3, <1>5, <1>8, <1>9, <2>1, <2>2, <2>4, <3>1, <3>2
         DEF RunChanges, Undefined, Local
  <2> QED
    BY <2>3, <2>4
<1>10. CASE msg.op = "show" /\ RunShow(c, msg)
  <2>1. msg.op \notin {"init", "apply", "replay", "hide", "removeAllRanges"} /\ msg.of \in Clients
    BY <1>4, <1>10
  <2>2. /\ Heard(c, msg.of, functions[c]) /\ functions[c] \in BOOLEAN
        /\ UNCHANGED <<live, ready, drawn, pending, behind>>
    BY <1>5, <1>10 DEF RunShow
  <2>3. IF functions[c]
        THEN Follow(c, msg.of, IF HasContainer(c) THEN Located[doc][msg.at] ELSE None) ELSE Keep
    BY <1>10, <2>1, Rendered, Kept DEF RunShow
  <2> QED
    BY <1>1, <1>2, <1>3, <1>5, <1>8, <1>10, <2>1, <2>2, <2>3 DEF RunChanges, Undefined, Local
<1>11. CASE msg.op = "hide" /\ RunHide(c, msg)
  <2>1. msg.op \notin {"init", "apply", "replay", "show", "removeAllRanges"} /\ msg.of \in Clients
    BY <1>4, <1>11
  <2>2. /\ Heard(c, msg.of, functions[c]) /\ functions[c] \in BOOLEAN
        /\ UNCHANGED <<live, ready, drawn, pending, behind>>
    BY <1>5, <1>11 DEF RunHide
  <2>3. IF functions[c] THEN Follow(c, msg.of, None) ELSE Keep
    BY <1>11, <2>1, Removed, Kept DEF RunHide
  <2> QED
    BY <1>1, <1>2, <1>3, <1>5, <1>8, <1>11, <2>1, <2>2, <2>3 DEF RunChanges, Undefined, Local
<1>12. CASE msg.op = "removeAllRanges" /\ RunRemoveAllRanges(c)
  <2>1. msg.op \notin {"init", "apply", "replay", "show", "hide"}
    BY <1>12
  <2>2. /\ live' = [live EXCEPT ![c] = None]
        /\ UNCHANGED <<ready, drawn, pending, behind, missed>> /\ Keep
    BY <1>12, Kept DEF RunRemoveAllRanges
  <2> QED
    BY <1>1, <1>2, <1>3, <1>5, <1>12, <2>1, <2>2 DEF RunChanges, Undefined, Local
<1> QED
  BY <1>2, <1>6, <1>7, <1>9, <1>10, <1>11, <1>12

LEMMA ShapeRunScript ==
  ASSUME Shape, NEW c \in Clients, RunScript(c)
  PROVE  Shape'
<1> DEFINE msg == Head(down[c])
<1>1. /\ down[c] # <<>> /\ msg \in DownMsg
      /\ down' = [down EXCEPT ![c] = Tail(down[c])]
      /\ UNCHANGED <<doc, page, stored, clicked, up, server, emitted, inputs>>
      /\ RunChanges(c, msg)
  BY RunEffect
<1>2. /\ Ats' = Ats /\ UpMsg' = UpMsg /\ DownMsg' = DownMsg /\ PendingMsg' = PendingMsg
      /\ Highlight' = Highlight /\ Report' = Report /\ Selected' = Selected
  BY <1>1, SameSets
<1>3. down' \in [Clients -> Seq(DownMsg)]
  <2>1. down \in [Clients -> Seq(DownMsg)] /\ Tail(down[c]) \in Seq(DownMsg)
    BY <1>1, TailAt DEF Shape, QueuesShape
  <2> QED
    BY <1>1, <2>1
<1>4. msg.op \in {"show", "hide", "replay"} => msg.of \in Clients
  BY <1>1, DownFields
<1> HIDE DEF msg
<1>5. BrowserShape'
  <2>1. live' = live \/ live' = [live EXCEPT ![c] = None]
    BY <1>1 DEF RunChanges
  <2>2. live' \in [Clients -> Documents[doc].drags \union {None}]
    BY <2>1 DEF Shape, BrowserShape
  <2> QED
    BY <1>1, <1>2, <2>2 DEF Shape, BrowserShape, RunChanges, Local
<1>6. RemoteShape'
  BY <1>1, <1>4, FollowShape DEF RunChanges
<1> QED
  BY <1>1, <1>2, <1>3, <1>5, <1>6 DEF Shape, PagesShape, ServerShape, QueuesShape, server

(* The functions arrive, and what has waited for them runs, or is given up. *)
LEMMA LoadEffect ==
  ASSUME Shape, NEW c \in Clients, LoadFunctions(c)
  PROVE  /\ page[c] = "open" /\ Local(c) /\ Keep /\ functions'[c] = TRUE
         /\ UNCHANGED <<doc, page, live, stored, clicked, up, down, pending, ready, drawn, remote,
                        behind, missed, server, emitted, inputs>>
<1>1. /\ page[c] = "open" /\ functions' = [functions EXCEPT ![c] = TRUE] /\ Keep
      /\ UNCHANGED <<doc, page, live, stored, clicked, up, down, pending, ready, drawn, remote,
                     behind, missed, server, emitted, inputs>>
  BY Kept DEF LoadFunctions
<1> QED
  BY <1>1 DEF Local, Shape, BrowserShape

PendingChanges(c, msg) ==
  /\ Local(c) /\ functions'[c] = functions[c] /\ behind'[c] = behind[c] /\ missed'[c] = missed[c]
  /\ pending'[c] = pending[c] \ {msg}
  /\ \/ /\ msg.op = "init" /\ ready'[c] = TRUE /\ drawn'[c] = DrawnOf(msg.hl) /\ Keep
     \/ /\ msg.op = "replay" /\ ready'[c] = ready[c] /\ drawn'[c] = drawn[c]
        /\ Follow(c, msg.of, IF HasContainer(c) THEN Located[doc][msg.at] ELSE None)

LEMMA PendingEffect ==
  ASSUME Shape, NEW c \in Clients, RunPending(c)
  PROVE  /\ page[c] = "open" /\ functions[c]
         /\ UNCHANGED <<doc, page, live, stored, clicked, up, down, server, emitted, inputs>>
         /\ \E msg \in pending[c] : msg \in PendingMsg /\ PendingChanges(c, msg)
<1>1. /\ page[c] = "open" /\ functions[c]
      /\ UNCHANGED <<doc, page, live, stored, clicked, up, down, functions, behind, missed,
                     server, emitted, inputs>>
  BY DEF RunPending
<1>2. PICK msg \in pending[c] :
        /\ pending' = [pending EXCEPT ![c] = pending[c] \ {msg}]
        /\ \/ msg.op = "init" /\ init(c, msg.hl)
           \/ msg.op = "replay" /\ renderRemoteSelection(c, msg.of, msg.at) /\ UNCHANGED <<ready, drawn>>
  BY DEF RunPending
<1>3. /\ ready \in [Clients -> BOOLEAN] /\ functions \in [Clients -> BOOLEAN]
      /\ behind \in [Clients -> BOOLEAN] /\ pending \in [Clients -> SUBSET PendingMsg]
      /\ missed \in [Clients -> SUBSET Clients] /\ DOMAIN drawn = Clients
  BY DEF Shape, BrowserShape
<1>4. msg \in PendingMsg /\ pending' \in [Clients -> SUBSET PendingMsg]
  BY <1>2, <1>3
<1>5. CASE msg.op = "init" /\ init(c, msg.hl)
  <2>1. /\ ready' = [ready EXCEPT ![c] = TRUE] /\ Keep
        /\ drawn' = [drawn EXCEPT ![c] = DrawnOf(msg.hl)]
    BY <1>5, Cleared DEF init
  <2>2. PendingChanges(c, msg)
    BY <1>1, <1>2, <1>3, <1>4, <1>5, <2>1 DEF PendingChanges, Local
  <2> QED
    BY <1>1, <1>2, <1>4, <2>2
<1>6. CASE msg.op = "replay" /\ renderRemoteSelection(c, msg.of, msg.at) /\ UNCHANGED <<ready, drawn>>
  <2>1. msg.of \in Clients
    BY <1>4, <1>6, PendingFields
  <2>2. Follow(c, msg.of, IF HasContainer(c) THEN Located[doc][msg.at] ELSE None)
    BY <1>6, <2>1, Rendered
  <2>3. PendingChanges(c, msg)
    BY <1>1, <1>2, <1>3, <1>4, <1>6, <2>2 DEF PendingChanges, Local
  <2> QED
    BY <1>1, <1>2, <1>4, <2>3
<1> QED
  BY <1>2, <1>5, <1>6

StopChanges(c, msg) ==
  /\ Local(c) /\ functions'[c] = functions[c] /\ behind'[c] = behind[c] /\ ready'[c] = ready[c]
  /\ drawn'[c] = drawn[c] /\ Keep /\ msg.op = "replay"
  /\ pending'[c] = pending[c] \ {msg} /\ missed'[c] = missed[c] \union {msg.of}

LEMMA StopEffect ==
  ASSUME Shape, NEW c \in Clients, StopPolling(c)
  PROVE  /\ page[c] = "open"
         /\ UNCHANGED <<doc, page, live, stored, clicked, up, down, server, emitted, inputs>>
         /\ \E msg \in pending[c] : msg \in PendingMsg /\ StopChanges(c, msg)
<1>1. /\ page[c] = "open" /\ Keep
      /\ UNCHANGED <<doc, page, live, stored, clicked, up, down, functions, ready, drawn, behind,
                     server, emitted, inputs>>
  BY Kept DEF StopPolling
<1>2. PICK msg \in pending[c] :
        /\ msg.op = "replay"
        /\ pending' = [pending EXCEPT ![c] = pending[c] \ {msg}]
        /\ missed' = [missed EXCEPT ![c] = missed[c] \union {msg.of}]
  BY DEF StopPolling
<1>3. /\ ready \in [Clients -> BOOLEAN] /\ functions \in [Clients -> BOOLEAN]
      /\ behind \in [Clients -> BOOLEAN] /\ pending \in [Clients -> SUBSET PendingMsg]
      /\ missed \in [Clients -> SUBSET Clients] /\ DOMAIN drawn = Clients
  BY DEF Shape, BrowserShape
<1>4. msg \in PendingMsg /\ pending' \in [Clients -> SUBSET PendingMsg]
  BY <1>2, <1>3
<1>5. msg.of \in Clients
  BY <1>2, <1>4, PendingFields
<1>6. missed' \in [Clients -> SUBSET Clients]
  BY <1>2, <1>3, <1>5
<1>7. StopChanges(c, msg)
  BY <1>1, <1>2, <1>3, <1>4, <1>6 DEF StopChanges, Local
<1> QED
  BY <1>1, <1>2, <1>4, <1>7

LEMMA ShapeLoading ==
  ASSUME Shape, NEW c \in Clients, LoadFunctions(c) \/ RunPending(c) \/ StopPolling(c)
  PROVE  Shape'
<1>1. /\ UNCHANGED <<doc, page, live, stored, clicked, up, down, server, emitted, inputs>>
      /\ Local(c) /\ (Keep \/ \E o \in Clients : \E range : Follow(c, o, range))
  <2>1. CASE LoadFunctions(c)
    BY <2>1, LoadEffect
  <2>2. CASE RunPending(c)
    <3>1. PICK msg \in pending[c] : msg \in PendingMsg /\ PendingChanges(c, msg)
      BY <2>2, PendingEffect
    <3>2. msg.op = "replay" => msg.of \in Clients
      BY <3>1, PendingFields
    <3> QED
      BY <2>2, <3>1, <3>2, PendingEffect DEF PendingChanges
  <2>3. CASE StopPolling(c)
    BY <2>3, StopEffect DEF StopChanges
  <2> QED
    BY <2>1, <2>2, <2>3
<1>2. /\ Ats' = Ats /\ UpMsg' = UpMsg /\ DownMsg' = DownMsg /\ PendingMsg' = PendingMsg
      /\ Highlight' = Highlight /\ Report' = Report /\ Selected' = Selected
  BY <1>1, SameSets
<1>3. RemoteShape'
  BY <1>1, FollowShape
<1>4. BrowserShape'
  BY <1>1, <1>2 DEF Shape, BrowserShape, Local
<1> QED
  BY <1>1, <1>2, <1>3, <1>4 DEF Shape, PagesShape, ServerShape, QueuesShape, server

(* The server handles an event: what each changes.                         *)
LEMMA HandleEffect ==
  ASSUME Shape, NEW c \in Clients, HandleEvent(c)
  PROVE  LET msg == Head(up[c]) IN
         /\ up[c] # <<>> /\ msg \in UpMsg /\ page[c] = "open" /\ c \in present
         /\ up' = [up EXCEPT ![c] = Tail(up[c])]
         /\ UNCHANGED <<doc, page, browser, present, emitted, inputs>>
         /\ \/ msg.op = "selection_made" /\ HandleSelection(c, msg)
            \/ msg.op = "selection_cleared" /\ HandleSelectionCleared(c)
            \/ msg.op = "keydown" /\ AddHighlight(c)
<1>1. up[c] # <<>>
  BY DEF HandleEvent
<1>2. Head(up[c]) \in UpMsg
  BY <1>1, TailAt DEF Shape, QueuesShape
<1>3. page[c] = "open" /\ c \in present
  BY <1>1 DEF Shape, PagesShape
<1> QED
  BY <1>1, <1>2, <1>3 DEF HandleEvent

LEMMA ShapeHandleEvent ==
  ASSUME Shape, NEW c \in Clients, HandleEvent(c)
  PROVE  Shape'
<1> DEFINE msg == Head(up[c])
<1>1. /\ up[c] # <<>> /\ msg \in UpMsg /\ page[c] = "open" /\ c \in present
      /\ up' = [up EXCEPT ![c] = Tail(up[c])]
      /\ UNCHANGED <<doc, page, live, stored, clicked, ready, drawn, remote, styles, scripts,
                     present, emitted>>
      /\ \/ msg.op = "selection_made" /\ HandleSelection(c, msg)
         \/ msg.op = "selection_cleared" /\ HandleSelectionCleared(c)
         \/ msg.op = "keydown" /\ AddHighlight(c)
  BY HandleEffect DEF browser
<1>2. /\ Ats' = Ats /\ UpMsg' = UpMsg /\ DownMsg' = DownMsg /\ PendingMsg' = PendingMsg
      /\ Highlight' = Highlight /\ Report' = Report /\ Selected' = Selected
  BY <1>1, SameSets
<1>3. up' \in [Clients -> Seq(UpMsg)]
  <2>1. up \in [Clients -> Seq(UpMsg)] /\ Tail(up[c]) \in Seq(UpMsg)
    BY <1>1, TailAt DEF Shape, QueuesShape
  <2> QED
    BY <1>1, <2>1
<1> HIDE DEF msg
<1>4. /\ down' \in [Clients -> Seq(DownMsg)]
      /\ adding' \in [Clients -> {"no", "persist", "broadcast"}]
      /\ selection' \in [Clients -> Selected \union {None}]
      /\ presence' \in [Clients -> Ats \union {None}]
      /\ highlights' \in Seq(Highlight)
      /\ \A d \in Clients : presence'[d] # None => presence[d] # None \/ d = c
  <2>1. CASE msg.op = "selection_made" /\ HandleSelection(c, msg)
    <3>1. /\ selection' = [selection EXCEPT ![c] = [at |-> msg.at, id |-> msg.id]]
          /\ presence' = [presence EXCEPT ![c] = msg.at]
          /\ down' = Send(down, Others(c), Show(c, msg.at))
          /\ UNCHANGED <<adding, highlights>>
      BY <2>1 DEF HandleSelection
    <3>2. msg.at \in Ats /\ msg.id \in 1 .. MaxEmits
      BY <1>1, <2>1, UpFields
    <3>3. Show(c, msg.at) \in DownMsg /\ [at |-> msg.at, id |-> msg.id] \in Selected
      BY <3>2, ScriptShapes DEF Selected
    <3>4. down' \in [Clients -> Seq(DownMsg)]
      BY <3>1, <3>3, SentDown
    <3> QED
      BY <3>1, <3>2, <3>3, <3>4 DEF Shape, ServerShape
  <2>2. CASE msg.op = "selection_cleared" /\ HandleSelectionCleared(c)
    <3>1. /\ selection' = [selection EXCEPT ![c] = None]
          /\ presence' = [presence EXCEPT ![c] = None]
          /\ down' = Send(down, Others(c), Hide(c))
          /\ UNCHANGED <<adding, highlights>>
      BY <2>2 DEF HandleSelectionCleared
    <3>2. Hide(c) \in DownMsg
      BY ScriptShapes
    <3>3. down' \in [Clients -> Seq(DownMsg)]
      BY <3>1, <3>2, SentDown
    <3> QED
      BY <3>1, <3>3 DEF Shape, ServerShape
  <2>3. CASE msg.op = "keydown" /\ AddHighlight(c)
    <3>1. UNCHANGED <<selection, presence, down>>
      BY <2>3 DEF AddHighlight
    <3>2. CASE ~MayAdd(c)
      <4>1. UNCHANGED <<adding, highlights>>
        BY <2>3, <3>2 DEF AddHighlight
      <4> QED
        BY <3>1, <4>1 DEF Shape, ServerShape, QueuesShape
    <3>3. CASE MayAdd(c)
      <4> DEFINE h == [at |-> selection[c].at, id |-> selection[c].id,
                       text |-> Sliced[doc][selection[c].at]]
      <4>1. adding' = [adding EXCEPT ![c] = "persist"] /\ highlights' = Append(highlights, h)
        BY <2>3, <3>3 DEF AddHighlight
      <4>2. selection[c] \in Selected
        BY <3>3 DEF MayAdd, Shape, ServerShape
      <4>3. h \in Highlight
        BY <4>2 DEF Selected, Highlight
      <4> HIDE DEF h
      <4>4. highlights' \in Seq(Highlight)
        BY <4>1, <4>3, AppendAt DEF Shape, ServerShape
      <4> QED
        BY <3>1, <4>1, <4>4 DEF Shape, ServerShape, QueuesShape
    <3> QED
      BY <3>2, <3>3
  <2> QED
    BY <1>1, <2>1, <2>2, <2>3
<1>5. PagesShape'
  BY <1>1, <1>4, TailAt DEF Shape, PagesShape, QueuesShape
<1> QED
  BY <1>1, <1>2, <1>3, <1>4, <1>5 DEF scripts, Shape, BrowserShape, RemoteShape, ServerShape, QueuesShape

(* A highlight is saved and pushed, first to its author, then to the rest. *)
LEMMA PersistedEffect ==
  ASSUME Shape, NEW c \in Clients, HighlightPersisted(c)
  PROVE  LET msg == [op |-> "apply", hl |-> HighlightData] IN
         /\ adding[c] = "persist" /\ adding' = [adding EXCEPT ![c] = "broadcast"]
         /\ down' = Send(down, {c} \intersect present, msg)
         /\ msg \in DownMsg
         /\ UNCHANGED <<doc, page, browser, up, selection, present, presence, highlights,
                        emitted, inputs>>
<1>1. HighlightData \subseteq Ats
  BY HighlightDataShape DEF Shape, ServerShape
<1> QED
  BY <1>1, ScriptShapes DEF HighlightPersisted

LEMMA ShapePersisted ==
  ASSUME Shape, NEW c \in Clients, HighlightPersisted(c)
  PROVE  Shape'
<1> DEFINE msg == [op |-> "apply", hl |-> HighlightData]
<1>1. /\ adding' = [adding EXCEPT ![c] = "broadcast"]
      /\ down' = Send(down, {c} \intersect present, msg)
      /\ msg \in DownMsg
      /\ UNCHANGED <<doc, page, live, stored, clicked, ready, drawn, remote, styles, scripts, up,
                     selection, present, presence, highlights, emitted>>
  BY PersistedEffect DEF browser
<1>2. /\ Ats' = Ats /\ UpMsg' = UpMsg /\ DownMsg' = DownMsg /\ PendingMsg' = PendingMsg
      /\ Highlight' = Highlight /\ Report' = Report /\ Selected' = Selected
  BY <1>1, SameSets
<1> HIDE DEF msg
<1>3. down' \in [Clients -> Seq(DownMsg)]
  BY <1>1, SentDown
<1>4. adding' \in [Clients -> {"no", "persist", "broadcast"}]
  BY <1>1 DEF Shape, ServerShape
<1> QED
  BY <1>1, <1>2, <1>3, <1>4 DEF scripts, Shape, PagesShape, BrowserShape, RemoteShape, ServerShape,
     QueuesShape

LEMMA BroadcastEffect ==
  ASSUME Shape, NEW c \in Clients, HighlightBroadcast(c)
  PROVE  LET msg == [op |-> "apply", hl |-> HighlightData]
             drop == [op |-> "removeAllRanges"]
         IN
         /\ adding[c] = "broadcast" /\ adding' = [adding EXCEPT ![c] = "no"]
         /\ selection' = [selection EXCEPT ![c] = None]
         /\ msg \in DownMsg /\ drop \in DownMsg
         /\ down' \in [Clients -> Seq(DownMsg)]
         /\ \A v \in Clients \ {c} :
              down'[v] = IF v \in present THEN Append(down[v], msg) ELSE down[v]
         /\ down'[c] = IF c \in present THEN Append(down[c], drop) ELSE down[c]
         /\ UNCHANGED <<doc, page, browser, up, present, presence, highlights, emitted, inputs>>
<1> DEFINE msg == [op |-> "apply", hl |-> HighlightData]
           drop == [op |-> "removeAllRanges"]
<1>1. HighlightData \subseteq Ats
  BY HighlightDataShape DEF Shape, ServerShape
<1>2. msg \in DownMsg /\ drop \in DownMsg
  BY <1>1, ScriptShapes
<1>3. PushToOthers(c) = Send(down, Others(c), msg)
  BY DEF PushToOthers
<1> HIDE DEF msg
<1>4. /\ PushToOthers(c) \in [Clients -> Seq(DownMsg)]
      /\ \A v \in Clients : PushToOthers(c)[v] =
           IF v \in Others(c) THEN Append(down[v], msg) ELSE down[v]
  BY <1>2, <1>3, SentDown
<1>5. down' = IF c \in present
              THEN [PushToOthers(c) EXCEPT ![c] = Append(PushToOthers(c)[c], drop)]
              ELSE PushToOthers(c)
  BY DEF HighlightBroadcast
<1> HIDE DEF drop
<1>6. Append(PushToOthers(c)[c], drop) = Append(down[c], drop)
      /\ Append(down[c], drop) \in Seq(DownMsg)
  BY <1>2, <1>4, AppendAt DEF Others, Shape, QueuesShape
<1>7. /\ down' \in [Clients -> Seq(DownMsg)]
      /\ \A v \in Clients \ {c} :
           down'[v] = IF v \in present THEN Append(down[v], msg) ELSE down[v]
      /\ down'[c] = IF c \in present THEN Append(down[c], drop) ELSE down[c]
  <2>1. CASE c \in present
    BY <1>4, <1>5, <1>6, <2>1 DEF Others
  <2>2. CASE c \notin present
    BY <1>4, <1>5, <2>2 DEF Others
  <2> QED
    BY <2>1, <2>2
<1> QED
  BY <1>2, <1>7 DEF HighlightBroadcast, msg, drop

LEMMA ShapeBroadcast ==
  ASSUME Shape, NEW c \in Clients, HighlightBroadcast(c)
  PROVE  Shape'
<1>1. /\ adding' = [adding EXCEPT ![c] = "no"]
      /\ selection' = [selection EXCEPT ![c] = None]
      /\ down' \in [Clients -> Seq(DownMsg)]
      /\ UNCHANGED <<doc, page, live, stored, clicked, ready, drawn, remote, styles, scripts, up,
                     present, presence, highlights, emitted>>
  BY BroadcastEffect DEF browser
<1>2. /\ Ats' = Ats /\ UpMsg' = UpMsg /\ DownMsg' = DownMsg /\ PendingMsg' = PendingMsg
      /\ Highlight' = Highlight /\ Report' = Report /\ Selected' = Selected
  BY <1>1, SameSets
<1>3. /\ adding' \in [Clients -> {"no", "persist", "broadcast"}]
      /\ selection' \in [Clients -> Selected \union {None}]
  BY <1>1 DEF Shape, ServerShape
<1> QED
  BY <1>1, <1>2, <1>3 DEF scripts, Shape, PagesShape, BrowserShape, RemoteShape, ServerShape,
     QueuesShape

LEMMA ShapeInit == Init => Shape
<1> SUFFICES ASSUME Init PROVE Shape
  OBVIOUS
<1>1. <<>> \in Seq(UpMsg) /\ <<>> \in Seq(DownMsg) /\ <<>> \in Seq(Report)
      /\ <<>> \in Seq(Highlight) /\ Len(<<>>) = 0
  OBVIOUS
<1>2. QueuesShape
  BY <1>1, SelectionAssumption DEF Init, QueuesShape
<1>3. PagesShape /\ BrowserShape /\ RemoteShape
  BY DEF Init, PagesShape, BrowserShape, RemoteShape
<1>4. ServerShape
  BY <1>1 DEF Init, ServerShape
<1> QED
  BY <1>2, <1>3, <1>4 DEF Init, Shape

LEMMA ShapeStep == Shape /\ [Next]_vars => Shape'
<1> SUFFICES ASSUME Shape, [Next]_vars PROVE Shape'
  OBVIOUS
<1>1. CASE UNCHANGED vars
  <2>1. UNCHANGED <<doc, page, live, stored, clicked, ready, drawn, remote, styles, scripts, up, down,
                    selection, adding, present, presence, highlights, emitted>>
    BY <1>1 DEF vars, browser, server
  <2>2. /\ Ats' = Ats /\ UpMsg' = UpMsg /\ DownMsg' = DownMsg /\ PendingMsg' = PendingMsg
        /\ Highlight' = Highlight /\ Report' = Report /\ Selected' = Selected
    BY <2>1, SameSets
  <2> QED
    BY <2>1, <2>2 DEF scripts, Shape, PagesShape, BrowserShape, RemoteShape, ServerShape,
       QueuesShape
<1>2. ASSUME NEW c \in Clients, User(c) \/ System(c) PROVE Shape'
  BY <1>2, ShapeUser, ShapeOpenPage, ShapeRenderPage, ShapeDeleteClient, ShapeRunScript,
     ShapeLoading, ShapeHandleEvent, ShapePersisted, ShapeBroadcast DEF System
<1> QED
  BY <1>1, <1>2 DEF Next

(***************************************************************************)
(* One highlight per report                                                *)
(***************************************************************************)

(* The reports that have become highlights. *)
Used == {highlights[i].id : i \in DOMAIN highlights}

(* A report on its way was made by its client, is there once, and is       *)
(* neither what the page has selected nor a highlight.                     *)
FreshReports(c) ==
  \A i \in Of(up[c], Made) :
    /\ up[c][i].id <= Len(emitted) /\ emitted[up[c][i].id].by = c
    /\ \A j \in Of(up[c], Made) : up[c][j].id = up[c][i].id => j = i
    /\ selection[c] # None => selection[c].id # up[c][i].id
    /\ up[c][i].id \notin Used

(* What the page has selected was reported by its client; if it is a       *)
(* highlight already, the page is still adding that highlight.             *)
KnownSelection(c) ==
  selection[c] # None =>
    /\ selection[c].id <= Len(emitted) /\ emitted[selection[c].id].by = c
    /\ selection[c].id \in Used => adding[c] # "no"

ReportedOnce ==
  /\ \A c \in Clients : FreshReports(c) /\ KnownSelection(c)
  /\ \A id \in Used : id <= Len(emitted)
  /\ OneHighlightPerSelection

LEMMA ReportedInit == Init => ReportedOnce
BY DEF Init, ReportedOnce, FreshReports, KnownSelection, Used, Made, Of,
       OneHighlightPerSelection

(* The ids of queued reports and of selections are numbers. *)
LEMMA IdsAreNumbers ==
  ASSUME Shape, NEW c \in Clients
  PROVE  /\ \A i \in Of(up[c], Made) : up[c][i].id \in Nat \ {0}
         /\ selection[c] # None => selection[c].id \in Nat \ {0}
         /\ Len(emitted) \in Nat
         /\ \A id \in Used : id \in Nat \ {0}
<1>1. \A i \in DOMAIN up[c] : up[c][i] \in UpMsg
  BY DEF Shape, QueuesShape
<1>2. \A i \in Of(up[c], Made) : up[c][i].id \in 1 .. MaxEmits
  BY <1>1, UpFields DEF Made, Of
<1>3. selection[c] # None => selection[c].id \in 1 .. MaxEmits
  BY DEF Shape, ServerShape, Selected
<1>4. \A i \in DOMAIN highlights : highlights[i] \in Highlight
  BY DEF Shape, ServerShape
<1>5. \A id \in Used : id \in 1 .. MaxEmits
  BY <1>4 DEF Used, Highlight
<1>6. Len(emitted) \in Nat
  BY DEF Shape, QueuesShape
<1> QED
  BY <1>2, <1>3, <1>5, <1>6, SelectionAssumption

(* Steps that bring no report and no highlight, and at most forget a       *)
(* selection or the end of an addition with it.                            *)
LEMMA ReportedQuiet ==
  ASSUME ReportedOnce, UNCHANGED <<emitted, highlights>>,
         \A c \in Clients :
           /\ \/ Of(up'[c], Made) = {}
              \/ /\ Of(up'[c], Made) = Of(up[c], Made)
                 /\ \A i \in Of(up[c], Made) : up'[c][i] = up[c][i]
           /\ selection'[c] = selection[c] \/ selection'[c] = None
           /\ selection'[c] # None /\ adding[c] # "no" => adding'[c] # "no"
  PROVE  ReportedOnce'
<1>1. Used' = Used
  BY DEF Used
<1>2. ASSUME NEW c \in Clients PROVE FreshReports(c)' /\ KnownSelection(c)'
  <2>1. FreshReports(c) /\ KnownSelection(c)
    BY DEF ReportedOnce
  <2>2. FreshReports(c)'
    BY <1>1, <2>1, SMTT(30) DEF FreshReports
  <2>3. KnownSelection(c)'
    BY <1>1, <2>1 DEF KnownSelection
  <2> QED
    BY <2>2, <2>3
<1> QED
  BY <1>1, <1>2 DEF ReportedOnce, OneHighlightPerSelection

(* A selection is reported under a number not used before. *)
LEMMA ReportedMouseUp ==
  ASSUME Shape, ReportedOnce, NEW c \in Clients, MouseUp(c),
         Reported[doc][RangeAt(c)] # None
  PROVE  ReportedOnce'
<1> DEFINE id == Len(emitted) + 1
           msg == [op |-> "selection_made", at |-> Reported[doc][RangeAt(c)], id |-> id]
           rep == [by |-> c, range |-> RangeAt(c)]
<1>1. /\ emitted' = Append(emitted, rep)
      /\ up' = [d \in Clients |-> IF d = c THEN Append(up[d], msg) ELSE up[d]]
      /\ UNCHANGED <<selection, adding, highlights>>
  BY DEF MouseUp, Send, server
<1>2. msg.op = "selection_made" /\ msg.id = id /\ rep.by = c
  OBVIOUS
<1>3. Len(emitted) \in Nat
  BY IdsAreNumbers
<1>4. msg \in UpMsg
  <2>1. RangeAt(c) \in Documents[doc].drags /\ Len(emitted) < MaxEmits
    BY DEF MouseUp, RangeAt, Shape, BrowserShape
  <2>2. Reported[doc][RangeAt(c)] \in Ats /\ id \in 1 .. MaxEmits
    BY <1>3, <2>1, AtsAreOffsets, SelectionAssumption DEF Shape
  <2> QED
    BY <2>2 DEF UpMsg
<1> HIDE DEF msg, rep
<1>5. /\ emitted \in Seq(Report) /\ up[c] \in Seq(UpMsg)
  BY DEF Shape, QueuesShape
<1>6. /\ Len(emitted') = id
      /\ \A i \in 1 .. Len(emitted) : emitted'[i] = emitted[i]
      /\ emitted'[id] = rep
  BY <1>1, <1>5
<1>7. /\ \A i \in Of(up'[c], Made) : \/ i \notin Of(up[c], Made) /\ up'[c][i] = msg
                                     \/ i \in Of(up[c], Made) /\ up'[c][i] = up[c][i]
      /\ \A i, j \in Of(up'[c], Made) :
           i \notin Of(up[c], Made) /\ j \notin Of(up[c], Made) => i = j
      /\ \A d \in Clients \ {c} : up'[d] = up[d]
  <2>1. up'[c] = Append(up[c], msg)
    BY <1>1
  <2>2. /\ DOMAIN up[c] = 1 .. Len(up[c]) /\ Len(up[c]) \in Nat
        /\ DOMAIN Append(up[c], msg) = 1 .. (Len(up[c]) + 1)
        /\ \A k \in 1 .. Len(up[c]) : Append(up[c], msg)[k] = up[c][k]
        /\ Append(up[c], msg)[Len(up[c]) + 1] = msg
    BY <1>4, <1>5, AppendAt
  <2>3. ASSUME NEW i \in Of(Append(up[c], msg), Made), i \notin Of(up[c], Made)
        PROVE  i = Len(up[c]) + 1 /\ Append(up[c], msg)[i] = msg
    BY <2>2, <2>3 DEF Of
  <2>4. \A i \in Of(up[c], Made) : Append(up[c], msg)[i] = up[c][i]
    BY <2>2 DEF Of
  <2>5. \A i \in Of(up'[c], Made) : \/ i \notin Of(up[c], Made) /\ up'[c][i] = msg
                                    \/ i \in Of(up[c], Made) /\ up'[c][i] = up[c][i]
    BY <2>1, <2>3, <2>4
  <2>6. \A d \in Clients \ {c} : up'[d] = up[d]
    BY <1>1
  <2>7. ASSUME NEW i \in Of(up'[c], Made), NEW j \in Of(up'[c], Made),
               i \notin Of(up[c], Made), j \notin Of(up[c], Made)
        PROVE  i = j
    <3>1. i = Len(up[c]) + 1
      BY <2>1, <2>3, <2>7
    <3>2. j = Len(up[c]) + 1
      BY <2>1, <2>3, <2>7
    <3> QED
      BY <3>1, <3>2
  <2> QED
    BY <2>5, <2>6, <2>7
<1>8. Used' = Used
  BY <1>1 DEF Used
<1> HIDE DEF id
<1>9. id = Len(emitted) + 1
  BY DEF id
<1>10. ASSUME NEW d \in Clients PROVE KnownSelection(d)'
  <2>1. KnownSelection(d) /\ (selection[d] # None => selection[d].id \in Nat \ {0})
    BY IdsAreNumbers DEF ReportedOnce
  <2> QED
    BY <1>1, <1>3, <1>6, <1>8, <1>9, <2>1 DEF KnownSelection
<1>11. ASSUME NEW d \in Clients, d # c PROVE FreshReports(d)'
  <2>1. FreshReports(d) /\ \A i \in Of(up[d], Made) : up[d][i].id \in Nat \ {0}
    BY IdsAreNumbers DEF ReportedOnce
  <2> QED
    BY <1>1, <1>3, <1>6, <1>7, <1>8, <1>9, <1>11, <2>1 DEF FreshReports
<1>12. FreshReports(c)'
  <2>1. FreshReports(c) /\ KnownSelection(c) /\ \A u \in Used : u <= Len(emitted)
    BY DEF ReportedOnce
  <2>2. /\ \A i \in Of(up[c], Made) : up[c][i].id \in Nat \ {0}
        /\ selection[c] # None => selection[c].id \in Nat \ {0}
        /\ \A u \in Used : u \in Nat \ {0}
    BY IdsAreNumbers
  <2>3. SUFFICES ASSUME NEW i \in Of(up'[c], Made)
        PROVE  /\ up'[c][i].id <= Len(emitted') /\ emitted'[up'[c][i].id].by = c
               /\ \A j \in Of(up'[c], Made) : up'[c][j].id = up'[c][i].id => j = i
               /\ selection'[c] # None => selection'[c].id # up'[c][i].id
               /\ up'[c][i].id \notin Used'
    BY DEF FreshReports
  <2>4. CASE i \notin Of(up[c], Made) /\ up'[c][i] = msg
    <3>1. up'[c][i].id = id
      BY <1>2, <2>4
    <3>2. ASSUME NEW j \in Of(up'[c], Made), up'[c][j].id = id PROVE j = i
      <4>1. j \notin Of(up[c], Made) \/ up'[c][j] # up[c][j]
        BY <1>3, <1>9, <2>1, <2>2, <3>2 DEF FreshReports
      <4> QED
        BY <1>7, <2>4, <4>1
    <3>3. selection[c] # None => selection[c].id # id
      BY <1>3, <1>9, <2>1, <2>2 DEF KnownSelection
    <3>4. id \notin Used
      BY <1>3, <1>9, <2>1, <2>2
    <3>5. id <= Len(emitted') /\ emitted'[id].by = c
      BY <1>2, <1>3, <1>6, <1>9
    <3> QED
      BY <1>1, <1>8, <3>1, <3>2, <3>3, <3>4, <3>5
  <2>5. CASE i \in Of(up[c], Made) /\ up'[c][i] = up[c][i]
    <3>1. up[c][i].id \in 1 .. Len(emitted)
      BY <1>3, <2>1, <2>2, <2>5 DEF FreshReports
    <3>2. ASSUME NEW j \in Of(up'[c], Made), up'[c][j].id = up[c][i].id PROVE j = i
      <4>1. up'[c][j] # msg
        BY <1>2, <1>3, <1>9, <3>1, <3>2
      <4>2. j \in Of(up[c], Made) /\ up'[c][j] = up[c][j]
        BY <1>7, <4>1
      <4> QED
        BY <2>1, <2>5, <3>2, <4>2 DEF FreshReports
    <3>3. up[c][i].id <= Len(emitted') /\ emitted'[up[c][i].id].by = c
      BY <1>3, <1>6, <1>9, <2>1, <2>5, <3>1 DEF FreshReports
    <3> QED
      BY <1>1, <1>8, <2>1, <2>5, <3>2, <3>3 DEF FreshReports
  <2> QED
    BY <1>7, <2>4, <2>5
<1>13. \A u \in Used' : u <= Len(emitted')
  <2>1. \A u \in Used : u <= Len(emitted) /\ u \in Nat
    BY IdsAreNumbers DEF ReportedOnce
  <2> QED
    BY <1>3, <1>6, <1>8, <1>9, <2>1
<1> QED
  BY <1>1, <1>10, <1>11, <1>12, <1>13 DEF ReportedOnce, OneHighlightPerSelection

(* An event is handled: a report becomes the selection, or a selection a   *)
(* highlight.                                                              *)
LEMMA ReportedHandleEvent ==
  ASSUME Shape, ReportedOnce, NEW c \in Clients, HandleEvent(c)
  PROVE  ReportedOnce'
<1> DEFINE msg == Head(up[c])
<1>1. /\ up[c] # <<>> /\ msg \in UpMsg
      /\ up' = [up EXCEPT ![c] = Tail(up[c])]
      /\ emitted' = emitted
      /\ \/ msg.op = "selection_made" /\ HandleSelection(c, msg)
         \/ msg.op = "selection_cleared" /\ HandleSelectionCleared(c)
         \/ msg.op = "keydown" /\ AddHighlight(c)
  BY HandleEffect
<1>2. up[c] \in Seq(UpMsg) /\ up \in [Clients -> Seq(UpMsg)]
  BY DEF Shape, QueuesShape
<1>3. /\ \A i \in Of(Tail(up[c]), Made) :
           i \in Nat \ {0} /\ i + 1 \in Of(up[c], Made) /\ Tail(up[c])[i] = up[c][i + 1]
      /\ 1 \in Of(up[c], Made) <=> msg.op \in Made
      /\ msg = up[c][1]
  <2>1. \A i \in Of(Tail(up[c]), Made) :
          i \in Nat \ {0} /\ i + 1 \in Of(up[c], Made) /\ Tail(up[c])[i] = up[c][i + 1]
    BY <1>1, <1>2, OfTail, ZenonT(40)
  <2>2. 1 \in Of(up[c], Made) <=> Head(up[c]).op \in Made
    BY <1>1, <1>2, OfTail
  <2>3. Head(up[c]) = up[c][1]
    BY <1>1, <1>2, TailAt
  <2> QED
    BY <2>1, <2>2, <2>3
<1>4. up'[c] = Tail(up[c]) /\ \A d \in Clients \ {c} : up'[d] = up[d]
  BY <1>1, <1>2
<1> HIDE DEF msg
<1>5. FreshReports(c) /\ KnownSelection(c)
  BY DEF ReportedOnce
<1>6. ASSUME NEW i \in Of(up'[c], Made)
      PROVE  /\ up'[c][i].id <= Len(emitted) /\ emitted[up'[c][i].id].by = c
             /\ \A j \in Of(up'[c], Made) : up'[c][j].id = up'[c][i].id => j = i
             /\ selection[c] # None => selection[c].id # up'[c][i].id
             /\ up'[c][i].id \notin Used
             /\ 1 \in Of(up[c], Made) => up[c][1].id # up'[c][i].id
  <2>1. i \in Nat \ {0} /\ i + 1 \in Of(up[c], Made) /\ up'[c][i] = up[c][i + 1] /\ i + 1 # 1
    <3>1. i \in Nat \ {0} /\ i + 1 \in Of(up[c], Made) /\ up'[c][i] = up[c][i + 1]
      BY <1>3, <1>4
    <3> QED
      BY <3>1
  <2>2. ASSUME NEW j \in Of(up'[c], Made), up'[c][j].id = up'[c][i].id PROVE j = i
    <3>1. j \in Nat \ {0} /\ j + 1 \in Of(up[c], Made) /\ up'[c][j] = up[c][j + 1]
      BY <1>3, <1>4
    <3>2. j + 1 = i + 1
      BY <1>5, <2>1, <2>2, <3>1 DEF FreshReports
    <3> QED
      BY <2>1, <3>1, <3>2
  <2>3. 1 \in Of(up[c], Made) => up[c][1].id # up[c][i + 1].id
    BY <1>5, <2>1 DEF FreshReports
  <2> QED
    BY <1>5, <2>1, <2>2, <2>3 DEF FreshReports
<1>7. CASE msg.op = "selection_made" /\ HandleSelection(c, msg)
  <2>1. /\ selection' = [selection EXCEPT ![c] = [at |-> msg.at, id |-> msg.id]]
        /\ UNCHANGED <<adding, highlights>>
    BY <1>7 DEF HandleSelection
  <2>2. selection'[c].id = msg.id /\ \A d \in Clients \ {c} : selection'[d] = selection[d]
    BY <2>1 DEF Shape, ServerShape
  <2>3. 1 \in Of(up[c], Made) /\ msg.id = up[c][1].id
    BY <1>3, <1>7 DEF Made
  <2>4. Used' = Used
    BY <2>1 DEF Used
  <2>5. FreshReports(c)'
    BY <1>1, <1>6, <2>2, <2>3, <2>4, ZenonT(60) DEF FreshReports
  <2>6. KnownSelection(c)'
    BY <1>1, <1>5, <2>2, <2>3, <2>4 DEF FreshReports, KnownSelection
  <2>7. ASSUME NEW d \in Clients, d # c PROVE FreshReports(d)' /\ KnownSelection(d)'
    <3>1. FreshReports(d) /\ KnownSelection(d)
      BY DEF ReportedOnce
    <3>2. up'[d] = up[d] /\ selection'[d] = selection[d]
      BY <1>4, <2>2, <2>7
    <3>3. FreshReports(d)'
      <4>1. Of(up'[d], Made) = Of(up[d], Made) /\ emitted' = emitted
        BY <1>1, <3>2
      <4>2. SUFFICES ASSUME NEW i \in Of(up'[d], Made)
            PROVE  /\ up'[d][i].id <= Len(emitted') /\ emitted'[up'[d][i].id].by = d
                   /\ \A j \in Of(up'[d], Made) : up'[d][j].id = up'[d][i].id => j = i
                   /\ selection'[d] # None => selection'[d].id # up'[d][i].id
                   /\ up'[d][i].id \notin Used'
        BY DEF FreshReports
      <4> QED
        BY <2>4, <3>1, <3>2, <4>1 DEF FreshReports
    <3>4. KnownSelection(d)'
      BY <1>1, <2>1, <2>4, <3>1, <3>2 DEF KnownSelection
    <3> QED
      BY <3>3, <3>4
  <2> QED
    BY <1>1, <2>1, <2>4, <2>5, <2>6, <2>7 DEF ReportedOnce, OneHighlightPerSelection
<1>8. CASE \/ msg.op = "selection_cleared" /\ HandleSelectionCleared(c)
           \/ msg.op = "keydown" /\ AddHighlight(c) /\ ~MayAdd(c)
  <2>1. /\ selection'[c] \in {selection[c], None}
        /\ \A d \in Clients \ {c} : selection'[d] = selection[d]
        /\ UNCHANGED <<adding, highlights>>
    BY <1>8 DEF HandleSelectionCleared, AddHighlight, Shape, ServerShape
  <2>2. Used' = Used
    BY <2>1 DEF Used
  <2>3. FreshReports(c)'
    BY <1>1, <1>6, <2>1, <2>2, ZenonT(40) DEF FreshReports
  <2>4. KnownSelection(c)'
    BY <1>1, <1>5, <2>1, <2>2 DEF KnownSelection
  <2>5. ASSUME NEW d \in Clients, d # c PROVE FreshReports(d)' /\ KnownSelection(d)'
    <3>1. FreshReports(d) /\ KnownSelection(d)
      BY DEF ReportedOnce
    <3>2. up'[d] = up[d] /\ selection'[d] = selection[d]
      BY <1>4, <2>1, <2>5
    <3>3. FreshReports(d)'
      <4>1. Of(up'[d], Made) = Of(up[d], Made) /\ emitted' = emitted
        BY <1>1, <3>2
      <4>2. SUFFICES ASSUME NEW i \in Of(up'[d], Made)
            PROVE  /\ up'[d][i].id <= Len(emitted') /\ emitted'[up'[d][i].id].by = d
                   /\ \A j \in Of(up'[d], Made) : up'[d][j].id = up'[d][i].id => j = i
                   /\ selection'[d] # None => selection'[d].id # up'[d][i].id
                   /\ up'[d][i].id \notin Used'
        BY DEF FreshReports
      <4> QED
        BY <2>2, <3>1, <3>2, <4>1 DEF FreshReports
    <3>4. KnownSelection(d)'
      BY <1>1, <2>1, <2>2, <3>1, <3>2 DEF KnownSelection
    <3> QED
      BY <3>3, <3>4
  <2> QED
    BY <1>1, <2>1, <2>2, <2>3, <2>4, <2>5 DEF ReportedOnce, OneHighlightPerSelection
<1>9. CASE msg.op = "keydown" /\ AddHighlight(c) /\ MayAdd(c)
  <2> DEFINE h == [at |-> selection[c].at, id |-> selection[c].id,
                   text |-> Sliced[doc][selection[c].at]]
             id == selection[c].id
  <2>1. /\ adding[c] = "no" /\ selection[c] # None
        /\ adding' = [adding EXCEPT ![c] = "persist"]
        /\ highlights' = Append(highlights, h)
        /\ selection' = selection
    BY <1>9 DEF AddHighlight, MayAdd
  <2>2. selection[c] \in Selected /\ h.id = id
    BY <2>1 DEF Shape, ServerShape
  <2>3. h \in Highlight
    BY <2>2 DEF Selected, Highlight
  <2>4. id \notin Used /\ id <= Len(emitted) /\ emitted[id].by = c
    BY <1>5, <2>1 DEF KnownSelection
  <2> HIDE DEF h, id
  <2>5. highlights \in Seq(Highlight)
    BY DEF Shape, ServerShape
  <2>6. /\ DOMAIN highlights = 1 .. Len(highlights) /\ Len(highlights) \in Nat
        /\ DOMAIN highlights' = 1 .. (Len(highlights) + 1)
        /\ \A i \in 1 .. Len(highlights) : highlights'[i] = highlights[i]
        /\ highlights'[Len(highlights) + 1] = h
    BY <2>1, <2>3, <2>5, AppendAt
  <2>7. Used' = Used \union {id}
    <3>1. \A u \in Used' : u \in Used \/ u = id
      BY <2>2, <2>6 DEF Used
    <3>2. id \in Used'
      BY <2>2, <2>6 DEF Used
    <3>3. \A u \in Used : u \in Used'
      BY <2>6 DEF Used
    <3> QED
      BY <3>1, <3>2, <3>3
  <2>8. OneHighlightPerSelection'
    <3>1. \A i \in 1 .. Len(highlights) : highlights[i].id # id
      BY <2>4, <2>6 DEF Used
    <3>2. \A i, j \in 1 .. Len(highlights) : highlights[i].id = highlights[j].id => i = j
      BY <2>6 DEF ReportedOnce, OneHighlightPerSelection
    <3> QED
      BY <2>2, <2>6, <3>1, <3>2 DEF OneHighlightPerSelection
  <2>9. FreshReports(c)'
    <3>1. \A i \in Of(up'[c], Made) : up'[c][i].id # id
      BY <1>6, <2>1 DEF id
    <3>2. SUFFICES ASSUME NEW i \in Of(up'[c], Made)
          PROVE  /\ up'[c][i].id <= Len(emitted') /\ emitted'[up'[c][i].id].by = c
                 /\ \A j \in Of(up'[c], Made) : up'[c][j].id = up'[c][i].id => j = i
                 /\ selection'[c] # None => selection'[c].id # up'[c][i].id
                 /\ up'[c][i].id \notin Used'
      BY DEF FreshReports
    <3>3. emitted' = emitted /\ up'[c][i].id # id /\ up'[c][i].id \notin Used
      BY <1>1, <1>6, <3>1
    <3>4. up'[c][i].id \notin Used'
      BY <2>7, <3>3
    <3> QED
      BY <1>6, <2>1, <3>3, <3>4
  <2>10. KnownSelection(c)'
    <3>1. adding'[c] = "persist"
      BY <2>1 DEF Shape, ServerShape
    <3> QED
      BY <1>1, <1>5, <2>1, <3>1 DEF KnownSelection
  <2>11. ASSUME NEW d \in Clients, d # c PROVE FreshReports(d)' /\ KnownSelection(d)'
    <3>1. FreshReports(d) /\ KnownSelection(d)
      BY DEF ReportedOnce
    <3>2. up'[d] = up[d] /\ selection'[d] = selection[d] /\ adding'[d] = adding[d]
      BY <1>4, <2>1, <2>11 DEF Shape, ServerShape
    <3>3. FreshReports(d)'
      <4>1. \A i \in Of(up[d], Made) : up[d][i].id # id
        BY <2>4, <2>11, <3>1 DEF FreshReports
      <4>2. Of(up'[d], Made) = Of(up[d], Made) /\ emitted' = emitted
        BY <1>1, <3>2
      <4>3. SUFFICES ASSUME NEW i \in Of(up'[d], Made)
            PROVE  /\ up'[d][i].id <= Len(emitted') /\ emitted'[up'[d][i].id].by = d
                   /\ \A j \in Of(up'[d], Made) : up'[d][j].id = up'[d][i].id => j = i
                   /\ selection'[d] # None => selection'[d].id # up'[d][i].id
                   /\ up'[d][i].id \notin Used'
        BY DEF FreshReports
      <4> QED
        BY <2>7, <3>1, <3>2, <4>1, <4>2 DEF FreshReports
    <3>4. KnownSelection(d)'
      <4>1. selection[d] # None => selection[d].id # id
        BY <2>4, <2>11, <3>1 DEF KnownSelection
      <4> QED
        BY <1>1, <2>7, <3>1, <3>2, <4>1 DEF KnownSelection
    <3> QED
      BY <3>3, <3>4
  <2>12. \A u \in Used' : u <= Len(emitted')
    BY <1>1, <2>4, <2>7 DEF ReportedOnce
  <2> QED
    BY <2>8, <2>9, <2>10, <2>11, <2>12 DEF ReportedOnce
<1> QED
  BY <1>1, <1>7, <1>8, <1>9

LEMMA ReportedStep == Shape /\ ReportedOnce /\ [Next]_vars => ReportedOnce'
<1> SUFFICES ASSUME Shape, ReportedOnce, [Next]_vars PROVE ReportedOnce'
  OBVIOUS
<1> DEFINE Same(c) == /\ Of(up'[c], Made) = Of(up[c], Made)
                      /\ \A i \in Of(up[c], Made) : up'[c][i] = up[c][i]
<1>1. CASE UNCHANGED <<up, selection, adding, emitted, highlights>>
  BY <1>1, ReportedQuiet
<1>2. CASE UNCHANGED vars
  BY <1>1, <1>2 DEF vars, server
<1>3. ASSUME NEW c \in Clients, User(c) PROVE ReportedOnce'
  <2>1. CASE (\E r \in Documents[doc].drags : SelectionChange(c, r)) \/ Collapse(c) \/ Click(c)
    BY <1>1, <2>1 DEF SelectionChange, Collapse, Click, server
  <2>2. CASE MouseUp(c)
    <3>1. CASE Reported[doc][RangeAt(c)] # None
      BY <2>2, <3>1, ReportedMouseUp
    <3>2. CASE Reported[doc][RangeAt(c)] = None
      BY <1>1, <2>2, <3>2 DEF MouseUp, server
    <3> QED
      BY <3>1, <3>2
  <2>3. CASE ClickSettles(c) \/ PressTag(c)
    <3>1. UNCHANGED <<selection, adding, emitted, highlights>>
      BY <2>3 DEF ClickSettles, PressTag, server
    <3>2. \/ up' = up
          \/ \E msg \in UpMsg : msg.op # "selection_made" /\ up' = Send(up, {c}, msg)
      <4>1. [op |-> "selection_cleared"] \in UpMsg /\ [op |-> "keydown"] \in UpMsg
        BY DEF UpMsg
      <4> QED
        BY <2>3, <4>1 DEF ClickSettles, PressTag
    <3>3. CASE up' = up
      BY <1>1, <3>1, <3>3
    <3>4. CASE \E msg \in UpMsg : msg.op # "selection_made" /\ up' = Send(up, {c}, msg)
      <4>1. PICK msg \in UpMsg : msg.op # "selection_made" /\ up' = Send(up, {c}, msg)
        BY <3>4
      <4>2. up \in [Clients -> Seq(UpMsg)]
        BY DEF Shape, QueuesShape
      <4>3. \A d \in Clients : up'[d] = IF d \in {c} THEN Append(up[d], msg) ELSE up[d]
        BY <4>1, <4>2, Sent
      <4>4. ASSUME NEW d \in Clients PROVE Same(d)
        <5>1. CASE d # c
          BY <4>3, <5>1
        <5>2. CASE d = c
          <6>1. msg.op \notin Made /\ up[d] \in Seq(UpMsg)
            BY <4>1, <4>2 DEF Made
          <6>2. up'[d] = Append(up[d], msg)
            BY <4>3, <5>2
          <6>3. Of(Append(up[d], msg), Made) = Of(up[d], Made)
            BY <6>1, OfAppendOther
          <6>4. \A i \in Of(up[d], Made) : Append(up[d], msg)[i] = up[d][i]
            BY <6>1, OfAppendOther
          <6> QED
            BY <6>2, <6>3, <6>4
        <5> QED
          BY <5>1, <5>2
      <4> QED
        BY <3>1, <4>4, ReportedQuiet
    <3> QED
      BY <3>2, <3>3, <3>4
  <2> QED
    BY <1>3, <2>1, <2>2, <2>3 DEF User
<1>4. ASSUME NEW c \in Clients, System(c) PROVE ReportedOnce'
  <2>1. CASE OpenPage(c) \/ RenderPage(c)
    BY <1>1, <2>1 DEF OpenPage, RenderPage, server
  <2>2. CASE RunScript(c) \/ LoadFunctions(c) \/ RunPending(c) \/ StopPolling(c)
    BY <1>1, <2>2, RunEffect, LoadEffect, PendingEffect, StopEffect DEF server
  <2>3. CASE DeleteClient(c)
    <3>1. /\ UNCHANGED <<selection, adding, emitted, highlights>>
          /\ up' = [up EXCEPT ![c] = <<>>]
      BY <2>3 DEF DeleteClient
    <3>2. ASSUME NEW d \in Clients PROVE Of(up'[d], Made) = {} \/ Same(d)
      BY <3>1 DEF Shape, QueuesShape, Made, Of
    <3> QED
      BY <3>1, <3>2, ReportedQuiet
  <2>4. CASE HandleEvent(c)
    BY <2>4, ReportedHandleEvent
  <2>5. CASE HighlightPersisted(c)
    <3>1. /\ UNCHANGED <<up, selection, emitted, highlights>>
          /\ adding' = [adding EXCEPT ![c] = "broadcast"]
      BY <2>5, PersistedEffect
    <3>2. \A d \in Clients : adding[d] # "no" => adding'[d] # "no"
      BY <3>1 DEF Shape, ServerShape
    <3> QED
      BY <3>1, <3>2, ReportedQuiet
  <2>6. CASE HighlightBroadcast(c)
    <3>1. /\ UNCHANGED <<up, emitted, highlights>>
          /\ adding' = [adding EXCEPT ![c] = "no"]
          /\ selection' = [selection EXCEPT ![c] = None]
      BY <2>6, BroadcastEffect
    <3>2. \A d \in Clients : /\ selection'[d] = selection[d] \/ selection'[d] = None
                             /\ selection'[d] # None /\ adding[d] # "no" => adding'[d] # "no"
      BY <3>1 DEF Shape, ServerShape
    <3> QED
      BY <3>1, <3>2, ReportedQuiet
  <2> QED
    BY <1>4, <2>1, <2>2, <2>3, <2>4, <2>5, <2>6 DEF System
<1> QED
  BY <1>2, <1>3, <1>4 DEF Next

(***************************************************************************)
(* The last word of a queue                                                *)
(***************************************************************************)

(* The latest message with one of the operations is one of msgs. *)
EndsWith(q, ops, msgs) == \A i : Latest(Of(q, ops), i) => q[i] \in msgs

(* The latest script about a client, after a page is set up, is one of msgs. *)
EndsSaying(q, o, msgs) == \A i : Latest(Words(q, o), i) => q[i] \in msgs

LEMMA EndsAppend ==
  ASSUME NEW M, NEW q \in Seq(M), NEW m \in M, NEW ops, NEW msgs, m.op \in ops, m \in msgs
  PROVE  EndsWith(Append(q, m), ops, msgs) /\ Of(Append(q, m), ops) # {}
<1>1. /\ DOMAIN q = 1 .. Len(q) /\ Len(q) \in Nat
      /\ DOMAIN Append(q, m) = 1 .. (Len(q) + 1)
      /\ Append(q, m)[Len(q) + 1] = m
  BY AppendAt
<1>2. Len(q) + 1 \in Of(Append(q, m), ops)
  BY <1>1 DEF Of
<1>3. ASSUME NEW i, Latest(Of(Append(q, m), ops), i) PROVE Append(q, m)[i] \in msgs
  <2>1. i \in 1 .. (Len(q) + 1) /\ Len(q) + 1 <= i
    BY <1>1, <1>2, <1>3 DEF Latest, Of
  <2>2. i = Len(q) + 1
    BY <1>1, <2>1
  <2> QED
    BY <1>1, <2>2
<1> QED
  BY <1>2, <1>3 DEF EndsWith

LEMMA EndsAppendOther ==
  ASSUME NEW M, NEW q \in Seq(M), NEW m \in M, NEW ops, NEW msgs, m.op \notin ops
  PROVE  /\ EndsWith(q, ops, msgs) => EndsWith(Append(q, m), ops, msgs)
         /\ Of(Append(q, m), ops) = Of(q, ops)
<1>1. /\ Of(Append(q, m), ops) = Of(q, ops)
      /\ \A i \in Of(q, ops) : Append(q, m)[i] = q[i]
  BY OfAppendOther
<1> QED
  BY <1>1 DEF EndsWith, Latest

LEMMA EndsTail ==
  ASSUME NEW M, NEW q \in Seq(M), q # << >>, NEW ops, NEW msgs
  PROVE  /\ EndsWith(q, ops, msgs) => EndsWith(Tail(q), ops, msgs)
         /\ Of(Tail(q), ops) = {} /\ Of(q, ops) # {} =>
              /\ Head(q).op \in ops
              /\ EndsWith(q, ops, msgs) => Head(q) \in msgs
         /\ Of(q, ops) = {} => Of(Tail(q), ops) = {} /\ Head(q).op \notin ops
         /\ Head(q).op \notin ops /\ Of(q, ops) # {} => Of(Tail(q), ops) # {}
<1>1. ASSUME EndsWith(q, ops, msgs), NEW i, Latest(Of(Tail(q), ops), i)
      PROVE  Tail(q)[i] \in msgs
  <2>1. Latest(Of(q, ops), i + 1) /\ Tail(q)[i] = q[i + 1]
    BY <1>1, OfTail DEF Latest
  <2> QED
    BY <1>1, <2>1 DEF EndsWith
<1>2. ASSUME Of(Tail(q), ops) = {}, Of(q, ops) # {}
      PROVE  Latest(Of(q, ops), 1)
  BY <1>2, OfTail
<1>3. Head(q) = q[1]
  BY TailAt
<1>4. 1 \in Of(q, ops) <=> Head(q).op \in ops
  BY OfTail
<1>5. \A i \in Of(Tail(q), ops) : i + 1 \in Of(q, ops)
  BY OfTail
<1>6. ASSUME Of(Tail(q), ops) = {}, Of(q, ops) # {}
      PROVE  /\ Head(q).op \in ops
             /\ EndsWith(q, ops, msgs) => Head(q) \in msgs
  <2>1. Latest(Of(q, ops), 1)
    BY <1>2, <1>6
  <2>2. 1 \in Of(q, ops)
    BY <2>1 DEF Latest
  <2>3. EndsWith(q, ops, msgs) => q[1] \in msgs
    BY <2>1 DEF EndsWith
  <2> QED
    BY <1>3, <1>4, <2>2, <2>3
<1>7. EndsWith(q, ops, msgs) => EndsWith(Tail(q), ops, msgs)
  BY <1>1 DEF EndsWith
<1> QED
  BY <1>4, <1>5, <1>6, <1>7

(* A page is set up: its script, and scripts of other operations after it. *)
LEMMA EndsSetUp ==
  ASSUME NEW M, NEW q \in Seq(M), NEW m \in M, NEW r \in Seq(M), NEW ops, NEW msgs,
         m.op \in ops, m \in msgs, \A i \in DOMAIN r : r[i].op \notin ops
  PROVE  /\ EndsWith(q \o <<m>> \o r, ops, msgs)
         /\ Of(q \o <<m>> \o r, ops) # {}
<1> DEFINE s == q \o <<m>> \o r
           n == Len(q) + 1
<1>1. /\ Len(q) \in Nat /\ Len(r) \in Nat /\ DOMAIN r = 1 .. Len(r)
      /\ DOMAIN s = 1 .. (n + Len(r))
      /\ s[n] = m
      /\ \A i \in 1 .. Len(r) : s[n + i] = r[i]
  OBVIOUS
<1> HIDE DEF s
<1>2. n \in Of(s, ops)
  BY <1>1 DEF Of
<1>3. ASSUME NEW i, Latest(Of(s, ops), i) PROVE s[i] \in msgs
  <2>1. i \in 1 .. (n + Len(r)) /\ s[i].op \in ops /\ n <= i
    BY <1>1, <1>2, <1>3 DEF Latest, Of
  <2>2. ASSUME i # n PROVE FALSE
    <3>1. i - n \in 1 .. Len(r) /\ n + (i - n) = i
      BY <1>1, <2>1, <2>2, SMTT(30)
    <3>2. s[i] = r[i - n]
      BY <1>1, <3>1
    <3> QED
      BY <1>1, <2>1, <3>1, <3>2
  <2> QED
    BY <1>1, <2>2
<1> QED
  BY <1>2, <1>3 DEF EndsWith, s

(* The same for the scripts about a client. *)
LEMMA SaysAppend ==
  ASSUME NEW M, NEW q \in Seq(M), NEW m \in M, NEW msgs, m.op \in {"show", "hide", "replay"},
         m \in msgs
  PROVE  EndsSaying(Append(q, m), m.of, msgs) /\ Words(Append(q, m), m.of) # {}
<1>1. \A i : Latest(Words(Append(q, m), m.of), i) => Append(q, m)[i] = m
  BY WordsAppend
<1>2. Words(Append(q, m), m.of) # {}
  BY WordsAppend
<1> QED
  BY <1>1, <1>2 DEF EndsSaying

LEMMA SaysAppendOther ==
  ASSUME NEW M, NEW q \in Seq(M), NEW m \in M, NEW o, NEW msgs, m.op # "init",
         m.op \in {"show", "hide", "replay"} => m.of # o
  PROVE  /\ EndsSaying(q, o, msgs) => EndsSaying(Append(q, m), o, msgs)
         /\ Words(Append(q, m), o) = Words(q, o)
<1>1. /\ Words(Append(q, m), o) = Words(q, o)
      /\ \A i \in Words(q, o) : Append(q, m)[i] = q[i]
  BY WordsAppendOther
<1> QED
  BY <1>1 DEF EndsSaying, Latest

LEMMA SaysTail ==
  ASSUME NEW M, NEW q \in Seq(M), q # << >>, NEW o, NEW msgs
  PROVE  /\ EndsSaying(q, o, msgs) => EndsSaying(Tail(q), o, msgs)
         /\ Words(Tail(q), o) = {} /\ Words(q, o) # {} =>
              /\ EndsSaying(q, o, msgs) => Head(q) \in msgs
              /\ Head(q).op \in {"show", "hide", "replay"} /\ Head(q).of = o
              /\ Of(q, Inits) = {}
         /\ Words(q, o) = {} /\ Of(q, Inits) = {} =>
              ~(Head(q).op \in {"show", "hide", "replay"} /\ Head(q).of = o)
<1>1. /\ Len(q) \in Nat \ {0} /\ DOMAIN q = 1 .. Len(q) /\ Head(q) = q[1]
  BY TailAt
<1>2. EndsSaying(q, o, msgs) => EndsSaying(Tail(q), o, msgs)
  <2> SUFFICES ASSUME EndsSaying(q, o, msgs), NEW i, Latest(Words(Tail(q), o), i)
               PROVE  Tail(q)[i] \in msgs
    BY DEF EndsSaying
  <2>1. Latest(Words(q, o), i + 1) /\ Tail(q)[i] = q[i + 1]
    BY WordsTail
  <2> QED
    BY <2>1 DEF EndsSaying
<1>3. ASSUME Words(Tail(q), o) = {}, Words(q, o) # {}
      PROVE  /\ EndsSaying(q, o, msgs) => Head(q) \in msgs
             /\ Head(q).op \in {"show", "hide", "replay"} /\ Head(q).of = o
             /\ Of(q, Inits) = {}
  <2>1. Latest(Words(q, o), 1)
    BY <1>3, WordsTail
  <2>2. 1 \in Words(q, o)
    BY <2>1 DEF Latest
  <2>3. \A j \in Of(q, Inits) : j < 1 /\ j \in 1 .. Len(q)
    BY <1>1, <2>2 DEF Words, Of
  <2>4. Of(q, Inits) = {}
    BY <1>1, <2>3
  <2>5. q[1].op \in {"show", "hide", "replay"} /\ q[1].of = o
    BY <2>2 DEF Words, Of
  <2> QED
    BY <1>1, <2>1, <2>4, <2>5 DEF EndsSaying
<1>4. ASSUME Words(q, o) = {}, Of(q, Inits) = {},
             Head(q).op \in {"show", "hide", "replay"}, Head(q).of = o
      PROVE  FALSE
  BY <1>1, <1>4 DEF Words, Of
<1> QED
  BY <1>2, <1>3, <1>4

-----------------------------------------------------------------------------
(***************************************************************************)
(* A page is set up once                                                   *)
(***************************************************************************)

(* The script that sets a page up is sent when it is rendered, before any  *)
(* replay; the page has its container once it has been begun, and shows    *)
(* nothing of the others before.                                           *)
Replays == {"replay"}

SetUp(v) ==
  /\ page[v] = "open" => (HasContainer(v) <=> Of(down[v], Inits) = {})
  /\ page[v] \in {"away", "loading"} => ~HasContainer(v) /\ Of(down[v], Inits) = {}
  /\ \A i, j \in Of(down[v], Inits) : i = j
  /\ ~HasContainer(v) =>
       /\ pending[v] = {} /\ \A o \in Clients : remote[v][o] = None
       /\ \A i \in Of(down[v], Replays) : \E j \in Of(down[v], Inits) : j < i
  /\ ready[v] => functions[v]

SetUpOnce == \A v \in Clients : SetUp(v)

LEMMA SetUpInit == Init => SetUpOnce
BY DEF Init, SetUpOnce, SetUp, HasContainer, InitPending, Of

(* Every step but those of a browser's own scripts, and its rendering,     *)
(* leaves its queue or appends a script that sets nothing up and replays   *)
(* nothing; a push carries the highlights of the moment.                   *)
Plain(m) == m.op \notin {"init", "replay"} /\ (m.op = "apply" => m.hl = HighlightData)

Grows(v) ==
  \/ down'[v] = down[v]
  \/ \E m \in DownMsg : Plain(m) /\ down'[v] = Append(down[v], m)

SameAt(v) ==
  /\ ready'[v] = ready[v] /\ drawn'[v] = drawn[v] /\ remote'[v] = remote[v]
  /\ pending'[v] = pending[v] /\ behind'[v] = behind[v] /\ missed'[v] = missed[v]
  /\ functions[v] => functions'[v] \/ page[v] = "away"

LEMMA SendGrows ==
  ASSUME Shape, NEW targets, NEW m \in DownMsg, Plain(m), down' = Send(down, targets, m),
         NEW v \in Clients
  PROVE  Grows(v)
<1>1. down'[v] = IF v \in targets THEN Append(down[v], m) ELSE down[v]
  BY SentDown
<1> QED
  BY <1>1 DEF Grows

OwnStep(c) == RunScript(c) \/ RunPending(c) \/ StopPolling(c) \/ RenderPage(c)

LEMMA QueueGrows ==
  ASSUME Shape, NEW c \in Clients, User(c) \/ System(c), ~OwnStep(c), NEW v \in Clients
  PROVE  Grows(v) /\ SameAt(v) /\ doc' = doc
<1>1. CASE User(c)
  BY <1>1 DEF User, SelectionChange, Collapse, MouseUp, Click, ClickSettles, PressTag,
     browser, scripts, server, Grows, SameAt
<1>2. CASE OpenPage(c)
  <2>1. [op |-> "apply", hl |-> HighlightData] \in DownMsg
    BY ScriptShapes, HighlightDataShape DEF Shape, ServerShape
  <2>2. Grows(v)
    BY <1>2, <2>1, SendGrows DEF OpenPage, Plain
  <2>3. functions'[v] = functions[v] \/ page[v] = "away"
    BY <1>2 DEF OpenPage, Shape, BrowserShape
  <2> QED
    BY <1>2, <2>2, <2>3 DEF OpenPage, SameAt
<1>3. CASE DeleteClient(c)
  <2>1. Hide(c) \in DownMsg /\ Plain(Hide(c))
    BY ScriptShapes DEF Hide, Plain
  <2> QED
    BY <1>3, <2>1, SendGrows DEF DeleteClient, browser, scripts, SameAt
<1>4. CASE HandleEvent(c)
  <2> DEFINE msg == Head(up[c])
  <2>1. /\ msg \in UpMsg
        /\ SameAt(v) /\ doc' = doc
        /\ \/ msg.op = "selection_made" /\ HandleSelection(c, msg)
           \/ msg.op = "selection_cleared" /\ HandleSelectionCleared(c)
           \/ msg.op = "keydown" /\ AddHighlight(c)
    BY <1>4, HandleEffect DEF browser, scripts, SameAt
  <2>2. msg.op = "selection_made" => msg.at \in Ats
    BY <2>1, UpFields
  <2> HIDE DEF msg
  <2>3. CASE msg.op = "selection_made" /\ HandleSelection(c, msg)
    <3>1. Show(c, msg.at) \in DownMsg /\ Plain(Show(c, msg.at))
      BY <2>2, <2>3, ScriptShapes DEF Show, Plain
    <3> QED
      BY <2>1, <2>3, <3>1, SendGrows DEF HandleSelection
  <2>4. CASE HandleSelectionCleared(c)
    <3>1. Hide(c) \in DownMsg /\ Plain(Hide(c))
      BY ScriptShapes DEF Hide, Plain
    <3> QED
      BY <2>1, <2>4, <3>1, SendGrows DEF HandleSelectionCleared
  <2>5. CASE AddHighlight(c)
    BY <2>1, <2>5 DEF AddHighlight, Grows
  <2> QED
    BY <2>1, <2>3, <2>4, <2>5
<1>5. CASE HighlightPersisted(c)
  <2> DEFINE msg == [op |-> "apply", hl |-> HighlightData]
  <2>1. msg \in DownMsg /\ Plain(msg) /\ down' = Send(down, {c} \intersect present, msg)
        /\ SameAt(v) /\ doc' = doc
    BY <1>5, PersistedEffect DEF browser, scripts, SameAt, Plain
  <2> HIDE DEF msg
  <2> QED
    BY <2>1, SendGrows
<1>6. CASE HighlightBroadcast(c)
  <2> DEFINE msg == [op |-> "apply", hl |-> HighlightData]
             drop == [op |-> "removeAllRanges"]
  <2>1. /\ msg \in DownMsg /\ drop \in DownMsg
        /\ v # c => down'[v] = IF v \in present THEN Append(down[v], msg) ELSE down[v]
        /\ down'[c] = IF c \in present THEN Append(down[c], drop) ELSE down[c]
        /\ SameAt(v) /\ doc' = doc
    BY <1>6, BroadcastEffect DEF browser, scripts, SameAt
  <2>2. Plain(msg) /\ Plain(drop)
    BY DEF Plain
  <2> HIDE DEF msg, drop
  <2> QED
    BY <2>1, <2>2 DEF Grows
<1>7. CASE LoadFunctions(c)
  <2>1. Local(c) /\ functions'[c] = TRUE /\ UNCHANGED <<doc, down, pending, ready, drawn, remote, behind, missed>>
    BY <1>7, LoadEffect
  <2> QED
    BY <2>1 DEF Grows, SameAt, Local
<1> QED
  BY <1>1, <1>2, <1>3, <1>4, <1>5, <1>6, <1>7 DEF System, OwnStep

(* Another browser's steps, and all but a browser's own.                   *)
LEMMA Untouched ==
  ASSUME Shape, NEW c \in Clients, User(c) \/ System(c), NEW v \in Clients,
         v = c => ~OwnStep(c)
  PROVE  Grows(v) /\ SameAt(v) /\ doc' = doc
<1>1. CASE ~OwnStep(c)
  BY <1>1, QueueGrows
<1>2. CASE OwnStep(c)
  <2>1. v # c
    BY <1>2
  <2>2. CASE RenderPage(c)
    <3>1. /\ down'[v] = down[v] /\ doc' = doc
          /\ UNCHANGED <<functions, pending, ready, drawn, remote, behind, missed>>
      BY <2>1, <2>2 DEF RenderPage, browser, scripts, Shape, QueuesShape
    <3> QED
      BY <3>1 DEF Grows, SameAt
  <2>3. CASE RunScript(c)
    <3>1. /\ down' = [down EXCEPT ![c] = Tail(down[c])] /\ doc' = doc
          /\ RunChanges(c, Head(down[c]))
      BY <2>3, RunEffect
    <3>2. down'[v] = down[v]
      BY <2>1, <3>1 DEF Shape, QueuesShape
    <3>3. Local(c) /\ remote'[v] = remote[v]
      BY <2>1, <3>1 DEF RunChanges, Follow, Keep
    <3> QED
      BY <2>1, <3>1, <3>2, <3>3 DEF Local, Grows, SameAt
  <2>4. CASE RunPending(c)
    <3>1. /\ down' = down /\ doc' = doc /\ \E msg : PendingChanges(c, msg)
      BY <2>4, PendingEffect
    <3>2. Local(c) /\ remote'[v] = remote[v]
      BY <2>1, <3>1 DEF PendingChanges, Follow, Keep
    <3> QED
      BY <2>1, <3>1, <3>2 DEF Local, Grows, SameAt
  <2>5. CASE StopPolling(c)
    <3>1. /\ down' = down /\ doc' = doc /\ \E msg : StopChanges(c, msg)
      BY <2>5, StopEffect
    <3>2. Local(c) /\ remote'[v] = remote[v]
      BY <2>1, <3>1 DEF StopChanges, Keep
    <3> QED
      BY <2>1, <3>1, <3>2 DEF Local, Grows, SameAt
  <2> QED
    BY <1>2, <2>2, <2>3, <2>4, <2>5 DEF OwnStep
<1> QED
  BY <1>1, <1>2

LEMMA GrowsInits ==
  ASSUME Shape, NEW v \in Clients, Grows(v)
  PROVE  Of(down'[v], Inits) = Of(down[v], Inits)
<1>1. CASE down'[v] = down[v]
  BY <1>1
<1>2. CASE \E m \in DownMsg : Plain(m) /\ down'[v] = Append(down[v], m)
  <2>1. PICK m \in DownMsg : Plain(m) /\ down'[v] = Append(down[v], m)
    BY <1>2
  <2>2. m.op \notin Inits
    BY <2>1 DEF Plain, Inits
  <2>3. down[v] \in Seq(DownMsg)
    BY DEF Shape, QueuesShape
  <2>4. Of(Append(down[v], m), Inits) = Of(down[v], Inits)
    BY <2>2, <2>3, OfAppendOther
  <2> QED
    BY <2>1, <2>4
<1> QED
  BY <1>1, <1>2 DEF Grows

(* Removals that are on their way stay there. *)
LEMMA GrowsRemovals ==
  ASSUME Shape, NEW v \in Clients, Grows(v), Of(down[v], Removals) # {}
  PROVE  Of(down'[v], Removals) # {}
<1>1. CASE down'[v] = down[v]
  BY <1>1
<1>2. CASE \E m \in DownMsg : Plain(m) /\ down'[v] = Append(down[v], m)
  <2>1. PICK m \in DownMsg : down'[v] = Append(down[v], m)
    BY <1>2
  <2>2. down[v] \in Seq(DownMsg)
    BY DEF Shape, QueuesShape
  <2>3. /\ DOMAIN down[v] = 1 .. Len(down[v]) /\ Len(down[v]) \in Nat
        /\ DOMAIN Append(down[v], m) = 1 .. (Len(down[v]) + 1)
        /\ \A i \in 1 .. Len(down[v]) : Append(down[v], m)[i] = down[v][i]
    BY <2>2, AppendAt
  <2>4. \A i \in Of(down[v], Removals) : i \in Of(Append(down[v], m), Removals)
    BY <2>3 DEF Of
  <2> QED
    BY <2>1, <2>4
<1> QED
  BY <1>1, <1>2 DEF Grows

LEMMA GrowsReplays ==
  ASSUME Shape, NEW v \in Clients, Grows(v)
  PROVE  Of(down'[v], Replays) = Of(down[v], Replays)
<1>1. CASE down'[v] = down[v]
  BY <1>1
<1>2. CASE \E m \in DownMsg : Plain(m) /\ down'[v] = Append(down[v], m)
  <2>1. PICK m \in DownMsg : Plain(m) /\ down'[v] = Append(down[v], m)
    BY <1>2
  <2>2. m.op \notin Replays /\ down[v] \in Seq(DownMsg)
    BY <2>1 DEF Plain, Replays, Shape, QueuesShape
  <2>3. Of(Append(down[v], m), Replays) = Of(down[v], Replays)
    BY <2>2, OfAppendOther
  <2> QED
    BY <2>1, <2>3
<1> QED
  BY <1>1, <1>2 DEF Grows

(* What a page's own container depends on. *)
LEMMA SameContainer ==
  ASSUME NEW v, ready'[v] = ready[v], pending'[v] = pending[v]
  PROVE  /\ HasContainer(v)' = HasContainer(v) /\ InitPending(v)' = InitPending(v)
         /\ \A o : Polling(v, o)' = Polling(v, o)
BY DEF HasContainer, InitPending, Polling

(* The page is rendered.                                                   *)
LEMMA SetUpRender ==
  ASSUME Shape, SetUpOnce, NEW v \in Clients, RenderPage(v)
  PROVE  SetUp(v)'
<1> DEFINE msg == [op |-> "init", hl |-> HighlightData]
<1>1. /\ page[v] = "loading" /\ page'[v] = "open"
      /\ down'[v] = down[v] \o <<msg>> \o Replay(v)
      /\ UNCHANGED <<ready, remote, pending, functions>>
  BY DEF RenderPage, browser, scripts, Shape, PagesShape, QueuesShape
<1>2. SetUp(v) /\ ~HasContainer(v) /\ Of(down[v], Inits) = {} /\ down[v] \in Seq(DownMsg)
  BY <1>1 DEF SetUpOnce, SetUp, Shape, QueuesShape
<1>3. msg \in DownMsg /\ msg.op = "init"
  BY ScriptShapes, HighlightDataShape DEF Shape, ServerShape
<1>4. Replay(v) \in Seq(DownMsg)
  BY ReplayTells
<1>5. \A i \in DOMAIN Replay(v) : Replay(v)[i].op = "replay"
  BY ReplayTells DEF ShowAgain
<1> HIDE DEF msg
<1> DEFINE q == down[v]
           r == Replay(v)
<1>6. /\ q \in Seq(DownMsg) /\ r \in Seq(DownMsg) /\ Of(q, Inits) = {}
      /\ \A i \in DOMAIN r : r[i].op = "replay"
      /\ Of(q, Replays) = {}
  BY <1>2, <1>4, <1>5 DEF SetUp
<1> HIDE DEF q, r
<1> DEFINE s == q \o <<msg>> \o r
           n == Len(q) + 1
<1>7. /\ Len(q) \in Nat /\ Len(r) \in Nat /\ DOMAIN r = 1 .. Len(r)
      /\ DOMAIN q = 1 .. Len(q)
      /\ DOMAIN s = 1 .. (n + Len(r))
      /\ s[n] = msg
      /\ \A i \in 1 .. Len(q) : s[i] = q[i]
      /\ \A i \in 1 .. Len(r) : s[n + i] = r[i]
  BY <1>3, <1>6
<1> HIDE DEF s
<1>8. n \in Of(s, Inits) /\ n \in Nat
  BY <1>3, <1>7 DEF Of, Inits
<1>9. ASSUME NEW i \in Of(s, Inits) PROVE i = n
  <2>1. i \in 1 .. (n + Len(r)) /\ s[i].op = "init"
    BY <1>7 DEF Of, Inits
  <2>2. ~(i \in 1 .. Len(q))
    BY <1>6, <1>7, <2>1 DEF Of, Inits
  <2>3. ASSUME i > n PROVE FALSE
    <3>1. i - n \in 1 .. Len(r) /\ n + (i - n) = i
      BY <1>7, <2>1, <2>3
    <3>2. s[i] = r[i - n]
      BY <1>7, <3>1
    <3>3. r[i - n].op = "replay"
      BY <1>6, <1>7, <3>1
    <3> QED
      BY <2>1, <3>2, <3>3
  <2> QED
    BY <1>7, <2>1, <2>2, <2>3
<1>10. ASSUME NEW i \in Of(s, Replays) PROVE n < i
  <2>1. i \in 1 .. (n + Len(r)) /\ s[i].op = "replay"
    BY <1>7 DEF Of, Replays
  <2>2. ~(i \in 1 .. Len(q))
    BY <1>6, <1>7, <2>1 DEF Of, Replays
  <2>3. i # n
    BY <1>3, <1>7, <2>1
  <2> QED
    BY <1>7, <2>1, <2>2, <2>3
<1>11. /\ Of(down'[v], Inits) = {n}
       /\ \A i \in Of(down'[v], Replays) : n < i
  BY <1>1, <1>8, <1>9, <1>10 DEF q, r, s
<1>12. /\ page'[v] = "open" /\ ~HasContainer(v)' /\ pending'[v] = {}
       /\ \A o \in Clients : remote'[v][o] = None
       /\ ready'[v] => functions'[v]
  BY <1>1, <1>2, SameContainer DEF SetUp
<1>13. \A i \in Of(down'[v], Replays) : \E j \in Of(down'[v], Inits) : j < i
  BY <1>11
<1> QED
  BY <1>11, <1>12, <1>13 DEF SetUp, Inits, Replays

(* A script runs.                                                          *)
LEMMA SetUpScript ==
  ASSUME Shape, SetUpOnce, NEW v \in Clients, RunScript(v)
  PROVE  SetUp(v)'
<1> DEFINE q == down[v]
           msg == Head(q)
<1>1. /\ q # <<>> /\ page'[v] = page[v] /\ page[v] \in {"loading", "open"} /\ msg \in DownMsg
      /\ down' = [down EXCEPT ![v] = Tail(q)]
      /\ RunChanges(v, msg)
  BY RunEffect
<1>2. /\ q \in Seq(DownMsg) /\ down'[v] = Tail(q)
      /\ ready[v] \in BOOLEAN /\ functions[v] \in BOOLEAN /\ DOMAIN remote[v] = Clients
  BY <1>1 DEF Shape, QueuesShape, BrowserShape, RemoteShape
<1>3. SetUp(v)
  BY DEF SetUpOnce
<1>4. /\ page[v] = "open" => (HasContainer(v) <=> Of(q, Inits) = {})
      /\ page[v] = "loading" => ~HasContainer(v) /\ Of(q, Inits) = {}
      /\ \A i, j \in Of(q, Inits) : i = j
      /\ ~HasContainer(v) =>
           /\ pending[v] = {} /\ \A o \in Clients : remote[v][o] = None
           /\ \A i \in Of(q, Replays) : \E j \in Of(q, Inits) : j < i
      /\ ready[v] => functions[v]
  BY <1>3 DEF SetUp
<1> HIDE DEF q
<1>5. /\ \A i \in Of(Tail(q), Inits) : i \in Nat \ {0} /\ i + 1 \in Of(q, Inits)
      /\ \A i \in Of(q, Inits) : i = 1 \/ i - 1 \in Of(Tail(q), Inits)
      /\ \A i \in Of(q, Inits) : i \in Nat \ {0}
      /\ 1 \in Of(q, Inits) <=> msg.op = "init"
  <2>1. 1 \in Of(q, Inits) <=> Head(q).op \in Inits
    BY <1>1, <1>2, OfTail
  <2>2. \A i \in Of(Tail(q), Inits) : i \in Nat \ {0} /\ i + 1 \in Of(q, Inits)
    BY <1>1, <1>2, OfTail
  <2>3. /\ \A i \in Of(q, Inits) : i = 1 \/ i - 1 \in Of(Tail(q), Inits)
        /\ \A i \in Of(q, Inits) : i \in Nat \ {0}
    BY <1>1, <1>2, OfTail
  <2> QED
    BY <2>1, <2>2, <2>3 DEF Inits
<1>6. /\ \A i \in Of(Tail(q), Replays) : i \in Nat \ {0} /\ i + 1 \in Of(q, Replays)
      /\ 1 \in Of(q, Replays) <=> msg.op = "replay"
  <2>1. 1 \in Of(q, Replays) <=> Head(q).op \in Replays
    BY <1>1, <1>2, OfTail
  <2>2. \A i \in Of(Tail(q), Replays) : i \in Nat \ {0} /\ i + 1 \in Of(q, Replays)
    BY <1>1, <1>2, OfTail
  <2> QED
    BY <2>1, <2>2 DEF Replays
<1>7. \A i, j \in Of(Tail(q), Inits) : i = j
  <2> SUFFICES ASSUME NEW i \in Of(Tail(q), Inits), NEW j \in Of(Tail(q), Inits)
               PROVE  i = j
    OBVIOUS
  <2>1. i \in Nat /\ j \in Nat /\ i + 1 = j + 1
    BY <1>4, <1>5
  <2> QED
    BY <2>1
<1>8. msg.op = "init" => Of(Tail(q), Inits) = {}
  <2> SUFFICES ASSUME msg.op = "init", NEW i \in Of(Tail(q), Inits) PROVE FALSE
    OBVIOUS
  <2>1. i \in Nat \ {0} /\ i + 1 = 1
    BY <1>4, <1>5
  <2> QED
    BY <2>1
<1>9. msg.op # "init" => (Of(Tail(q), Inits) = {} <=> Of(q, Inits) = {})
  BY <1>5
<1>10. ~HasContainer(v) => msg.op # "replay"
  <2> SUFFICES ASSUME ~HasContainer(v), msg.op = "replay" PROVE FALSE
    OBVIOUS
  <2>1. PICK j \in Of(q, Inits) : j < 1
    BY <1>4, <1>6
  <2> QED
    BY <1>5, <2>1
<1> HIDE DEF msg
<1>11. /\ ready'[v] = (ready[v] \/ (msg.op = "init" /\ functions[v]))
       /\ pending'[v] = IF Undefined(msg, v) THEN pending[v] \union {msg} ELSE pending[v]
       /\ functions'[v] = functions[v]
  BY <1>1 DEF RunChanges
<1>12. HasContainer(v)' <=> HasContainer(v) \/ msg.op = "init"
  <2>1. CASE msg.op = "init"
    <3>1. CASE functions[v]
      BY <1>11, <2>1, <3>1 DEF HasContainer
    <3>2. CASE ~functions[v]
      <4>1. msg \in pending'[v]
        BY <1>11, <2>1, <3>2 DEF Undefined
      <4> QED
        BY <2>1, <4>1 DEF HasContainer, InitPending
    <3> QED
      BY <3>1, <3>2
  <2>2. CASE msg.op # "init"
    <3>1. ready'[v] = ready[v]
      BY <1>2, <1>11, <2>2
    <3>2. InitPending(v)' <=> InitPending(v)
      BY <1>11, <2>2 DEF InitPending
    <3> QED
      BY <2>2, <3>1, <3>2 DEF HasContainer
  <2> QED
    BY <2>1, <2>2
<1>13. page'[v] = "open" => (HasContainer(v)' <=> Of(down'[v], Inits) = {})
  BY <1>1, <1>2, <1>4, <1>8, <1>9, <1>12
<1>14. page'[v] \in {"away", "loading"} => ~HasContainer(v)' /\ Of(down'[v], Inits) = {}
  BY <1>1, <1>2, <1>4, <1>5, <1>8, <1>9, <1>12
<1>15. ASSUME ~HasContainer(v)'
       PROVE  /\ pending'[v] = {} /\ \A o \in Clients : remote'[v][o] = None
              /\ \A i \in Of(Tail(q), Replays) : \E j \in Of(Tail(q), Inits) : j < i
  <2>1. ~HasContainer(v) /\ msg.op \notin {"init", "replay"}
    BY <1>10, <1>12, <1>15
  <2>2. pending'[v] = {}
    BY <1>4, <1>11, <2>1 DEF Undefined
  <2>3. remote'[v] = remote[v] \/ \E o : remote'[v] = [remote[v] EXCEPT ![o] = None]
    BY <1>1, <2>1 DEF RunChanges, Keep, Follow
  <2>4. \A o \in Clients : remote'[v][o] = None
    BY <1>2, <1>4, <2>1, <2>3
  <2>5. ASSUME NEW i \in Of(Tail(q), Replays) PROVE \E j \in Of(Tail(q), Inits) : j < i
    <3>1. i \in Nat \ {0} /\ i + 1 \in Of(q, Replays)
      BY <1>6
    <3>2. PICK j \in Of(q, Inits) : j < i + 1
      BY <1>4, <2>1, <3>1
    <3>3. j # 1 /\ j \in Nat \ {0}
      BY <1>5, <2>1
    <3>4. j - 1 \in Of(Tail(q), Inits) /\ j - 1 < i
      BY <1>5, <3>1, <3>2, <3>3
    <3> QED
      BY <3>4
  <2> QED
    BY <2>2, <2>4, <2>5
<1>16. ready'[v] => functions'[v]
  BY <1>4, <1>11
<1> QED
  BY <1>2, <1>7, <1>13, <1>14, <1>15, <1>16 DEF SetUp, Inits, Replays

(* A script that has waited runs, or is given up.                          *)
LEMMA SetUpPending ==
  ASSUME Shape, SetUpOnce, NEW v \in Clients, RunPending(v) \/ StopPolling(v)
  PROVE  SetUp(v)'
<1>1. /\ page[v] = "open" /\ page' = page /\ down' = down
      /\ functions'[v] = functions[v] /\ (RunPending(v) => functions[v])
      /\ \E msg \in pending[v] : PendingChanges(v, msg) \/ StopChanges(v, msg)
  BY PendingEffect, StopEffect DEF PendingChanges, StopChanges
<1>2. PICK msg \in pending[v] : PendingChanges(v, msg) \/ StopChanges(v, msg)
  BY <1>1
<1>3. SetUp(v) /\ HasContainer(v)
  BY <1>2 DEF SetUpOnce, SetUp
<1>4. HasContainer(v)' /\ (ready'[v] => functions'[v])
  <2>1. CASE msg.op = "init"
    <3>1. ready'[v] = TRUE /\ functions[v]
      BY <1>2, <2>1, PendingEffect, StopEffect DEF PendingChanges, StopChanges
    <3> QED
      BY <1>1, <3>1 DEF HasContainer
  <2>2. CASE msg.op # "init"
    <3>1. ready'[v] = ready[v] /\ pending'[v] = pending[v] \ {msg}
      BY <1>2, <2>2 DEF PendingChanges, StopChanges
    <3> QED
      BY <1>1, <1>3, <2>2, <3>1 DEF HasContainer, InitPending, SetUp
  <2> QED
    BY <2>1, <2>2
<1> QED
  BY <1>1, <1>3, <1>4 DEF SetUp

LEMMA SetUpStep ==
  ASSUME Shape, SetUpOnce, NEW c \in Clients, User(c) \/ System(c)
  PROVE  SetUpOnce'
<1> SUFFICES ASSUME NEW v \in Clients PROVE SetUp(v)'
  BY DEF SetUpOnce
<1>1. CASE v = c /\ OwnStep(c)
  BY <1>1, SetUpRender, SetUpScript, SetUpPending DEF OwnStep
<1>2. CASE ~(v = c /\ OwnStep(c))
  <2>1. Grows(v) /\ SameAt(v)
    BY <1>2, Untouched
  <2>2. Of(down'[v], Inits) = Of(down[v], Inits) /\ Of(down'[v], Replays) = Of(down[v], Replays)
    BY <2>1, GrowsInits, GrowsReplays
  <2>3. HasContainer(v)' = HasContainer(v)
    BY <2>1, SameContainer DEF SameAt
  <2>4. \/ page'[v] = page[v] \/ page'[v] = "gone"
        \/ page[v] = "away" /\ page'[v] = "loading"
    <3>1. CASE page' = page
      BY <3>1
    <3>2. CASE OpenPage(c) \/ RenderPage(c) \/ DeleteClient(c)
      BY <1>2, <3>2 DEF OwnStep, OpenPage, RenderPage, DeleteClient, Shape, PagesShape
    <3>3. CASE User(c)
      BY <3>1, <3>3 DEF User, SelectionChange, Collapse, MouseUp, Click, ClickSettles, PressTag
    <3>4. CASE RunScript(c) \/ HandleEvent(c) \/ HighlightPersisted(c) \/ HighlightBroadcast(c)
      BY <3>1, <3>4 DEF RunScript, HandleEvent, HighlightPersisted, HighlightBroadcast
    <3>5. CASE LoadFunctions(c) \/ RunPending(c) \/ StopPolling(c)
      BY <3>1, <3>5 DEF LoadFunctions, RunPending, StopPolling
    <3> QED
      BY <3>2, <3>3, <3>4, <3>5 DEF System
  <2>5. ready'[v] => functions'[v]
    <3>1. page[v] = "away" => ~ready[v]
      BY DEF SetUpOnce, SetUp, HasContainer
    <3> QED
      BY <2>1, <3>1 DEF SetUpOnce, SetUp, SameAt
  <2> QED
    BY <2>1, <2>2, <2>3, <2>4, <2>5 DEF SetUpOnce, SetUp, SameAt
<1> QED
  BY <1>1, <1>2

-----------------------------------------------------------------------------
(***************************************************************************)
(* The highlights reach every browser                                      *)
(***************************************************************************)

(* A highlight is being added, and its push to this browser is to come.    *)
Owed(v) ==
  \E c \in Clients : adding[c] = "persist" \/ (adding[c] = "broadcast" /\ c # v)

(* The scripts that draw the highlights of the moment. *)
Drawing == [op : Draws, hl : {HighlightData}]

(* Where no init is pending the browser draws all highlights; a pending    *)
(* init is going to.                                                       *)
Draft(v) ==
  IF InitPending(v) THEN \A msg \in pending[v] : msg.op = "init" => msg.hl = HighlightData
  ELSE drawn[v] = DrawnOf(HighlightData)

(* The last drawing script on its way carries all highlights, and if there *)
(* is none the browser draws them, or the last has come too early.         *)
Drawn(v) ==
  /\ EndsWith(down[v], Draws, Drawing)
  /\ Of(down[v], Draws) = {} => behind[v] \/ Draft(v)

DrawingReaches == \A v \in Clients : page[v] = "open" => Owed(v) \/ Drawn(v)

LEMMA DrawingInit == Init => DrawingReaches
BY DEF Init, DrawingReaches

(* What is drawn, or going to be, belongs to highlights of the document.   *)
Former(v) ==
  /\ drawn[v] \subseteq DrawnOf(HighlightData)
  /\ \A i \in Of(down[v], Draws) : down[v][i].hl \subseteq HighlightData
  /\ \A msg \in pending[v] : msg.op = "init" => msg.hl \subseteq HighlightData

NothingStrange == \A v \in Clients : Former(v)

LEMMA FormerInit == Init => NothingStrange
BY DEF Init, NothingStrange, Former, Of

(* Highlights are never taken away. *)
LEMMA HighlightsStay ==
  ASSUME Shape, NEW c \in Clients, User(c) \/ System(c)
  PROVE  /\ HighlightData \subseteq HighlightData'
         /\ HandleEvent(c) \/ UNCHANGED highlights
<1>1. CASE ~HandleEvent(c)
  <2>1. UNCHANGED highlights
    <3>1. CASE User(c)
      BY <3>1 DEF User, SelectionChange, Collapse, MouseUp, Click, ClickSettles, PressTag, server
    <3>2. CASE OpenPage(c) \/ RenderPage(c) \/ DeleteClient(c)
      BY <3>2 DEF OpenPage, RenderPage, DeleteClient, server
    <3>3. CASE RunScript(c) \/ LoadFunctions(c) \/ RunPending(c) \/ StopPolling(c)
      BY <3>3, RunEffect, LoadEffect, PendingEffect, StopEffect DEF server
    <3>4. CASE HighlightPersisted(c) \/ HighlightBroadcast(c)
      BY <3>4 DEF HighlightPersisted, HighlightBroadcast
    <3> QED
      BY <1>1, <3>1, <3>2, <3>3, <3>4 DEF System
  <2> QED
    BY <2>1 DEF HighlightData
<1>2. CASE HandleEvent(c)
  <2>1. UNCHANGED highlights \/ \E h \in Highlight : highlights' = Append(highlights, h)
    <3>1. CASE AddHighlight(c) /\ MayAdd(c)
      <4> DEFINE h == [at |-> selection[c].at, id |-> selection[c].id,
                       text |-> Sliced[doc][selection[c].at]]
      <4>1. highlights' = Append(highlights, h)
        BY <3>1 DEF AddHighlight
      <4>2. selection[c] \in Selected
        BY <3>1 DEF MayAdd, Shape, ServerShape
      <4>3. h \in Highlight
        BY <4>2 DEF Selected, Highlight
      <4> QED
        BY <4>1, <4>3
    <3>2. CASE ~(AddHighlight(c) /\ MayAdd(c))
      BY <1>2, <3>2, HandleEffect DEF HandleSelection, HandleSelectionCleared, AddHighlight
    <3> QED
      BY <3>1, <3>2
  <2>2. CASE UNCHANGED highlights
    BY <1>2, <2>2 DEF HighlightData
  <2>3. CASE \E h \in Highlight : highlights' = Append(highlights, h)
    <3>1. PICK h \in Highlight : highlights' = Append(highlights, h)
      BY <2>3
    <3>2. highlights \in Seq(Highlight)
      BY DEF Shape, ServerShape
    <3>3. /\ DOMAIN highlights = 1 .. Len(highlights) /\ Len(highlights) \in Nat
          /\ DOMAIN highlights' = 1 .. (Len(highlights) + 1)
          /\ \A i \in 1 .. Len(highlights) : highlights'[i] = highlights[i]
      BY <3>1, <3>2, AppendAt
    <3>4. \A i \in DOMAIN highlights : i \in DOMAIN highlights' /\ highlights'[i] = highlights[i]
      BY <3>3
    <3>5. Range(highlights) \subseteq Range(highlights')
      BY <3>4 DEF Range
    <3> QED
      BY <1>2, <3>5 DEF HighlightData
  <2> QED
    BY <1>2, <2>1, <2>2, <2>3
<1> QED
  BY <1>1, <1>2

LEMMA DrawnGrows ==
  ASSUME doc' = doc, HighlightData \subseteq HighlightData'
  PROVE  /\ DrawnOf(HighlightData) \subseteq DrawnOf(HighlightData)'
         /\ \A hl : hl \subseteq HighlightData => DrawnOf(hl) \subseteq DrawnOf(HighlightData)'
         /\ \A hl : DrawnOf(hl) = {Resolved[doc][i] : i \in hl} \ {None}
<1>1. DrawnOf(HighlightData)' = {Resolved[doc][i] : i \in HighlightData'} \ {None}
  BY DEF DrawnOf, Resolved, ByInterval, Interval
<1>2. \A hl : DrawnOf(hl) = {Resolved[doc][i] : i \in hl} \ {None}
  BY DEF DrawnOf
<1> QED
  BY <1>1, <1>2

LEMMA FormerStep ==
  ASSUME Shape, NothingStrange, NEW c \in Clients, User(c) \/ System(c)
  PROVE  NothingStrange'
<1> SUFFICES ASSUME NEW v \in Clients PROVE Former(v)'
  BY DEF NothingStrange
<1>1. Former(v) /\ down[v] \in Seq(DownMsg)
  BY DEF NothingStrange, Shape, QueuesShape
<1>2. HighlightData \subseteq HighlightData'
  BY HighlightsStay
<1>3. doc' = doc
  <2>1. CASE v = c /\ OwnStep(c)
    BY <2>1, RunEffect, PendingEffect, StopEffect DEF OwnStep, RenderPage
  <2>2. CASE ~(v = c /\ OwnStep(c))
    BY <2>2, Untouched
  <2> QED
    BY <2>1, <2>2
<1>4. /\ DrawnOf(HighlightData) \subseteq DrawnOf(HighlightData)'
      /\ \A hl : hl \subseteq HighlightData => DrawnOf(hl) \subseteq DrawnOf(HighlightData)'
  BY <1>2, <1>3, DrawnGrows
<1> DEFINE Old(m) == m.op \in Draws => m.hl \subseteq HighlightData
<1>5. \A i \in DOMAIN down[v] : Old(down[v][i])
  BY <1>1 DEF Former, Of
<1>6. SUFFICES
        /\ drawn'[v] \subseteq DrawnOf(HighlightData)'
        /\ \A i \in DOMAIN down'[v] : Old(down'[v][i])
        /\ \A m \in pending'[v] : m.op = "init" => m.hl \subseteq HighlightData
  <2>1. \A i \in Of(down'[v], Draws) : down'[v][i].hl \subseteq HighlightData
    BY <1>6 DEF Of
  <2> QED
    BY <1>2, <1>6, <2>1 DEF Former, Draws
<1>7. CASE RunScript(c) /\ v = c
  <2> DEFINE q == down[v]
             msg == Head(q)
  <2>1. q # <<>> /\ down' = [down EXCEPT ![v] = Tail(q)] /\ RunChanges(v, msg)
    BY <1>7, RunEffect
  <2>2. down'[v] = Tail(q)
    BY <2>1 DEF Shape, QueuesShape
  <2>3. /\ DOMAIN Tail(q) = 1 .. (Len(q) - 1) /\ DOMAIN q = 1 .. Len(q) /\ Len(q) \in Nat \ {0}
        /\ \A i \in 1 .. (Len(q) - 1) : Tail(q)[i] = q[i + 1]
        /\ msg = q[1]
    BY <1>1, <2>1, TailAt
  <2>4. Old(msg)
    BY <1>5, <2>3
  <2>5. \A i \in DOMAIN down'[v] : Old(down'[v][i])
    <3> SUFFICES ASSUME NEW i \in DOMAIN down'[v] PROVE Old(down'[v][i])
      OBVIOUS
    <3>1. i + 1 \in DOMAIN q /\ down'[v][i] = q[i + 1]
      BY <2>2, <2>3
    <3> QED
      BY <1>5, <3>1
  <2> HIDE DEF msg, q
  <2>6. drawn'[v] \subseteq DrawnOf(HighlightData)'
    <3>1. CASE drawn'[v] = drawn[v]
      BY <1>1, <1>4, <3>1 DEF Former
    <3>2. CASE drawn'[v] # drawn[v]
      <4>1. drawn'[v] = DrawnOf(msg.hl) /\ msg.op \in Draws
        BY <2>1, <3>2 DEF RunChanges, Draws
      <4> QED
        BY <1>4, <2>4, <4>1
    <3> QED
      BY <3>1, <3>2
  <2>7. \A m \in pending'[v] : m.op = "init" => m.hl \subseteq HighlightData
    <3>1. \A m \in pending'[v] : m = msg \/ m \in pending[v]
      BY <2>1 DEF RunChanges
    <3>2. msg.op = "init" => msg.hl \subseteq HighlightData
      BY <2>4 DEF Draws
    <3> QED
      BY <1>1, <3>1, <3>2 DEF Former
  <2> QED
    BY <2>5, <2>6, <2>7
<1>8. CASE (RunPending(c) \/ StopPolling(c)) /\ v = c
  <2>1. down' = down /\ \E msg \in pending[v] : PendingChanges(v, msg) \/ StopChanges(v, msg)
    BY <1>8, PendingEffect, StopEffect
  <2>2. PICK msg \in pending[v] : PendingChanges(v, msg) \/ StopChanges(v, msg)
    BY <2>1
  <2>3. pending'[v] \subseteq pending[v]
    BY <2>2 DEF PendingChanges, StopChanges
  <2>4. \/ drawn'[v] = drawn[v]
        \/ msg.op = "init" /\ drawn'[v] = DrawnOf(msg.hl)
    BY <2>2 DEF PendingChanges, StopChanges
  <2> QED
    BY <1>1, <1>4, <1>5, <2>1, <2>3, <2>4 DEF Former
<1>9. CASE RenderPage(c) /\ v = c
  <2> DEFINE msg == [op |-> "init", hl |-> HighlightData]
             q == down[v]
             r == Replay(v)
  <2>1. /\ down'[v] = q \o <<msg>> \o r
        /\ UNCHANGED <<drawn, pending>>
    BY <1>9 DEF RenderPage, browser, scripts, Shape, QueuesShape
  <2>2. /\ r \in Seq(DownMsg) /\ \A i \in DOMAIN r : r[i].op \notin Draws
    BY ReplayTells DEF ShowAgain, Draws
  <2>3. Old(msg)
    OBVIOUS
  <2> HIDE DEF msg, q, r
  <2>4. q \in Seq(DownMsg)
    BY <1>1 DEF q
  <2>5. \A i \in DOMAIN down'[v] : Old(down'[v][i])
    <3> SUFFICES ASSUME NEW i \in DOMAIN down'[v] PROVE Old(down'[v][i])
      OBVIOUS
    <3>1. /\ i \in 1 .. (Len(q) + 1 + Len(r)) /\ Len(q) \in Nat /\ Len(r) \in Nat
          /\ DOMAIN q = 1 .. Len(q) /\ DOMAIN r = 1 .. Len(r)
      BY <2>1, <2>2, <2>4
    <3>2. CASE i \in 1 .. Len(q)
      <4>1. down'[v][i] = q[i]
        BY <2>1, <2>2, <2>4, <3>2
      <4> QED
        BY <1>5, <3>1, <3>2, <4>1 DEF q
    <3>3. CASE i = Len(q) + 1
      <4>1. down'[v][i] = msg
        BY <2>1, <2>2, <2>4, <3>3
      <4> QED
        BY <2>3, <4>1
    <3>4. CASE i > Len(q) + 1
      <4>1. i - (Len(q) + 1) \in 1 .. Len(r) /\ down'[v][i] = r[i - (Len(q) + 1)]
        BY <2>1, <2>2, <2>4, <3>1, <3>4
      <4> QED
        BY <2>2, <3>1, <4>1
    <3> QED
      BY <3>1, <3>2, <3>3, <3>4
  <2> QED
    BY <1>1, <1>4, <2>1, <2>5 DEF Former
<1>10. CASE ~(v = c /\ OwnStep(c))
  <2>1. Grows(v) /\ SameAt(v)
    BY <1>10, Untouched
  <2>2. \A i \in DOMAIN down'[v] : Old(down'[v][i])
    <3>1. CASE down'[v] = down[v]
      BY <1>5, <3>1
    <3>2. CASE \E m \in DownMsg : Plain(m) /\ down'[v] = Append(down[v], m)
      <4>1. PICK m \in DownMsg : Plain(m) /\ down'[v] = Append(down[v], m)
        BY <3>2
      <4>2. Old(m)
        BY <4>1 DEF Plain, Draws
      <4>3. /\ DOMAIN down[v] = 1 .. Len(down[v]) /\ Len(down[v]) \in Nat
            /\ DOMAIN Append(down[v], m) = 1 .. (Len(down[v]) + 1)
            /\ \A i \in 1 .. Len(down[v]) : Append(down[v], m)[i] = down[v][i]
            /\ Append(down[v], m)[Len(down[v]) + 1] = m
        BY <1>1, AppendAt
      <4>4. \A i \in DOMAIN Append(down[v], m) : i \in DOMAIN down[v] \/ i = Len(down[v]) + 1
        BY <4>3
      <4> QED
        BY <1>5, <4>1, <4>2, <4>3, <4>4
    <3> QED
      BY <2>1, <3>1, <3>2 DEF Grows
  <2> QED
    BY <1>1, <1>4, <2>1, <2>2 DEF Former, SameAt
<1> QED
  BY <1>7, <1>8, <1>9, <1>10 DEF OwnStep

(* A push leaves the browser with the highlights to come. *)
LEMMA PushDraws ==
  ASSUME Shape, NEW v \in Clients, UNCHANGED <<doc, highlights>>,
         down'[v] = Append(down[v], [op |-> "apply", hl |-> HighlightData])
  PROVE  Drawn(v)'
<1> DEFINE msg == [op |-> "apply", hl |-> HighlightData]
<1>1. msg \in DownMsg /\ msg.op \in Draws /\ msg \in Drawing
  BY ScriptShapes, HighlightDataShape DEF Shape, ServerShape, Draws, Drawing
<1>2. down'[v] = Append(down[v], msg)
  OBVIOUS
<1> HIDE DEF msg
<1>3. down[v] \in Seq(DownMsg)
  BY DEF Shape, QueuesShape
<1>4. EndsWith(Append(down[v], msg), Draws, Drawing) /\ Of(Append(down[v], msg), Draws) # {}
  BY <1>1, <1>3, EndsAppend
<1>5. Drawing' = Drawing /\ HighlightData' = HighlightData /\ Draws' = Draws
  BY DEF Drawing, HighlightData, Draws
<1>6. EndsWith(down'[v], Draws, Drawing')
  BY <1>2, <1>4, <1>5
<1> QED
  BY <1>2, <1>4, <1>6 DEF Drawn, Draws

LEMMA SameHighlights ==
  ASSUME UNCHANGED <<doc, highlights>>
  PROVE  /\ Drawing' = Drawing /\ HighlightData' = HighlightData
         /\ DrawnOf(HighlightData)' = DrawnOf(HighlightData)
BY DEF Drawing, HighlightData, DrawnOf, Resolved, ByInterval, Interval

LEMMA SameDraft ==
  ASSUME NEW v \in Clients, UNCHANGED <<doc, highlights>>, ready'[v] = ready[v],
         pending'[v] = pending[v], drawn'[v] = drawn[v]
  PROVE  Draft(v)' <=> Draft(v)
<1>1. HighlightData' = HighlightData /\ DrawnOf(HighlightData)' = DrawnOf(HighlightData)
  BY SameHighlights
<1> QED
  BY <1>1, SameContainer DEF Draft

(* A script of another kind, or none, changes nothing of it. *)
LEMMA OtherDraws ==
  ASSUME Shape, NEW v \in Clients, UNCHANGED <<doc, highlights>>, SameAt(v),
         \/ down'[v] = down[v]
         \/ \E m \in DownMsg : m.op \notin Draws /\ down'[v] = Append(down[v], m),
         Drawn(v)
  PROVE  Drawn(v)'
<1>1. Drawing' = Drawing /\ Draft(v)' = Draft(v)
  BY SameHighlights, SameDraft DEF SameAt, Draft
<1>2. EndsWith(down[v], Draws, Drawing)
      /\ (Of(down[v], Draws) = {} => behind[v] \/ Draft(v))
  BY DEF Drawn
<1>3. EndsWith(down'[v], Draws, Drawing) /\ Of(down'[v], Draws) = Of(down[v], Draws)
  <2>1. CASE down'[v] = down[v]
    BY <1>2, <2>1
  <2>2. CASE \E m \in DownMsg : m.op \notin Draws /\ down'[v] = Append(down[v], m)
    <3>1. PICK m \in DownMsg : m.op \notin Draws /\ down'[v] = Append(down[v], m)
      BY <2>2
    <3>2. down[v] \in Seq(DownMsg)
      BY DEF Shape, QueuesShape
    <3>3. EndsWith(Append(down[v], m), Draws, Drawing)
          /\ Of(Append(down[v], m), Draws) = Of(down[v], Draws)
      BY <1>2, <3>1, <3>2, EndsAppendOther
    <3> QED
      BY <3>1, <3>3
  <2> QED
    BY <2>1, <2>2
<1>4. /\ EndsWith(down'[v], Draws, Drawing')
      /\ Of(down'[v], Draws) = {} => behind'[v] \/ Draft(v)'
  BY <1>1, <1>2, <1>3 DEF SameAt
<1> QED
  BY <1>4 DEF Drawn, Draws

LEMMA SendOther ==
  ASSUME Shape, NEW targets, NEW m \in DownMsg, m.op \notin Draws,
         down' = Send(down, targets, m), NEW v \in Clients
  PROVE  \/ down'[v] = down[v]
         \/ \E n \in DownMsg : n.op \notin Draws /\ down'[v] = Append(down[v], n)
<1>1. down'[v] = IF v \in targets THEN Append(down[v], m) ELSE down[v]
  BY SentDown
<1> QED
  BY <1>1

(* Nothing is owed less when nobody's addition moves. *)
LEMMA StillOwed ==
  ASSUME NEW v \in Clients, adding' = adding, Owed(v)
  PROVE  Owed(v)'
BY DEF Owed

LEMMA DrawingScript ==
  ASSUME Shape, SetUpOnce, SetUpOnce', NEW v \in Clients, RunScript(v), page[v] = "open", Drawn(v)
  PROVE  Drawn(v)'
<1> DEFINE q == down[v]
           msg == Head(q)
<1>1. /\ q # <<>> /\ page'[v] = "open" /\ msg \in DownMsg
      /\ down'[v] = Tail(q) /\ UNCHANGED <<doc, highlights>>
      /\ RunChanges(v, msg)
  BY RunEffect DEF Shape, QueuesShape, server
<1>2. q \in Seq(DownMsg) /\ ready[v] \in BOOLEAN
  BY DEF Shape, QueuesShape, BrowserShape
<1>3. Drawing' = Drawing /\ HighlightData' = HighlightData
      /\ DrawnOf(HighlightData)' = DrawnOf(HighlightData)
  BY <1>1, SameHighlights
<1>4. EndsWith(q, Draws, Drawing) /\ (Of(q, Draws) = {} => behind[v] \/ Draft(v))
  BY DEF Drawn
<1>5. /\ HasContainer(v) <=> Of(q, Inits) = {}
      /\ ~HasContainer(v) => pending[v] = {}
      /\ ready[v] => functions[v]
  BY DEF SetUpOnce, SetUp
<1> HIDE DEF q
<1>6. /\ EndsWith(Tail(q), Draws, Drawing)
      /\ Of(Tail(q), Draws) = {} /\ Of(q, Draws) # {} => Head(q).op \in Draws /\ Head(q) \in Drawing
      /\ Of(q, Draws) = {} => Head(q).op \notin Draws
  BY <1>1, <1>2, <1>4, EndsTail
<1>7. /\ Head(q).op \in Inits => Of(q, Inits) # {}
      /\ Head(q).op \notin Inits /\ Of(Tail(q), Inits) = {} => Of(q, Inits) = {}
  <2>1. 1 \in Of(q, Inits) <=> Head(q).op \in Inits
    BY <1>1, <1>2, OfTail
  <2>2. \A i \in Of(q, Inits) : i = 1 \/ i - 1 \in Of(Tail(q), Inits)
    BY <1>1, <1>2, OfTail
  <2> QED
    BY <2>1, <2>2
<1> HIDE DEF msg
<1>8. ASSUME Of(Tail(q), Draws) = {} PROVE behind'[v] \/ Draft(v)'
  <2>1. Of(Tail(q), Inits) = {}
    BY <1>8 DEF Of, Inits, Draws
  <2>2. CASE msg.op = "init"
    <3>1. msg.hl = HighlightData
      <4>1. Of(q, Draws) # {}
        BY <1>6, <2>2 DEF msg, Draws
      <4>2. msg \in Drawing
        BY <1>6, <1>8, <4>1 DEF msg
      <4> QED
        BY <4>2 DEF Drawing
    <3>2. ~HasContainer(v) /\ pending[v] = {}
      BY <1>5, <1>7, <2>2 DEF msg, Inits
    <3>3. CASE functions[v]
      <4>1. pending'[v] = {} /\ drawn'[v] = DrawnOf(msg.hl)
        BY <1>1, <2>2, <3>2, <3>3 DEF RunChanges, Undefined
      <4>2. drawn'[v] = DrawnOf(HighlightData)'
        BY <1>3, <3>1, <4>1
      <4> QED
        BY <4>1, <4>2 DEF Draft, InitPending
    <3>4. CASE ~functions[v]
      <4>1. pending'[v] = {msg}
        BY <1>1, <2>2, <3>2, <3>4 DEF RunChanges, Undefined
      <4>2. msg.hl = HighlightData'
        BY <1>3, <3>1
      <4> QED
        BY <2>2, <4>1, <4>2 DEF Draft, InitPending
    <3> QED
      BY <3>3, <3>4
  <2>3. CASE msg.op = "apply"
    <3>1. msg.hl = HighlightData
      <4>1. Of(q, Draws) # {}
        BY <1>6, <2>3 DEF msg, Draws
      <4>2. msg \in Drawing
        BY <1>6, <1>8, <4>1 DEF msg
      <4> QED
        BY <4>2 DEF Drawing
    <3>2. HasContainer(v)
      BY <1>5, <1>7, <2>1, <2>3 DEF msg, Inits
    <3>3. behind'[v] = InitPending(v) /\ pending'[v] = pending[v]
      BY <1>1, <2>3 DEF RunChanges, Undefined
    <3>4. CASE InitPending(v)
      BY <3>3, <3>4
    <3>5. CASE ~InitPending(v)
      <4>1. functions[v]
        BY <1>5, <3>2, <3>5 DEF HasContainer
      <4>2. drawn'[v] = DrawnOf(msg.hl)
        BY <1>1, <2>3, <3>2, <4>1 DEF RunChanges
      <4>3. drawn'[v] = DrawnOf(HighlightData)'
        BY <1>3, <3>1, <4>2
      <4> QED
        BY <3>3, <3>5, <4>3 DEF Draft, InitPending
    <3> QED
      BY <3>4, <3>5
  <2>4. CASE msg.op \notin {"init", "apply"}
    <3>1. behind[v] \/ Draft(v)
      <4>1. Of(q, Draws) = {}
        BY <1>6, <1>8, <2>4 DEF msg, Draws
      <4> QED
        BY <1>4, <4>1
    <3>2. /\ behind'[v] = behind[v] /\ drawn'[v] = drawn[v]
          /\ \A m : m.op = "init" => (m \in pending'[v] <=> m \in pending[v])
      BY <1>1, <2>4 DEF RunChanges, Undefined
    <3>3. InitPending(v)' <=> InitPending(v)
      BY <3>2 DEF InitPending
    <3>4. ASSUME Draft(v) PROVE Draft(v)'
      <4>1. CASE InitPending(v)
        <5>1. \A m \in pending'[v] : m.op = "init" => m.hl = HighlightData'
          BY <1>3, <3>2, <3>4, <4>1 DEF Draft
        <5> QED
          BY <3>3, <4>1, <5>1 DEF Draft
      <4>2. CASE ~InitPending(v)
        <5>1. drawn'[v] = DrawnOf(HighlightData)'
          BY <1>3, <3>2, <3>4, <4>2 DEF Draft
        <5> QED
          BY <3>3, <4>2, <5>1 DEF Draft
      <4> QED
        BY <4>1, <4>2
    <3> QED
      BY <3>1, <3>2, <3>4
  <2> QED
    BY <2>2, <2>3, <2>4
<1>9. /\ EndsWith(down'[v], Draws, Drawing')
      /\ Of(down'[v], Draws) = {} => behind'[v] \/ Draft(v)'
  BY <1>1, <1>3, <1>6, <1>8
<1> QED
  BY <1>9 DEF Drawn, Draws

(* The init that has waited draws what it was to draw. *)
LEMMA DrawingPending ==
  ASSUME Shape, NEW v \in Clients, RunPending(v) \/ StopPolling(v), Drawn(v)
  PROVE  Drawn(v)'
<1>1. /\ down' = down /\ UNCHANGED <<doc, highlights>>
      /\ \E msg \in pending[v] : PendingChanges(v, msg) \/ StopChanges(v, msg)
  BY PendingEffect, StopEffect DEF server
<1>2. PICK msg \in pending[v] : PendingChanges(v, msg) \/ StopChanges(v, msg)
  BY <1>1
<1>3. Drawing' = Drawing /\ HighlightData' = HighlightData
      /\ DrawnOf(HighlightData)' = DrawnOf(HighlightData)
  BY <1>1, SameHighlights
<1>4. EndsWith(down[v], Draws, Drawing) /\ (Of(down[v], Draws) = {} => behind[v] \/ Draft(v))
  BY DEF Drawn
<1>5. pending'[v] = pending[v] \ {msg} /\ behind'[v] = behind[v]
  BY <1>2 DEF PendingChanges, StopChanges
<1>6. ASSUME Draft(v) PROVE Draft(v)'
  <2>1. InitPending(v)' => InitPending(v)
    BY <1>5 DEF InitPending
  <2>2. CASE InitPending(v)'
    <3>1. \A m \in pending'[v] : m.op = "init" => m.hl = HighlightData'
      BY <1>3, <1>5, <1>6, <2>1, <2>2 DEF Draft
    <3> QED
      BY <2>2, <3>1 DEF Draft
  <2>3. CASE ~InitPending(v)'
    <3>1. drawn'[v] = DrawnOf(HighlightData)
      <4>1. CASE msg.op = "init"
        <5>1. drawn'[v] = DrawnOf(msg.hl)
          BY <1>2, <4>1 DEF PendingChanges, StopChanges
        <5>2. InitPending(v)
          BY <4>1 DEF InitPending
        <5>3. msg.hl = HighlightData
          BY <1>6, <4>1, <5>2 DEF Draft
        <5> QED
          BY <5>1, <5>3
      <4>2. CASE msg.op # "init"
        <5>1. drawn'[v] = drawn[v]
          BY <1>2, <4>2 DEF PendingChanges, StopChanges
        <5>2. ~InitPending(v)
          BY <1>5, <2>3, <4>2 DEF InitPending
        <5> QED
          BY <1>6, <5>1, <5>2 DEF Draft
      <4> QED
        BY <4>1, <4>2
    <3>2. drawn'[v] = DrawnOf(HighlightData)'
      BY <1>3, <3>1
    <3> QED
      BY <2>3, <3>2 DEF Draft
  <2> QED
    BY <2>2, <2>3
<1>7. /\ EndsWith(down'[v], Draws, Drawing')
      /\ Of(down'[v], Draws) = {} => behind'[v] \/ Draft(v)'
  BY <1>1, <1>3, <1>4, <1>5, <1>6
<1> QED
  BY <1>7 DEF Drawn, Draws

LEMMA DrawingStep ==
  ASSUME Shape, SetUpOnce, SetUpOnce', DrawingReaches,
         NEW c \in Clients, User(c) \/ System(c)
  PROVE  DrawingReaches'
<1> SUFFICES ASSUME NEW v \in Clients, page'[v] = "open" PROVE Owed(v)' \/ Drawn(v)'
  BY DEF DrawingReaches
<1>1. page[v] = "open" => Owed(v) \/ Drawn(v)
  BY DEF DrawingReaches
<1>2. CASE /\ page[v] = "open" /\ SameAt(v)
           /\ UNCHANGED <<doc, highlights, adding>>
           /\ \/ down'[v] = down[v]
              \/ \E m \in DownMsg : m.op \notin Draws /\ down'[v] = Append(down[v], m)
  BY <1>1, <1>2, StillOwed, OtherDraws
<1>3. CASE User(c)
  <2>1. SameAt(v)
    BY <1>3, Untouched DEF OwnStep, User, SelectionChange, Collapse, MouseUp, Click, ClickSettles,
       PressTag, browser, scripts, SameAt
  <2> QED
    BY <1>2, <1>3, <2>1 DEF User, SelectionChange, Collapse, MouseUp, Click, ClickSettles, PressTag,
       server
<1>4. CASE OpenPage(c)
  <2> DEFINE msg == [op |-> "apply", hl |-> HighlightData]
  <2>1. /\ page' = [page EXCEPT ![c] = "loading"] /\ down' = Send(down, present, msg)
        /\ UNCHANGED <<doc, highlights, adding>>
    BY <1>4 DEF OpenPage
  <2>2. page[v] = "open" /\ v \in present
    BY <2>1 DEF Shape, PagesShape
  <2>3. msg \in DownMsg
    BY ScriptShapes, HighlightDataShape DEF Shape, ServerShape
  <2>4. down'[v] = Append(down[v], msg)
    BY <2>1, <2>2, <2>3, SentDown
  <2> QED
    BY <2>1, <2>4, PushDraws
<1>5. CASE RenderPage(c)
  <2> DEFINE msg == [op |-> "init", hl |-> HighlightData]
  <2>1. /\ page' = [page EXCEPT ![c] = "open"]
        /\ down' = [down EXCEPT ![c] = down[c] \o <<msg>> \o Replay(c)]
        /\ UNCHANGED <<doc, drawn, highlights, adding>>
    BY <1>5 DEF RenderPage, browser, server
  <2>2. CASE v # c
    <3>1. down'[v] = down[v] /\ page[v] = "open"
      BY <2>1, <2>2 DEF Shape, PagesShape, QueuesShape
    <3>2. SameAt(v)
      BY <1>5, <2>2, Untouched
    <3> QED
      BY <1>2, <2>1, <3>1, <3>2
  <2>3. CASE v = c
    <3>1. down'[v] = down[v] \o <<msg>> \o Replay(v)
      BY <2>1, <2>3 DEF Shape, QueuesShape
    <3>2. msg \in DownMsg /\ msg.op \in Draws /\ msg \in Drawing
      BY ScriptShapes, HighlightDataShape DEF Shape, ServerShape, Draws, Drawing
    <3>3. Replay(v) \in Seq(DownMsg) /\ \A i \in DOMAIN Replay(v) : Replay(v)[i].op \notin Draws
      BY ReplayTells DEF ShowAgain, Draws
    <3>4. down[v] \in Seq(DownMsg)
      BY DEF Shape, QueuesShape
    <3> HIDE DEF msg
    <3>5. /\ EndsWith(down[v] \o <<msg>> \o Replay(v), Draws, Drawing)
          /\ Of(down[v] \o <<msg>> \o Replay(v), Draws) # {}
      BY <3>2, <3>3, <3>4, EndsSetUp
    <3>6. Drawing' = Drawing
      BY <2>1 DEF Drawing, HighlightData
    <3>7. EndsWith(down'[v], Draws, Drawing') /\ Of(down'[v], Draws) # {}
      BY <3>1, <3>5, <3>6
    <3> QED
      BY <3>7 DEF Drawn, Draws
  <2> QED
    BY <2>2, <2>3
<1>6. CASE DeleteClient(c)
  <2>1. /\ page' = [page EXCEPT ![c] = "gone"] /\ down' = Send(down, Others(c), Hide(c))
        /\ UNCHANGED <<doc, highlights, adding>> /\ SameAt(v)
    BY <1>6 DEF DeleteClient, browser, scripts, SameAt
  <2>2. page[v] = "open"
    BY <2>1 DEF Shape, PagesShape
  <2>3. Hide(c) \in DownMsg /\ Hide(c).op \notin Draws
    BY ScriptShapes DEF Hide, Draws
  <2>4. \/ down'[v] = down[v]
        \/ \E m \in DownMsg : m.op \notin Draws /\ down'[v] = Append(down[v], m)
    BY <2>1, <2>3, SendOther
  <2> QED
    BY <1>2, <2>1, <2>2, <2>4
<1>7. CASE RunScript(c) \/ LoadFunctions(c) \/ RunPending(c) \/ StopPolling(c)
  <2>1. page' = page /\ UNCHANGED <<doc, highlights, adding>>
    BY <1>7, RunEffect, LoadEffect, PendingEffect, StopEffect DEF server
  <2>2. CASE v = c /\ ~LoadFunctions(c)
    BY <1>1, <1>7, <2>1, <2>2, StillOwed, DrawingScript, DrawingPending
  <2>3. CASE v # c \/ LoadFunctions(c)
    <3>1. SameAt(v)
      <4>1. CASE v # c
        BY <1>7, <4>1, Untouched DEF System
      <4>2. CASE LoadFunctions(c)
        <5>1. Local(c) /\ functions'[c] = TRUE
              /\ UNCHANGED <<pending, ready, drawn, remote, behind, missed>>
          BY <4>2, LoadEffect
        <5> QED
          BY <5>1 DEF SameAt, Local
      <4> QED
        BY <2>3, <4>1, <4>2
    <3>2. down'[v] = down[v]
      <4>1. CASE LoadFunctions(c) \/ RunPending(c) \/ StopPolling(c)
        BY <4>1, LoadEffect, PendingEffect, StopEffect
      <4>2. CASE RunScript(c) /\ v # c
        <5>1. down' = [down EXCEPT ![c] = Tail(down[c])]
          BY <4>2, RunEffect
        <5> QED
          BY <4>2, <5>1 DEF Shape, QueuesShape
      <4> QED
        BY <1>7, <2>3, <4>1, <4>2
    <3> QED
      BY <1>2, <2>1, <3>1, <3>2
  <2> QED
    BY <2>2, <2>3
<1>8. CASE HandleEvent(c)
  <2> DEFINE msg == Head(up[c])
  <2>1. /\ msg \in UpMsg /\ page' = page
        /\ doc' = doc /\ SameAt(v)
        /\ \/ msg.op = "selection_made" /\ HandleSelection(c, msg)
           \/ msg.op = "selection_cleared" /\ HandleSelectionCleared(c)
           \/ msg.op = "keydown" /\ AddHighlight(c)
    BY <1>8, HandleEffect DEF browser, scripts, SameAt
  <2>2. msg.op = "selection_made" => msg.at \in Ats
    BY <2>1, UpFields
  <2> HIDE DEF msg
  <2>3. CASE msg.op = "selection_made" /\ HandleSelection(c, msg)
    <3>1. Show(c, msg.at) \in DownMsg /\ Show(c, msg.at).op \notin Draws
      BY <2>2, <2>3, ScriptShapes DEF Show, Draws
    <3>2. down' = Send(down, Others(c), Show(c, msg.at)) /\ UNCHANGED <<adding, highlights>>
      BY <2>3 DEF HandleSelection
    <3>3. \/ down'[v] = down[v]
          \/ \E m \in DownMsg : m.op \notin Draws /\ down'[v] = Append(down[v], m)
      BY <3>1, <3>2, SendOther
    <3> QED
      BY <1>2, <2>1, <3>2, <3>3
  <2>4. CASE HandleSelectionCleared(c)
    <3>1. Hide(c) \in DownMsg /\ Hide(c).op \notin Draws
      BY ScriptShapes DEF Hide, Draws
    <3>2. down' = Send(down, Others(c), Hide(c)) /\ UNCHANGED <<adding, highlights>>
      BY <2>4 DEF HandleSelectionCleared
    <3>3. \/ down'[v] = down[v]
          \/ \E m \in DownMsg : m.op \notin Draws /\ down'[v] = Append(down[v], m)
      BY <3>1, <3>2, SendOther
    <3> QED
      BY <1>2, <2>1, <3>2, <3>3
  <2>5. CASE AddHighlight(c)
    <3>1. CASE MayAdd(c)
      <4>1. adding' = [adding EXCEPT ![c] = "persist"]
        BY <2>5, <3>1 DEF AddHighlight
      <4>2. adding'[c] = "persist"
        BY <4>1 DEF Shape, ServerShape
      <4> QED
        BY <4>2 DEF Owed
    <3>2. CASE ~MayAdd(c)
      BY <1>2, <2>1, <2>5, <3>2 DEF AddHighlight
    <3> QED
      BY <3>1, <3>2
  <2> QED
    BY <2>1, <2>3, <2>4, <2>5
<1>9. CASE HighlightPersisted(c)
  <2> DEFINE msg == [op |-> "apply", hl |-> HighlightData]
  <2>1. /\ adding' = [adding EXCEPT ![c] = "broadcast"]
        /\ down' = Send(down, {c} \intersect present, msg) /\ msg \in DownMsg
        /\ page' = page /\ UNCHANGED <<doc, drawn, highlights>>
    BY <1>9, PersistedEffect DEF browser
  <2>2. CASE v = c
    <3>1. v \in present
      BY <2>1 DEF Shape, PagesShape
    <3>2. down'[v] = Append(down[v], msg)
      <4>1. v \in {c} \intersect present
        BY <2>2, <3>1
      <4> HIDE DEF msg
      <4>2. Send(down, {c} \intersect present, msg)[v] = Append(down[v], msg)
        BY <2>1, <4>1, SentDown
      <4> QED
        BY <2>1, <4>2
    <3> QED
      BY <2>1, <3>2, PushDraws
  <2>3. CASE v # c
    <3>1. adding'[c] = "broadcast"
      BY <2>1 DEF Shape, ServerShape
    <3> QED
      BY <2>3, <3>1 DEF Owed
  <2> QED
    BY <2>2, <2>3
<1>10. CASE HighlightBroadcast(c)
  <2> DEFINE msg == [op |-> "apply", hl |-> HighlightData]
             drop == [op |-> "removeAllRanges"]
  <2>1. /\ adding[c] = "broadcast" /\ adding' = [adding EXCEPT ![c] = "no"]
        /\ drop \in DownMsg
        /\ v # c => down'[v] = IF v \in present THEN Append(down[v], msg) ELSE down[v]
        /\ down'[c] = IF c \in present THEN Append(down[c], drop) ELSE down[c]
        /\ page' = page /\ UNCHANGED <<doc, highlights>> /\ SameAt(v)
    BY <1>10, BroadcastEffect DEF browser, scripts, SameAt
  <2>2. v \in present
    BY <2>1 DEF Shape, PagesShape
  <2>3. CASE v # c
    <3>1. down'[v] = Append(down[v], msg)
      BY <2>1, <2>2, <2>3
    <3> QED
      BY <2>1, <3>1, PushDraws
  <2>4. CASE v = c
    <3>1. CASE Owed(v)
      <4>1. PICK d \in Clients : adding[d] = "persist" \/ (adding[d] = "broadcast" /\ d # v)
        BY <3>1 DEF Owed
      <4>2. d # c
        BY <2>1, <2>4, <4>1
      <4>3. adding'[d] = adding[d]
        BY <2>1, <4>2 DEF Shape, ServerShape
      <4> QED
        BY <4>1, <4>3 DEF Owed
    <3>2. CASE Drawn(v)
      <4>1. drop.op \notin Draws
        BY DEF Draws
      <4>2. down'[v] = Append(down[v], drop)
        BY <2>1, <2>2, <2>4
      <4> HIDE DEF drop
      <4> QED
        BY <2>1, <3>2, <4>1, <4>2, OtherDraws
    <3> QED
      BY <1>1, <2>1, <3>1, <3>2
  <2> QED
    BY <2>3, <2>4
<1> QED
  BY <1>3, <1>4, <1>5, <1>6, <1>7, <1>8, <1>9, <1>10 DEF System

-----------------------------------------------------------------------------
(***************************************************************************)
(* The selections reach every browser                                      *)
(***************************************************************************)

(* What the registry has of a client's selection: as a script, and on the  *)
(* screen.                                                                 *)
Tellings(o) ==
  IF presence[o] = None THEN {Hide(o)} ELSE {Show(o, presence[o]), ShowAgain(o, presence[o])}
Shown(o) == IF presence[o] = None THEN None ELSE Located[doc][presence[o]]

(* The browser shows that, or its polling replay is going to, unless it    *)
(* has missed the latest word.                                             *)
Followed(v, o) ==
  \/ o \in missed[v]
  \/ IF Polling(v, o)
     THEN \A msg \in pending[v] : msg.op = "replay" /\ msg.of = o => msg.at = presence[o]
     ELSE remote[v][o] = Shown(o)

(* The last script on its way about a client tells what the registry has;  *)
(* if there is none the browser follows it, or the client selects nothing  *)
(* and the page is still to be set up.                                     *)
Told(v, o) ==
  /\ EndsSaying(down[v], o, Tellings(o))
  /\ Words(down[v], o) = {} =>
       IF Of(down[v], Inits) = {} THEN Followed(v, o) ELSE presence[o] = None

PresenceReaches ==
  \A v, o \in Clients : page[v] = "open" /\ o # v => Told(v, o)

LEMMA PresenceInit == Init => PresenceReaches
BY DEF Init, PresenceReaches

LEMMA SameFollowed ==
  ASSUME NEW v \in Clients, NEW o \in Clients, doc' = doc, presence'[o] = presence[o], SameAt(v)
  PROVE  Followed(v, o)' <=> Followed(v, o)
<1>1. Shown(o)' = Shown(o)
  BY DEF Shown, Located, ByInterval, Interval
<1>2. Polling(v, o)' = Polling(v, o)
  BY DEF SameAt, Polling
<1> QED
  BY <1>1, <1>2 DEF Followed, SameAt

(* A client's new selection, or its end, is told.                          *)
LEMMA TellingTells ==
  ASSUME Shape, NEW v \in Clients, NEW o \in Clients, NEW msg \in DownMsg, msg \in Tellings(o)',
         down'[v] = Append(down[v], msg)
  PROVE  Told(v, o)'
<1>1. msg.op \in {"show", "hide", "replay"} /\ msg.of = o
  BY DEF Tellings, Show, ShowAgain, Hide
<1>2. down[v] \in Seq(DownMsg)
  BY DEF Shape, QueuesShape
<1> DEFINE tell == Tellings(o)'
<1>3. msg \in tell
  OBVIOUS
<1> HIDE DEF tell
<1>4. EndsSaying(Append(down[v], msg), msg.of, tell) /\ Words(Append(down[v], msg), msg.of) # {}
  BY <1>1, <1>2, <1>3, SaysAppend
<1>5. EndsSaying(down'[v], o, tell) /\ Words(down'[v], o) # {}
  BY <1>1, <1>4
<1> QED
  BY <1>5 DEF Told, tell

(* Scripts about others, pushes and removals change nothing of it.         *)
LEMMA OthersTold ==
  ASSUME Shape, NEW v \in Clients, NEW o \in Clients, Told(v, o),
         doc' = doc, presence'[o] = presence[o], SameAt(v),
         \/ down'[v] = down[v]
         \/ \E m \in DownMsg : /\ m.op # "init"
                               /\ (m.op \in {"show", "hide", "replay"} => m.of # o)
                               /\ down'[v] = Append(down[v], m)
  PROVE  Told(v, o)'
<1>1. Tellings(o)' = Tellings(o) /\ (Followed(v, o)' <=> Followed(v, o))
  BY SameFollowed DEF Tellings, Show, ShowAgain, Hide
<1>2. down[v] \in Seq(DownMsg)
  BY DEF Shape, QueuesShape
<1>3. /\ EndsSaying(down[v], o, Tellings(o)) => EndsSaying(down'[v], o, Tellings(o))
      /\ Words(down'[v], o) = Words(down[v], o) /\ Of(down'[v], Inits) = Of(down[v], Inits)
  <2>1. CASE down'[v] = down[v]
    BY <2>1
  <2>2. CASE \E m \in DownMsg : /\ m.op # "init"
                                /\ (m.op \in {"show", "hide", "replay"} => m.of # o)
                                /\ down'[v] = Append(down[v], m)
    <3>1. PICK m \in DownMsg : /\ m.op # "init"
                               /\ (m.op \in {"show", "hide", "replay"} => m.of # o)
                               /\ down'[v] = Append(down[v], m)
      BY <2>2
    <3>2. m.op \notin Inits
      BY <3>1 DEF Inits
    <3>3. /\ EndsSaying(down[v], o, Tellings(o)) => EndsSaying(Append(down[v], m), o, Tellings(o))
          /\ Words(Append(down[v], m), o) = Words(down[v], o)
      BY <1>2, <3>1, SaysAppendOther
    <3>4. Of(Append(down[v], m), Inits) = Of(down[v], Inits)
      BY <1>2, <3>2, OfAppendOther
    <3> QED
      BY <3>1, <3>3, <3>4
  <2> QED
    BY <2>1, <2>2
<1>4. /\ EndsSaying(down'[v], o, Tellings(o)')
      /\ Words(down'[v], o) = {} =>
           IF Of(down'[v], Inits) = {} THEN Followed(v, o)' ELSE presence'[o] = None
  BY <1>1, <1>3 DEF Told
<1> QED
  BY <1>4 DEF Told, Inits

(* A script about another client leaves a client followed as it was.       *)
LEMMA OtherWord ==
  ASSUME Shape, NEW v \in Clients, NEW o \in Clients, NEW msg \in DownMsg, RunChanges(v, msg),
         doc' = doc, presence'[o] = presence[o], msg.op # "init",
         msg.op \in {"show", "hide", "replay"} => msg.of # o, Followed(v, o)
  PROVE  Followed(v, o)'
<1>1. Shown(o)' = Shown(o)
  BY DEF Shown, Located, ByInterval, Interval
<1>2. DOMAIN remote[v] = Clients
  BY DEF Shape, RemoteShape
<1>3. o \in missed[v] => o \in missed'[v]
  BY DEF RunChanges
<1>4. remote'[v][o] = remote[v][o]
  <2>1. CASE msg.op \in {"show", "hide", "replay"} /\ functions[v]
    <3>1. \E range : remote'[v] = [remote[v] EXCEPT ![msg.of] = range]
      BY <2>1 DEF RunChanges, Follow
    <3> QED
      BY <1>2, <2>1, <3>1
  <2>2. CASE ~(msg.op \in {"show", "hide", "replay"} /\ functions[v])
    BY <2>2 DEF RunChanges, Keep
  <2> QED
    BY <2>1, <2>2
<1>5. \A m : m.op = "replay" /\ m.of = o => (m \in pending'[v] <=> m \in pending[v])
  BY DEF RunChanges, Undefined
<1>6. Polling(v, o)' <=> Polling(v, o)
  BY <1>5 DEF Polling
<1> QED
  BY <1>1, <1>3, <1>4, <1>5, <1>6 DEF Followed

(* The last word of a client is followed, polled for, or missed.           *)
LEMMA LastWord ==
  ASSUME Shape, NEW v \in Clients, NEW o \in Clients, NEW msg \in DownMsg, RunChanges(v, msg),
         doc' = doc, presence'[o] = presence[o], HasContainer(v), msg \in Tellings(o)
  PROVE  Followed(v, o)'
<1>1. Shown(o)' = Shown(o)
  BY DEF Shown, Located, ByInterval, Interval
<1>2. DOMAIN remote[v] = Clients /\ o \in Clients
  BY DEF Shape, RemoteShape
<1>3. /\ msg.op \in {"show", "hide", "replay"} /\ msg.of = o
      /\ msg.op = "hide" => presence[o] = None
      /\ msg.op # "hide" => presence[o] # None /\ msg.at = presence[o]
  BY DEF Tellings, Show, ShowAgain, Hide
<1>4. CASE ~((msg.op = "replay" \/ functions[v]) /\ ~Polling(v, o))
  <2>1. missed'[v] = missed[v] \union {o}
    BY <1>3, <1>4 DEF RunChanges
  <2> QED
    BY <2>1 DEF Followed
<1>5. CASE functions[v] /\ ~Polling(v, o)
  <2>1. pending'[v] = pending[v]
    BY <1>5 DEF RunChanges, Undefined
  <2>2. ~Polling(v, o)'
    BY <1>5, <2>1 DEF Polling
  <2>3. remote'[v] = [remote[v] EXCEPT ![o] = IF msg.op # "hide" THEN Located[doc][msg.at] ELSE None]
    BY <1>3, <1>5 DEF RunChanges, Follow
  <2>4. remote'[v][o] = Shown(o)
    BY <1>2, <1>3, <2>3 DEF Shown
  <2> QED
    BY <1>1, <2>2, <2>4 DEF Followed
<1>6. CASE msg.op = "replay" /\ ~functions[v] /\ ~Polling(v, o)
  <2>1. pending'[v] = pending[v] \union {msg}
    BY <1>6 DEF RunChanges, Undefined
  <2>2. Polling(v, o)'
    BY <1>3, <1>6, <2>1 DEF Polling
  <2>3. \A m \in pending'[v] : m.op = "replay" /\ m.of = o => m.at = presence'[o]
    BY <1>3, <1>6, <2>1 DEF Polling
  <2> QED
    BY <2>2, <2>3 DEF Followed
<1> QED
  BY <1>3, <1>4, <1>5, <1>6

(* A script runs.                                                          *)
LEMMA ToldScript ==
  ASSUME Shape, SetUpOnce, SetUpOnce', NEW v \in Clients, NEW o \in Clients,
         RunScript(v), page[v] = "open", Told(v, o)
  PROVE  Told(v, o)'
<1> DEFINE q == down[v]
           msg == Head(q)
<1>1. /\ q # <<>> /\ page'[v] = "open" /\ msg \in DownMsg
      /\ down'[v] = Tail(q) /\ UNCHANGED <<doc, presence>>
      /\ RunChanges(v, msg)
  BY RunEffect DEF server, Shape, QueuesShape
<1>2. q \in Seq(DownMsg)
  BY DEF Shape, QueuesShape
<1>3. Tellings(o)' = Tellings(o)
  BY <1>1 DEF Tellings, Show, ShowAgain, Hide
<1>4. /\ EndsSaying(q, o, Tellings(o))
      /\ Words(q, o) = {} =>
           IF Of(q, Inits) = {} THEN Followed(v, o) ELSE presence[o] = None
  BY DEF Told
<1>5. /\ HasContainer(v) <=> Of(q, Inits) = {}
      /\ ~HasContainer(v) => pending[v] = {} /\ remote[v][o] = None
  BY DEF SetUpOnce, SetUp
<1> HIDE DEF q
<1>6. /\ EndsSaying(Tail(q), o, Tellings(o))
      /\ Words(Tail(q), o) = {} /\ Words(q, o) # {} =>
           /\ Head(q) \in Tellings(o)
           /\ Head(q).op \in {"show", "hide", "replay"} /\ Head(q).of = o
           /\ Of(q, Inits) = {}
      /\ Words(q, o) = {} /\ Of(q, Inits) = {} =>
           ~(Head(q).op \in {"show", "hide", "replay"} /\ Head(q).of = o)
  BY <1>1, <1>2, <1>4, SaysTail
<1>7. /\ Head(q).op \in Inits => Of(q, Inits) # {}
      /\ Head(q).op \notin Inits /\ Of(q, Inits) # {} => Of(Tail(q), Inits) # {}
      /\ Of(q, Inits) = {} => Of(Tail(q), Inits) = {}
  <2>1. 1 \in Of(q, Inits) <=> Head(q).op \in Inits
    BY <1>1, <1>2, OfTail
  <2>2. /\ \A i \in Of(q, Inits) : i = 1 \/ i - 1 \in Of(Tail(q), Inits)
        /\ \A i \in Of(Tail(q), Inits) : i + 1 \in Of(q, Inits)
    BY <1>1, <1>2, OfTail
  <2> QED
    BY <2>1, <2>2
<1> HIDE DEF msg
<1>8. ASSUME Words(Tail(q), o) = {}
      PROVE  IF Of(Tail(q), Inits) = {} THEN Followed(v, o)' ELSE presence[o] = None
  <2>1. CASE Words(q, o) # {}
    <3>1. msg \in Tellings(o) /\ HasContainer(v) /\ Of(Tail(q), Inits) = {}
      BY <1>5, <1>6, <1>7, <1>8, <2>1 DEF msg
    <3>2. Followed(v, o)'
      BY <1>1, <3>1, LastWord
    <3> QED
      BY <3>1, <3>2
  <2>2. CASE Words(q, o) = {} /\ Of(q, Inits) = {}
    <3>1. /\ msg.op \in {"show", "hide", "replay"} => msg.of # o
          /\ msg.op # "init" /\ Followed(v, o) /\ Of(Tail(q), Inits) = {}
      BY <1>4, <1>6, <1>7, <2>2 DEF msg, Inits
    <3>2. Followed(v, o)'
      BY <1>1, <3>1, OtherWord
    <3> QED
      BY <3>1, <3>2
  <2>3. CASE Words(q, o) = {} /\ Of(q, Inits) # {}
    <3>1. presence[o] = None /\ pending[v] = {} /\ remote[v][o] = None
      BY <1>4, <1>5, <2>3
    <3>2. CASE msg.op = "init"
      <4>1. pending'[v] \subseteq {msg} /\ remote'[v] = remote[v]
        BY <1>1, <3>1, <3>2 DEF RunChanges, Keep
      <4>2. ~Polling(v, o)' /\ Shown(o)' = None
        BY <1>1, <3>1, <3>2, <4>1 DEF Polling, Shown
      <4>3. Followed(v, o)'
        BY <3>1, <4>1, <4>2 DEF Followed
      <4> QED
        BY <3>1, <4>3
    <3>3. CASE msg.op # "init"
      BY <1>7, <2>3, <3>1, <3>3 DEF msg, Inits
    <3> QED
      BY <3>2, <3>3
  <2> QED
    BY <2>1, <2>2, <2>3
<1>9. /\ EndsSaying(down'[v], o, Tellings(o)')
      /\ Words(down'[v], o) = {} =>
           IF Of(down'[v], Inits) = {} THEN Followed(v, o)' ELSE presence'[o] = None
  BY <1>1, <1>3, <1>6, <1>8
<1> QED
  BY <1>9 DEF Told, Inits

(* A replay that has polled shows what it was to show, or is given up.     *)
LEMMA ToldPending ==
  ASSUME Shape, SetUpOnce, NEW v \in Clients, NEW o \in Clients,
         RunPending(v) \/ StopPolling(v), page[v] = "open", Told(v, o)
  PROVE  Told(v, o)'
<1>1. /\ down' = down /\ UNCHANGED <<doc, presence>>
      /\ \E msg \in pending[v] : msg \in PendingMsg /\ (PendingChanges(v, msg) \/ StopChanges(v, msg))
  BY PendingEffect, StopEffect DEF server
<1>2. PICK msg \in pending[v] : msg \in PendingMsg /\ (PendingChanges(v, msg) \/ StopChanges(v, msg))
  BY <1>1
<1>3. Tellings(o)' = Tellings(o) /\ Shown(o)' = Shown(o)
  BY <1>1 DEF Tellings, Show, ShowAgain, Hide, Shown, Located, ByInterval, Interval
<1>4. HasContainer(v) /\ DOMAIN remote[v] = Clients
  BY <1>2 DEF SetUpOnce, SetUp, Shape, RemoteShape
<1>5. pending'[v] = pending[v] \ {msg}
  BY <1>2 DEF PendingChanges, StopChanges
<1>6. ASSUME Followed(v, o) PROVE Followed(v, o)'
  <2>1. CASE o \in missed[v]
    <3>1. o \in missed'[v]
      BY <1>2, <2>1 DEF PendingChanges, StopChanges
    <3> QED
      BY <3>1 DEF Followed
  <2>2. CASE msg.op = "replay" /\ msg.of = o /\ o \notin missed[v]
    <3>1. Polling(v, o)
      BY <2>2 DEF Polling
    <3>2. \A m \in pending[v] : m.op = "replay" /\ m.of = o => m.at = presence[o]
      BY <1>6, <2>2, <3>1 DEF Followed
    <3>3. CASE StopChanges(v, msg)
      BY <2>2, <3>3 DEF StopChanges, Followed
    <3>4. CASE PendingChanges(v, msg)
      <4>1. CASE Polling(v, o)'
        <5>1. \A m \in pending'[v] : m.op = "replay" /\ m.of = o => m.at = presence'[o]
          BY <1>1, <1>5, <3>2
        <5> QED
          BY <4>1, <5>1 DEF Followed
      <4>2. CASE ~Polling(v, o)'
        <5>1. msg.at = presence[o] /\ msg.at \in Ats
          BY <1>2, <2>2, <3>2, PendingFields
        <5>2. presence[o] # None
          BY <5>1, AtsAreOffsets DEF Shape
        <5>3. remote'[v] = [remote[v] EXCEPT ![o] = Located[doc][msg.at]]
          BY <1>4, <2>2, <3>4 DEF PendingChanges, Follow
        <5>4. remote'[v][o] = Shown(o)
          BY <1>4, <5>1, <5>2, <5>3 DEF Shown
        <5> QED
          BY <1>3, <4>2, <5>4 DEF Followed
      <4> QED
        BY <4>1, <4>2
    <3> QED
      BY <1>2, <3>3, <3>4
  <2>3. CASE ~(msg.op = "replay" /\ msg.of = o) /\ o \notin missed[v]
    <3>1. \A m : m.op = "replay" /\ m.of = o => (m \in pending'[v] <=> m \in pending[v])
      BY <1>5, <2>3
    <3>2. Polling(v, o)' <=> Polling(v, o)
      BY <3>1 DEF Polling
    <3>3. remote'[v][o] = remote[v][o]
      <4>1. CASE PendingChanges(v, msg) /\ msg.op = "replay"
        <5>1. \E range : remote'[v] = [remote[v] EXCEPT ![msg.of] = range]
          BY <4>1 DEF PendingChanges, Follow
        <5> QED
          BY <1>4, <2>3, <4>1, <5>1
      <4>2. CASE StopChanges(v, msg) \/ msg.op # "replay"
        BY <1>2, <4>2 DEF PendingChanges, StopChanges, Keep
      <4> QED
        BY <1>2, <4>1, <4>2
    <3> QED
      BY <1>1, <1>3, <1>6, <2>3, <3>1, <3>2, <3>3 DEF Followed
  <2> QED
    BY <2>1, <2>2, <2>3
<1>7. /\ EndsSaying(down'[v], o, Tellings(o)')
      /\ Words(down'[v], o) = {} =>
           IF Of(down'[v], Inits) = {} THEN Followed(v, o)' ELSE presence'[o] = None
  BY <1>1, <1>3, <1>6 DEF Told
<1> QED
  BY <1>7 DEF Told, Inits

(* A page is set up and the selections are replayed to it.                 *)
LEMMA SaysSetUp ==
  ASSUME NEW M, NEW q \in Seq(M), NEW m \in M, NEW r \in Seq(M), NEW o, NEW msgs,
         m.op = "init", Of(q, Inits) = {},
         \A i \in DOMAIN r : r[i].op = "replay" /\ (r[i].of = o => r[i] \in msgs)
  PROVE  /\ EndsSaying(q \o <<m>> \o r, o, msgs)
         /\ Of(q \o <<m>> \o r, Inits) # {}
         /\ (\E i \in DOMAIN r : r[i].of = o) => Words(q \o <<m>> \o r, o) # {}
<1> DEFINE s == q \o <<m>> \o r
           n == Len(q) + 1
<1>1. /\ Len(q) \in Nat /\ Len(r) \in Nat /\ DOMAIN r = 1 .. Len(r)
      /\ DOMAIN q = 1 .. Len(q)
      /\ DOMAIN s = 1 .. (n + Len(r))
      /\ s[n] = m
      /\ \A i \in 1 .. Len(q) : s[i] = q[i]
      /\ \A i \in 1 .. Len(r) : s[n + i] = r[i]
  OBVIOUS
<1> HIDE DEF s
<1>2. n \in Of(s, Inits)
  BY <1>1 DEF Of, Inits
<1>3. ASSUME NEW i \in 1 .. (n + Len(r)), i > n
      PROVE  i - n \in 1 .. Len(r) /\ s[i] = r[i - n]
  <2>1. i - n \in 1 .. Len(r) /\ n + (i - n) = i
    BY <1>1, <1>3
  <2> QED
    BY <1>1, <2>1
<1>4. ASSUME NEW i, Latest(Words(s, o), i) PROVE s[i] \in msgs
  <2>1. i \in 1 .. (n + Len(r)) /\ s[i].of = o /\ i > n
    BY <1>1, <1>2, <1>4 DEF Latest, Words, Of
  <2>2. i - n \in 1 .. Len(r) /\ s[i] = r[i - n]
    BY <1>3, <2>1
  <2> QED
    BY <1>1, <2>1, <2>2
<1>5. ASSUME NEW j \in Of(s, Inits) PROVE j <= n /\ j \in Int
  <2>1. j \in 1 .. (n + Len(r)) /\ s[j].op = "init"
    BY <1>1 DEF Of, Inits
  <2>2. ASSUME j > n PROVE FALSE
    <3>1. j - n \in 1 .. Len(r) /\ s[j] = r[j - n]
      BY <1>3, <2>1, <2>2
    <3>2. r[j - n].op = "replay"
      BY <1>1, <3>1
    <3> QED
      BY <2>1, <3>1, <3>2
  <2> QED
    BY <1>1, <2>1, <2>2
<1>6. ASSUME NEW i \in DOMAIN r, r[i].of = o PROVE n + i \in Words(s, o)
  <2>1. i \in 1 .. Len(r) /\ n \in Nat /\ r[i].op = "replay"
    BY <1>1, <1>6
  <2>2. n + i \in 1 .. (n + Len(r)) /\ n + i > n
    BY <1>1, <2>1
  <2>3. s[n + i] = r[i]
    BY <1>1, <2>1
  <2>4. \A j \in Of(s, Inits) : j < n + i
    BY <1>5, <2>1, <2>2
  <2> QED
    BY <1>1, <1>6, <2>1, <2>2, <2>3, <2>4 DEF Words, Of
<1> QED
  BY <1>2, <1>4, <1>6 DEF EndsSaying, s

LEMMA ToldSetUp ==
  ASSUME Shape, SetUpOnce, NEW v \in Clients, NEW o \in Clients, o # v, RenderPage(v)
  PROVE  Told(v, o)'
<1> DEFINE msg == [op |-> "init", hl |-> HighlightData]
<1>1. /\ page[v] = "loading" /\ UNCHANGED <<presence>>
      /\ down'[v] = down[v] \o <<msg>> \o Replay(v)
  BY DEF RenderPage, server, Shape, QueuesShape
<1>2. Of(down[v], Inits) = {} /\ down[v] \in Seq(DownMsg)
  BY <1>1 DEF SetUpOnce, SetUp, Shape, QueuesShape
<1>3. msg \in DownMsg /\ msg.op = "init"
  BY ScriptShapes, HighlightDataShape DEF Shape, ServerShape
<1> HIDE DEF msg
<1>4. Replay(v) \in Seq(DownMsg)
  BY ReplayTells
<1>5. \A i \in DOMAIN Replay(v) :
        Replay(v)[i].op = "replay" /\ (Replay(v)[i].of = o => Replay(v)[i] \in Tellings(o))
  BY ReplayTells DEF ShowAgain, Others, Tellings
<1>6. presence[o] # None => \E i \in DOMAIN Replay(v) : Replay(v)[i].of = o
  <2> SUFFICES ASSUME presence[o] # None
               PROVE  \E i \in DOMAIN Replay(v) : Replay(v)[i].of = o
    OBVIOUS
  <2>1. o \in Others(v)
    BY DEF Others, Shape, PagesShape
  <2>2. PICK i \in DOMAIN Replay(v) : Replay(v)[i] = ShowAgain(o, presence[o])
    BY <2>1, ReplayTells
  <2> QED
    BY <2>2 DEF ShowAgain
<1> DEFINE r == Replay(v)
           q == down[v]
           tell == Tellings(o)
<1>7. /\ q \in Seq(DownMsg) /\ r \in Seq(DownMsg) /\ Of(q, Inits) = {}
      /\ \A i \in DOMAIN r : r[i].op = "replay" /\ (r[i].of = o => r[i] \in tell)
  BY <1>2, <1>4, <1>5
<1> HIDE DEF r, q, tell
<1>8. /\ EndsSaying(q \o <<msg>> \o r, o, tell)
      /\ Of(q \o <<msg>> \o r, Inits) # {}
      /\ (\E i \in DOMAIN r : r[i].of = o) => Words(q \o <<msg>> \o r, o) # {}
  BY <1>3, <1>7, SaysSetUp
<1>9. /\ EndsSaying(down'[v], o, Tellings(o))
      /\ Of(down'[v], Inits) # {}
      /\ presence[o] # None => Words(down'[v], o) # {}
  BY <1>1, <1>6, <1>8 DEF q, r, tell
<1>10. Tellings(o)' = Tellings(o) /\ presence'[o] = presence[o]
  BY <1>1 DEF Tellings, Show, ShowAgain, Hide
<1> QED
  BY <1>9, <1>10 DEF Told, Inits

(* A client's selection changes and the others are told. *)
LEMMA ToldChange ==
  ASSUME Shape, NEW c \in Clients, NEW v \in Clients, NEW o \in Clients, o # v,
         page[v] = "open", Told(v, o), NEW msg \in DownMsg, msg \in Tellings(c)',
         msg.op # "init", doc' = doc, SameAt(v),
         \A d \in Clients \ {c} : presence'[d] = presence[d],
         down' = Send(down, Others(c), msg)
  PROVE  Told(v, o)'
<1>1. msg.of = c
  BY DEF Tellings, Show, ShowAgain, Hide
<1>2. down'[v] = IF v \in Others(c) THEN Append(down[v], msg) ELSE down[v]
  BY SentDown
<1>3. CASE o = c
  <2>1. v \in Others(c)
    BY <1>3 DEF Others, Shape, PagesShape
  <2> QED
    BY <1>2, <1>3, <2>1, TellingTells
<1>4. CASE o # c
  <2>1. presence'[o] = presence[o]
    BY <1>4
  <2>2. \/ down'[v] = down[v]
        \/ \E m \in DownMsg : /\ m.op # "init"
                              /\ (m.op \in {"show", "hide", "replay"} => m.of # o)
                              /\ down'[v] = Append(down[v], m)
    BY <1>1, <1>2, <1>4
  <2> QED
    BY <2>1, <2>2, OthersTold
<1> QED
  BY <1>3, <1>4

(* Pushes of highlights and removals change nothing of it. *)
LEMMA ToldPush ==
  ASSUME Shape, NEW v \in Clients, NEW o \in Clients, Told(v, o),
         doc' = doc, presence'[o] = presence[o], SameAt(v),
         NEW m \in DownMsg, m.op \in {"apply", "removeAllRanges"},
         down'[v] = down[v] \/ down'[v] = Append(down[v], m)
  PROVE  Told(v, o)'
<1>1. m.op # "init" /\ m.op \notin {"show", "hide", "replay"}
  OBVIOUS
<1> QED
  BY <1>1, OthersTold

LEMMA SendMaybe ==
  ASSUME Shape, NEW targets, NEW m \in DownMsg, down' = Send(down, targets, m),
         NEW v \in Clients
  PROVE  down'[v] = down[v] \/ down'[v] = Append(down[v], m)
<1>1. down'[v] = IF v \in targets THEN Append(down[v], m) ELSE down[v]
  BY SentDown
<1> QED
  BY <1>1

LEMMA PresenceStep ==
  ASSUME Shape, SetUpOnce, SetUpOnce', PresenceReaches,
         NEW c \in Clients, User(c) \/ System(c)
  PROVE  PresenceReaches'
<1> SUFFICES ASSUME NEW v \in Clients, NEW o \in Clients, page'[v] = "open", o # v
             PROVE  Told(v, o)'
  BY DEF PresenceReaches
<1>1. page[v] = "open" => Told(v, o)
  BY DEF PresenceReaches
<1>2. (v = c => ~OwnStep(c)) => SameAt(v) /\ doc' = doc
  BY Untouched
<1>3. CASE User(c)
  <2>1. UNCHANGED <<doc, page, presence, down>> /\ SameAt(v)
    BY <1>3 DEF User, SelectionChange, Collapse, MouseUp, Click, ClickSettles, PressTag,
       browser, scripts, server, SameAt
  <2> QED
    BY <1>1, <2>1, OthersTold
<1>4. CASE OpenPage(c)
  <2> DEFINE msg == [op |-> "apply", hl |-> HighlightData]
  <2>1. /\ page' = [page EXCEPT ![c] = "loading"] /\ down' = Send(down, present, msg)
        /\ UNCHANGED <<doc, presence>>
    BY <1>4 DEF OpenPage
  <2>2. page[v] = "open" /\ page[c] = "away"
    BY <1>4, <2>1 DEF Shape, PagesShape, OpenPage
  <2>3. SameAt(v)
    BY <1>4, <2>2 DEF OpenPage, SameAt, Shape, BrowserShape
  <2>4. msg \in DownMsg /\ msg.op \in {"apply", "removeAllRanges"}
    BY ScriptShapes, HighlightDataShape DEF Shape, ServerShape
  <2> HIDE DEF msg
  <2>5. down'[v] = down[v] \/ down'[v] = Append(down[v], msg)
    BY <2>1, <2>4, SendMaybe
  <2> QED
    BY <1>1, <2>1, <2>2, <2>3, <2>4, <2>5, ToldPush
<1>5. CASE RenderPage(c)
  <2>1. CASE v = c
    BY <1>5, <2>1, ToldSetUp
  <2>2. CASE v # c
    <3>1. /\ page[v] = "open" /\ down'[v] = down[v]
          /\ UNCHANGED <<doc, presence>>
      BY <1>5, <2>2 DEF RenderPage, server, Shape, PagesShape, QueuesShape
    <3> QED
      BY <1>1, <1>2, <2>2, <3>1, OthersTold
  <2> QED
    BY <2>1, <2>2
<1>6. CASE DeleteClient(c)
  <2>1. /\ page' = [page EXCEPT ![c] = "gone"] /\ presence' = [presence EXCEPT ![c] = None]
        /\ down' = Send(down, Others(c), Hide(c)) /\ doc' = doc /\ SameAt(v)
    BY <1>6 DEF DeleteClient, browser, scripts, SameAt
  <2>2. page[v] = "open"
    BY <2>1 DEF Shape, PagesShape
  <2>3. presence'[c] = None /\ \A d \in Clients \ {c} : presence'[d] = presence[d]
    BY <2>1 DEF Shape, ServerShape
  <2>4. Hide(c) \in Tellings(c)' /\ Hide(c) \in DownMsg /\ Hide(c).op # "init"
    BY <2>3, ScriptShapes DEF Tellings, Hide
  <2> QED
    BY <1>1, <2>1, <2>2, <2>3, <2>4, ToldChange
<1>7. CASE RunScript(c) \/ LoadFunctions(c) \/ RunPending(c) \/ StopPolling(c)
  <2>1. page' = page /\ UNCHANGED <<doc, presence>>
    BY <1>7, RunEffect, LoadEffect, PendingEffect, StopEffect DEF server
  <2>2. CASE v = c /\ ~LoadFunctions(c)
    BY <1>1, <1>7, <2>1, <2>2, ToldScript, ToldPending
  <2>3. CASE v # c \/ LoadFunctions(c)
    <3>1. SameAt(v)
      <4>1. CASE v # c
        BY <1>2, <4>1
      <4>2. CASE LoadFunctions(c)
        <5>1. Local(c) /\ functions'[c] = TRUE
              /\ UNCHANGED <<pending, ready, drawn, remote, behind, missed>>
          BY <4>2, LoadEffect
        <5> QED
          BY <5>1 DEF SameAt, Local
      <4> QED
        BY <2>3, <4>1, <4>2
    <3>2. down'[v] = down[v]
      <4>1. CASE LoadFunctions(c) \/ RunPending(c) \/ StopPolling(c)
        BY <4>1, LoadEffect, PendingEffect, StopEffect
      <4>2. CASE RunScript(c) /\ v # c
        <5>1. down' = [down EXCEPT ![c] = Tail(down[c])]
          BY <4>2, RunEffect
        <5> QED
          BY <4>2, <5>1 DEF Shape, QueuesShape
      <4> QED
        BY <1>7, <2>3, <4>1, <4>2
    <3> QED
      BY <1>1, <2>1, <3>1, <3>2, OthersTold
  <2> QED
    BY <2>2, <2>3
<1>8. CASE HandleEvent(c)
  <2> DEFINE msg == Head(up[c])
  <2>1. /\ msg \in UpMsg /\ page' = page
        /\ doc' = doc /\ SameAt(v)
        /\ \/ msg.op = "selection_made" /\ HandleSelection(c, msg)
           \/ msg.op = "selection_cleared" /\ HandleSelectionCleared(c)
           \/ msg.op = "keydown" /\ AddHighlight(c)
    BY <1>8, HandleEffect DEF browser, scripts, SameAt
  <2>2. msg.op = "selection_made" => msg.at \in Ats /\ msg.at # None
    BY <2>1, UpFields, AtsAreOffsets DEF Shape
  <2> HIDE DEF msg
  <2>3. CASE msg.op = "selection_made" /\ HandleSelection(c, msg)
    <3>1. /\ presence' = [presence EXCEPT ![c] = msg.at]
          /\ down' = Send(down, Others(c), Show(c, msg.at))
      BY <2>3 DEF HandleSelection
    <3>2. presence'[c] = msg.at /\ \A d \in Clients \ {c} : presence'[d] = presence[d]
      BY <3>1 DEF Shape, ServerShape
    <3>3. /\ Show(c, msg.at) \in Tellings(c)' /\ Show(c, msg.at) \in DownMsg
          /\ Show(c, msg.at).op # "init"
      BY <2>2, <2>3, <3>2, ScriptShapes DEF Tellings, Show
    <3> QED
      BY <1>1, <2>1, <3>1, <3>2, <3>3, ToldChange
  <2>4. CASE HandleSelectionCleared(c)
    <3>1. /\ presence' = [presence EXCEPT ![c] = None]
          /\ down' = Send(down, Others(c), Hide(c))
      BY <2>4 DEF HandleSelectionCleared
    <3>2. presence'[c] = None /\ \A d \in Clients \ {c} : presence'[d] = presence[d]
      BY <3>1 DEF Shape, ServerShape
    <3>3. Hide(c) \in Tellings(c)' /\ Hide(c) \in DownMsg /\ Hide(c).op # "init"
      BY <3>2, ScriptShapes DEF Tellings, Hide
    <3> QED
      BY <1>1, <2>1, <3>1, <3>2, <3>3, ToldChange
  <2>5. CASE AddHighlight(c)
    <3>1. UNCHANGED <<presence, down>>
      BY <2>5 DEF AddHighlight
    <3> QED
      BY <1>1, <2>1, <3>1, OthersTold
  <2> QED
    BY <2>1, <2>3, <2>4, <2>5
<1>9. CASE HighlightPersisted(c)
  <2> DEFINE msg == [op |-> "apply", hl |-> HighlightData]
  <2>1. /\ down' = Send(down, {c} \intersect present, msg)
        /\ msg \in DownMsg /\ msg.op \in {"apply", "removeAllRanges"}
        /\ page' = page /\ UNCHANGED <<doc, presence>> /\ SameAt(v)
    BY <1>9, PersistedEffect DEF browser, scripts, SameAt
  <2> HIDE DEF msg
  <2>2. down'[v] = down[v] \/ down'[v] = Append(down[v], msg)
    BY <2>1, SendMaybe
  <2> QED
    BY <1>1, <2>1, <2>2, ToldPush
<1>10. CASE HighlightBroadcast(c)
  <2> DEFINE msg == [op |-> "apply", hl |-> HighlightData]
             drop == [op |-> "removeAllRanges"]
  <2>1. /\ msg \in DownMsg /\ drop \in DownMsg
        /\ v # c => down'[v] = IF v \in present THEN Append(down[v], msg) ELSE down[v]
        /\ down'[c] = IF c \in present THEN Append(down[c], drop) ELSE down[c]
        /\ page' = page /\ UNCHANGED <<doc, presence>> /\ SameAt(v)
    BY <1>10, BroadcastEffect DEF browser, scripts, SameAt
  <2>2. msg.op \in {"apply", "removeAllRanges"} /\ drop.op \in {"apply", "removeAllRanges"}
    OBVIOUS
  <2> HIDE DEF msg, drop
  <2>3. CASE v = c
    BY <1>1, <2>1, <2>2, <2>3, ToldPush
  <2>4. CASE v # c
    BY <1>1, <2>1, <2>2, <2>4, ToldPush
  <2> QED
    BY <2>3, <2>4
<1> QED
  BY <1>3, <1>4, <1>5, <1>6, <1>7, <1>8, <1>9, <1>10 DEF System

-----------------------------------------------------------------------------
(***************************************************************************)
(* The selection on the screen is the one the page has                     *)
(***************************************************************************)

(* The report of the selection on the screen. *)
Current(c) == [op : Made, at : {Reported[doc][live[c]]}, id : 1..MaxEmits]

(* The last change on its way is that report, and if there is none the     *)
(* page has it.                                                            *)
Known(c) ==
  /\ EndsWith(up[c], Changes, Current(c))
  /\ Of(up[c], Changes) = {} =>
       selection[c] # None /\ selection[c].at = Reported[doc][live[c]]

(* There is a proper selection whose report has been sent. *)
Standing(c) ==
  page[c] = "open" /\ live[c] # None /\ stored[c] = None /\ Reported[doc][live[c]] # None

LiveReaches ==
  \A c \in Clients :
    /\ page[c] \in {"away", "loading"} => live[c] = None
    /\ Standing(c) => Of(down[c], Removals) # {} \/ Known(c)

LEMMA LiveInit == Init => LiveReaches
BY DEF Init, LiveReaches, Standing

(* Where nothing changes the selection, what is on its way about it stays. *)
LEMMA LiveQuiet ==
  ASSUME Shape, LiveReaches, NEW d \in Clients,
         doc' = doc, live'[d] = live[d], stored'[d] = stored[d], selection'[d] = selection[d],
         page'[d] = "open" => page[d] = "open",
         page'[d] \in {"away", "loading"} => page[d] \in {"away", "loading"},
         \/ up'[d] = up[d]
         \/ \E m \in UpMsg : m.op \notin Changes /\ up'[d] = Append(up[d], m)
         \/ page'[d] # "open",
         Of(down[d], Removals) # {} => Of(down'[d], Removals) # {}
  PROVE  /\ page'[d] \in {"away", "loading"} => live'[d] = None
         /\ Standing(d)' => Of(down'[d], Removals) # {} \/ Known(d)'
<1>1. page'[d] \in {"away", "loading"} => live'[d] = None
  BY DEF LiveReaches
<1>2. ASSUME Standing(d)' PROVE Of(down'[d], Removals) # {} \/ Known(d)'
  <2>1. Reported' = Reported
    BY DEF Reported, ByDrag
  <2>2. Standing(d) /\ page'[d] = "open"
    BY <1>2, <2>1 DEF Standing
  <2>3. CASE Of(down[d], Removals) # {}
    BY <2>3
  <2>4. CASE Known(d)
    <3>1. /\ EndsWith(up[d], Changes, Current(d))
          /\ Of(up[d], Changes) = {} =>
               selection[d] # None /\ selection[d].at = Reported[doc][live[d]]
      BY <2>4 DEF Known
    <3>2. EndsWith(up'[d], Changes, Current(d)) /\ Of(up'[d], Changes) = Of(up[d], Changes)
      <4>1. CASE up'[d] = up[d]
        BY <3>1, <4>1
      <4>2. CASE \E m \in UpMsg : m.op \notin Changes /\ up'[d] = Append(up[d], m)
        <5>1. PICK m \in UpMsg : m.op \notin Changes /\ up'[d] = Append(up[d], m)
          BY <4>2
        <5>2. up[d] \in Seq(UpMsg)
          BY DEF Shape, QueuesShape
        <5>3. EndsWith(Append(up[d], m), Changes, Current(d))
              /\ Of(Append(up[d], m), Changes) = Of(up[d], Changes)
          BY <3>1, <5>1, <5>2, EndsAppendOther
        <5> QED
          BY <5>1, <5>3
      <4> QED
        BY <2>2, <4>1, <4>2
    <3>3. Current(d)' = Current(d)
      BY <2>1 DEF Current, Made
    <3>4. /\ EndsWith(up'[d], Changes, Current(d)')
          /\ Of(up'[d], Changes) = {} =>
               selection'[d] # None /\ selection'[d].at = Reported'[doc'][live'[d]]
      BY <2>1, <3>1, <3>2, <3>3
    <3> QED
      BY <3>4 DEF Known, Changes
  <2> QED
    BY <2>2, <2>3, <2>4 DEF LiveReaches
<1> QED
  BY <1>1, <1>2

LEMMA LiveQuietAll ==
  ASSUME Shape, LiveReaches, doc' = doc,
         \A d \in Clients :
           /\ live'[d] = live[d] /\ stored'[d] = stored[d] /\ selection'[d] = selection[d]
           /\ page'[d] = "open" => page[d] = "open"
           /\ page'[d] \in {"away", "loading"} => page[d] \in {"away", "loading"}
           /\ \/ up'[d] = up[d]
              \/ \E m \in UpMsg : m.op \notin Changes /\ up'[d] = Append(up[d], m)
              \/ page'[d] # "open"
           /\ Of(down[d], Removals) # {} => Of(down'[d], Removals) # {}
  PROVE  LiveReaches'
BY LiveQuiet DEF LiveReaches, Removals

(* The user selects, releases the mouse button, clicks and presses tags.   *)
LEMMA LiveUser ==
  ASSUME Shape, LiveReaches, NEW c \in Clients, User(c)
  PROVE  LiveReaches'
<1> SUFFICES ASSUME NEW d \in Clients
             PROVE  /\ page'[d] \in {"away", "loading"} => live'[d] = None
                    /\ Standing(d)' => Of(down'[d], Removals) # {} \/ Known(d)'
  BY DEF LiveReaches, Removals
<1>1. UNCHANGED <<doc, page, down, selection>> /\ page[c] = "open"
  BY DEF User, SelectionChange, Collapse, MouseUp, Click, ClickSettles, PressTag, browser, server
<1>2. /\ live \in [Clients -> Documents[doc].drags \union {None}] /\ live[c] = live[c]
      /\ stored \in [Clients -> Documents[doc].drags \union {None}]
      /\ up \in [Clients -> Seq(UpMsg)] /\ page \in [Clients -> {"away", "loading", "open", "gone"}]
  BY DEF Shape, BrowserShape, QueuesShape, PagesShape
<1>3. CASE d # c
  <2>1. live'[d] = live[d] /\ stored'[d] = stored[d]
    BY <1>2, <1>3 DEF User, SelectionChange, Collapse, MouseUp, Click, ClickSettles, PressTag,
       browser
  <2>2. up'[d] = up[d]
    <3>1. CASE up' = up
      BY <3>1
    <3>2. CASE \E m : up' = Send(up, {c}, m)
      BY <1>2, <1>3, <3>2 DEF Send
    <3> QED
      BY <3>1, <3>2 DEF User, SelectionChange, Collapse, MouseUp, Click, ClickSettles, PressTag
  <2> QED
    BY <1>1, <2>1, <2>2, LiveQuiet
<1>4. CASE d = c /\ (\E r \in Documents[doc].drags : SelectionChange(c, r))
  <2>1. stored'[c] # None
    BY <1>2, <1>4, SelectionAssumption DEF SelectionChange, Shape
  <2> QED
    BY <1>1, <1>4, <2>1 DEF Standing
<1>5. CASE d = c /\ Collapse(c)
  <2>1. live'[c] = None
    BY <1>2, <1>5 DEF Collapse
  <2> QED
    BY <1>5, <2>1 DEF Standing
<1>6. CASE d = c /\ MouseUp(c)
  <2>1. live' = live /\ page'[c] = "open"
    BY <1>1, <1>6 DEF MouseUp
  <2> SUFFICES ASSUME Standing(c)' PROVE Known(c)'
    BY <1>6, <2>1
  <2>2. Reported' = Reported
    BY <1>1 DEF Reported, ByDrag
  <2>3. live[c] # None /\ Reported[doc][live[c]] # None
    BY <1>1, <2>1, <2>2 DEF Standing
  <2>4. RangeAt(c) = live[c]
    BY <2>3 DEF RangeAt
  <2> DEFINE msg == [op |-> "selection_made", at |-> Reported[doc][live[c]],
                     id |-> Len(emitted) + 1]
  <2>5. up' = Send(up, {c}, msg) /\ Len(emitted) < MaxEmits
    BY <1>6, <2>3, <2>4 DEF MouseUp
  <2>6. Len(emitted) + 1 \in 1 .. MaxEmits
    BY <2>5, SelectionAssumption DEF Shape, QueuesShape
  <2>7. Reported[doc][live[c]] \in Ats
    BY <1>2, <2>3, AtsAreOffsets DEF Shape
  <2>8. msg \in UpMsg /\ msg.op \in Changes /\ msg \in Current(c)
    BY <2>6, <2>7 DEF UpMsg, Changes, Current, Made
  <2> HIDE DEF msg
  <2>9. up'[c] = Append(up[c], msg)
    BY <2>5 DEF Send
  <2>10. EndsWith(Append(up[c], msg), Changes, Current(c)) /\ Of(Append(up[c], msg), Changes) # {}
    BY <1>2, <2>8, EndsAppend
  <2>11. Current(c)' = Current(c)
    BY <1>1, <2>1, <2>2 DEF Current, Made
  <2>12. EndsWith(up'[c], Changes, Current(c)') /\ Of(up'[c], Changes) # {}
    BY <2>9, <2>10, <2>11
  <2> QED
    BY <2>12 DEF Known, Changes
<1>7. CASE d = c /\ (Click(c) \/ PressTag(c))
  <2>1. live' = live /\ stored' = stored
    BY <1>7 DEF Click, PressTag, browser
  <2>2. \/ up'[d] = up[d]
        \/ \E m \in UpMsg : m.op \notin Changes /\ up'[d] = Append(up[d], m)
    <3>1. [op |-> "keydown"] \in UpMsg /\ [op |-> "keydown"].op \notin Changes
      BY DEF UpMsg, Changes
    <3> QED
      BY <1>7, <3>1 DEF Click, PressTag, Send
  <2> QED
    BY <1>1, <2>1, <2>2, LiveQuiet
<1>8. CASE d = c /\ ClickSettles(c)
  <2>1. live' = live /\ stored' = stored
    BY <1>8 DEF ClickSettles
  <2>2. CASE live[c] = None
    BY <1>1, <1>8, <2>1, <2>2 DEF Standing
  <2>3. CASE live[c] # None
    <3>1. up' = up
      BY <1>8, <2>3 DEF ClickSettles
    <3> QED
      BY <1>1, <2>1, <3>1, LiveQuiet
  <2> QED
    BY <2>2, <2>3
<1> QED
  BY <1>3, <1>4, <1>5, <1>6, <1>7, <1>8 DEF User

(* The steps of the system. *)
LEMMA LiveRender ==
  ASSUME Shape, LiveReaches, NEW c \in Clients, RenderPage(c)
  PROVE  LiveReaches'
<1> SUFFICES ASSUME NEW d \in Clients
             PROVE  /\ page'[d] \in {"away", "loading"} => live'[d] = None
                    /\ Standing(d)' => Of(down'[d], Removals) # {} \/ Known(d)'
  BY DEF LiveReaches, Removals
<1>1. /\ page[c] = "loading" /\ page' = [page EXCEPT ![c] = "open"]
      /\ \A e \in Clients \ {c} : down'[e] = down[e]
      /\ UNCHANGED <<doc, live, stored, up, selection>>
  BY DEF RenderPage, browser, server, Shape, QueuesShape
<1>2. CASE d = c
  <2>1. page'[d] = "open" /\ live'[d] = None
    BY <1>1, <1>2 DEF LiveReaches, Shape, PagesShape
  <2> QED
    BY <2>1 DEF Standing
<1>3. CASE d # c
  <2>1. page'[d] = page[d] /\ down'[d] = down[d]
    BY <1>1, <1>3 DEF Shape, PagesShape
  <2> QED
    BY <1>1, <2>1, LiveQuiet
<1> QED
  BY <1>2, <1>3

LEMMA LiveScript ==
  ASSUME Shape, LiveReaches, NEW c \in Clients, RunScript(c)
  PROVE  LiveReaches'
<1> SUFFICES ASSUME NEW d \in Clients
             PROVE  /\ page'[d] \in {"away", "loading"} => live'[d] = None
                    /\ Standing(d)' => Of(down'[d], Removals) # {} \/ Known(d)'
  BY DEF LiveReaches, Removals
<1> DEFINE msg == Head(down[c])
<1>1. /\ down[c] # <<>> /\ down' = [down EXCEPT ![c] = Tail(down[c])]
      /\ UNCHANGED <<doc, page, stored, up, selection>>
      /\ live' = IF msg.op = "removeAllRanges" THEN [live EXCEPT ![c] = None] ELSE live
  BY RunEffect DEF server, RunChanges
<1>2. down \in [Clients -> Seq(DownMsg)] /\ DOMAIN live = Clients
  BY DEF Shape, QueuesShape, BrowserShape
<1> HIDE DEF msg
<1>3. CASE d # c
  <2>1. live'[d] = live[d] /\ down'[d] = down[d]
    BY <1>1, <1>2, <1>3
  <2> QED
    BY <1>1, <2>1, LiveQuiet
<1>4. CASE d = c /\ msg.op = "removeAllRanges"
  <2>1. live'[d] = None
    BY <1>1, <1>2, <1>4
  <2> QED
    BY <2>1 DEF Standing
<1>5. CASE d = c /\ msg.op # "removeAllRanges"
  <2>1. live' = live
    BY <1>1, <1>5
  <2>2. Of(down[d], Removals) # {} => Of(down'[d], Removals) # {}
    <3> DEFINE q == down[c]
    <3>1. q \in Seq(DownMsg) /\ q # <<>> /\ down'[d] = Tail(q) /\ Head(q).op \notin Removals
      BY <1>1, <1>2, <1>5 DEF msg, Removals
    <3> HIDE DEF q
    <3>2. Head(q).op \notin Removals /\ Of(q, Removals) # {} => Of(Tail(q), Removals) # {}
      BY <3>1, EndsTail
    <3> QED
      BY <1>5, <3>1, <3>2 DEF q
  <2> QED
    BY <1>1, <2>1, <2>2, LiveQuiet
<1> QED
  BY <1>3, <1>4, <1>5

LEMMA LiveEvent ==
  ASSUME Shape, LiveReaches, NEW c \in Clients, HandleEvent(c),
         \A v \in Clients : Of(down[v], Removals) # {} => Of(down'[v], Removals) # {}
  PROVE  LiveReaches'
<1> SUFFICES ASSUME NEW d \in Clients
             PROVE  /\ page'[d] \in {"away", "loading"} => live'[d] = None
                    /\ Standing(d)' => Of(down'[d], Removals) # {} \/ Known(d)'
  BY DEF LiveReaches, Removals
<1> DEFINE msg == Head(up[c])
<1>1. /\ up[c] # <<>> /\ up' = [up EXCEPT ![c] = Tail(up[c])] /\ page[c] = "open"
      /\ UNCHANGED <<doc, page, live, stored>>
      /\ \/ msg.op = "selection_made" /\ HandleSelection(c, msg)
         \/ msg.op = "selection_cleared" /\ HandleSelectionCleared(c)
         \/ msg.op = "keydown" /\ AddHighlight(c)
  BY HandleEffect DEF browser
<1>2. up \in [Clients -> Seq(UpMsg)] /\ DOMAIN selection = Clients
      /\ (msg \in UpMsg)
  BY HandleEffect DEF Shape, QueuesShape, ServerShape
<1>3. CASE d # c
  <2> HIDE DEF msg
  <2>1. selection'[d] = selection[d] /\ up'[d] = up[d]
    BY <1>1, <1>2, <1>3 DEF HandleSelection, HandleSelectionCleared, AddHighlight
  <2> QED
    BY <1>1, <2>1, LiveQuiet
<1>4. CASE d = c
  <2>1. Reported' = Reported
    BY <1>1 DEF Reported, ByDrag
  <2> SUFFICES ASSUME Standing(c)', Of(down[c], Removals) = {} PROVE Known(c)'
    BY <1>1, <1>4
  <2>2. Standing(c)
    BY <1>1, <2>1 DEF Standing
  <2>3. Known(c)
    BY <2>2 DEF LiveReaches
  <2> DEFINE q == up[c]
             at == Reported[doc][live[c]]
  <2>4. /\ EndsWith(q, Changes, Current(c))
        /\ Of(q, Changes) = {} => selection[c] # None /\ selection[c].at = at
    BY <2>3 DEF Known
  <2>5. q \in Seq(UpMsg) /\ q # <<>> /\ up'[c] = Tail(q) /\ msg = Head(q)
    BY <1>1, <1>2
  <2>6. Current(c)' = Current(c) /\ at' = at
    BY <1>1, <2>1 DEF Current, Made
  <2> HIDE DEF q, msg, at
  <2>7. /\ EndsWith(Tail(q), Changes, Current(c))
        /\ Of(Tail(q), Changes) = {} /\ Of(q, Changes) # {} => Head(q) \in Current(c)
        /\ Of(q, Changes) = {} => Head(q).op \notin Changes
        /\ Head(q).op \notin Changes /\ Of(q, Changes) # {} => Of(Tail(q), Changes) # {}
    BY <2>4, <2>5, EndsTail
  <2>8. ASSUME Of(Tail(q), Changes) = {}
        PROVE  selection'[c] # None /\ selection'[c].at = at
    <3>1. CASE Of(q, Changes) # {}
      <4>1. msg \in Current(c)
        BY <2>5, <2>7, <2>8, <3>1
      <4>2. msg.op = "selection_made" /\ msg.at = at
        BY <4>1 DEF Current, Made, at
      <4>3. HandleSelection(c, msg)
        BY <1>1, <4>2
      <4>4. selection'[c] = [at |-> msg.at, id |-> msg.id]
        BY <1>2, <4>3 DEF HandleSelection
      <4>5. selection'[c] \in Selected
        <5>1. msg.at \in Ats /\ msg.id \in 1 .. MaxEmits
          BY <1>2, <4>2, UpFields
        <5> QED
          BY <4>4, <5>1 DEF Selected
      <4>6. selection'[c] # None
        <5>1. doc \in DOMAIN Documents
          BY DEF Shape
        <5>2. Selected \subseteq Reports
          BY <5>1 DEF Selected, Reports, Ats
        <5> QED
          BY <4>5, <5>2, ReportsAssumption
      <4> QED
        BY <4>2, <4>4, <4>6
    <3>2. CASE Of(q, Changes) = {}
      <4>1. msg.op \notin Changes
        BY <2>5, <2>7, <3>2
      <4>2. AddHighlight(c)
        BY <1>1, <4>1 DEF Changes
      <4>3. selection' = selection
        BY <4>2 DEF AddHighlight
      <4> QED
        BY <2>4, <3>2, <4>3
    <3> QED
      BY <3>1, <3>2
  <2>9. /\ EndsWith(up'[c], Changes, Current(c)')
        /\ Of(up'[c], Changes) = {} => selection'[c] # None /\ selection'[c].at = at'
    BY <2>5, <2>6, <2>7, <2>8
  <2> QED
    BY <2>9 DEF Known, Changes, at
<1> QED
  BY <1>3, <1>4

LEMMA LiveBroadcast ==
  ASSUME Shape, LiveReaches, NEW c \in Clients, HighlightBroadcast(c),
         \A v \in Clients : Of(down[v], Removals) # {} => Of(down'[v], Removals) # {}
  PROVE  LiveReaches'
<1> SUFFICES ASSUME NEW d \in Clients
             PROVE  /\ page'[d] \in {"away", "loading"} => live'[d] = None
                    /\ Standing(d)' => Of(down'[d], Removals) # {} \/ Known(d)'
  BY DEF LiveReaches, Removals
<1> DEFINE drop == [op |-> "removeAllRanges"]
<1>1. /\ selection' = [selection EXCEPT ![c] = None] /\ drop \in DownMsg
      /\ down'[c] = IF c \in present THEN Append(down[c], drop) ELSE down[c]
      /\ UNCHANGED <<doc, page, live, stored, up>>
  BY BroadcastEffect DEF browser
<1>2. CASE d # c
  <2>1. selection'[d] = selection[d]
    BY <1>1, <1>2 DEF Shape, ServerShape
  <2> QED
    BY <1>1, <2>1, LiveQuiet
<1>3. CASE d = c
  <2>1. drop.op \in Removals
    BY DEF Removals
  <2>2. down[c] \in Seq(DownMsg)
    BY DEF Shape, QueuesShape
  <2> HIDE DEF drop
  <2>3. Of(Append(down[c], drop), Removals) # {}
    BY <1>1, <2>1, <2>2, EndsAppend
  <2>4. page[c] = "open" => c \in present
    BY DEF Shape, PagesShape
  <2>5. page'[c] \in {"away", "loading"} => live'[c] = None
    BY <1>1 DEF LiveReaches
  <2> QED
    BY <1>1, <1>3, <2>3, <2>4, <2>5 DEF Standing
<1> QED
  BY <1>2, <1>3

LEMMA LiveStep ==
  ASSUME Shape, LiveReaches, NEW c \in Clients, User(c) \/ System(c)
  PROVE  LiveReaches'
<1>1. CASE User(c)
  BY <1>1, LiveUser
<1>2. CASE RenderPage(c)
  BY <1>2, LiveRender
<1>3. CASE RunScript(c)
  BY <1>3, LiveScript
<1>4. CASE RunPending(c) \/ StopPolling(c)
  <2>1. UNCHANGED <<doc, page, live, stored, up, down, selection>>
    BY <1>4, PendingEffect, StopEffect DEF server
  <2> QED
    BY <2>1, LiveQuietAll
<1>5. CASE ~User(c) /\ ~OwnStep(c)
  <2>1. \A v \in Clients : Of(down[v], Removals) # {} => Of(down'[v], Removals) # {}
    BY <1>5, QueueGrows, GrowsRemovals
  <2>2. CASE HandleEvent(c)
    BY <2>1, <2>2, LiveEvent
  <2>3. CASE HighlightBroadcast(c)
    BY <2>1, <2>3, LiveBroadcast
  <2>4. CASE OpenPage(c)
    <3>1. /\ page[c] = "away" /\ page' = [page EXCEPT ![c] = "loading"]
          /\ UNCHANGED <<doc, live, stored, up, selection>>
      BY <2>4 DEF OpenPage, browser
    <3>2. ASSUME NEW d \in Clients
          PROVE  /\ page'[d] = "open" => page[d] = "open"
                 /\ page'[d] \in {"away", "loading"} => page[d] \in {"away", "loading"}
      BY <3>1 DEF Shape, PagesShape
    <3> QED
      BY <2>1, <3>1, <3>2, LiveQuietAll
  <2>5. CASE DeleteClient(c)
    <3>1. /\ page' = [page EXCEPT ![c] = "gone"] /\ up' = [up EXCEPT ![c] = <<>>]
          /\ UNCHANGED <<doc, live, stored, selection>>
      BY <2>5 DEF DeleteClient, browser
    <3>2. ASSUME NEW d \in Clients
          PROVE  /\ page'[d] = "open" => page[d] = "open"
                 /\ page'[d] \in {"away", "loading"} => page[d] \in {"away", "loading"}
                 /\ up'[d] = up[d] \/ page'[d] # "open"
      BY <3>1 DEF Shape, PagesShape, QueuesShape
    <3> QED
      BY <2>1, <3>1, <3>2, LiveQuietAll
  <2>6. CASE HighlightPersisted(c)
    <3>1. UNCHANGED <<doc, page, live, stored, up, selection>>
      BY <2>6, PersistedEffect DEF browser
    <3> QED
      BY <2>1, <3>1, LiveQuietAll
  <2>7. CASE LoadFunctions(c)
    <3>1. UNCHANGED <<doc, page, live, stored, up, down, selection>>
      BY <2>7, LoadEffect DEF server
    <3> QED
      BY <3>1, LiveQuietAll
  <2> QED
    BY <1>5, <2>2, <2>3, <2>4, <2>5, <2>6, <2>7 DEF System, OwnStep
<1> QED
  BY <1>1, <1>2, <1>3, <1>4, <1>5 DEF OwnStep

-----------------------------------------------------------------------------
(***************************************************************************)
(* The theorems                                                            *)
(***************************************************************************)

Inv ==
  /\ Shape /\ ReportedOnce /\ SetUpOnce
  /\ DrawingReaches /\ NothingStrange /\ PresenceReaches /\ LiveReaches

LEMMA InvInit == Init => Inv
BY ShapeInit, ReportedInit, SetUpInit, DrawingInit, FormerInit, PresenceInit, LiveInit DEF Inv

LEMMA InvStep == Inv /\ [Next]_vars => Inv'
<1> SUFFICES ASSUME Inv, [Next]_vars PROVE Inv'
  OBVIOUS
<1>1. Shape' /\ ReportedOnce'
  BY ShapeStep, ReportedStep DEF Inv
<1>2. CASE UNCHANGED vars
  <2>1. UNCHANGED <<doc, page, live, stored, up, down, functions, pending, ready, drawn, remote,
                    behind, missed, selection, adding, presence, highlights>>
    BY <1>2 DEF vars, browser, scripts, server
  <2>2. \A v \in Clients : SameAt(v)
    BY <2>1 DEF SameAt
  <2>3. SetUpOnce'
    BY <2>1 DEF Inv, SetUpOnce, SetUp, HasContainer, InitPending, Inits, Replays, Of
  <2>4. ASSUME NEW v \in Clients, Drawn(v) PROVE Drawn(v)'
    BY <2>1, <2>2, <2>4, OtherDraws DEF Inv
  <2>5. DrawingReaches'
    BY <2>1, <2>4, StillOwed DEF Inv, DrawingReaches
  <2>6. NothingStrange'
    BY <2>1, SameHighlights DEF Inv, NothingStrange, Former, Of, Draws
  <2>7. PresenceReaches'
    BY <2>1, <2>2, OthersTold DEF Inv, PresenceReaches
  <2>8. LiveReaches'
    BY <2>1, LiveQuietAll DEF Inv
  <2> QED
    BY <1>1, <2>3, <2>5, <2>6, <2>7, <2>8 DEF Inv
<1>3. CASE \E c \in Clients : User(c) \/ System(c)
  <2>1. PICK c \in Clients : User(c) \/ System(c)
    BY <1>3
  <2>2. SetUpOnce'
    BY <2>1, SetUpStep DEF Inv
  <2>3. DrawingReaches'
    BY <2>1, <2>2, DrawingStep DEF Inv
  <2>4. PresenceReaches'
    BY <2>1, <2>2, PresenceStep DEF Inv
  <2>5. LiveReaches'
    BY <2>1, LiveStep DEF Inv
  <2>6. NothingStrange'
    BY <2>1, FormerStep DEF Inv
  <2> QED
    BY <1>1, <2>2, <2>3, <2>4, <2>5, <2>6 DEF Inv
<1> QED
  BY <1>2, <1>3 DEF Next

LEMMA Invariance == Spec => []Inv
<1>1. Init => Inv
  BY InvInit
<1>2. Inv /\ [Next]_vars => Inv'
  BY InvStep
<1> QED
  BY <1>1, <1>2, PTL DEF Spec

(* The types hold, only clients in the presence registry have a selection  *)
(* there, and a browser keeps a style element for exactly the remote       *)
(* selections it shows.                                                    *)
THEOREM TypeCorrect == Spec => []TypeOK
<1>1. Inv => TypeOK
  <2> SUFFICES ASSUME Inv PROVE TypeOK
    OBVIOUS
  <2>1. Selected \subseteq Reports
    BY DEF Inv, Shape, Selected, Reports, Ats
  <2>2. selection \in [Clients -> Reports \union {None}]
    BY <2>1 DEF Inv, Shape, ServerShape
  <2> QED
    BY <2>2 DEF Inv, Shape, PagesShape, BrowserShape, RemoteShape, ServerShape, TypeOK
<1> QED
  BY <1>1, Invariance, PTL

(* One report of a selection becomes at most one highlight: the guard of   *)
(* _add_highlight and the forgetting of the selection after the broadcast  *)
(* leave no second press a way in.                                         *)
THEOREM OneHighlight == Spec => []OneHighlightPerSelection
<1>1. Inv => OneHighlightPerSelection
  BY DEF Inv, ReportedOnce
<1> QED
  BY <1>1, Invariance, PTL

(* A browser to which nothing is on its way and whose scripts have run,     *)
(* while nobody adds a highlight, draws nothing but highlights of the       *)
(* document, and all of them unless the latest push came before init had    *)
(* run; and it shows the selection of every other client in the registry,   *)
(* and none of a client that has left, except of one whose latest word came *)
(* while annotation-highlight.js was loading, or was overtaken by a replay. *)
THEOREM Settles == Spec => []SettledShown
<1>1. Inv => SettledShown
  <2> SUFFICES ASSUME Inv, NEW v \in Clients, Settled(v), pending[v] = {}
               PROVE  /\ drawn[v] \subseteq DrawnOf(HighlightData)
                      /\ ~behind[v] => drawn[v] = DrawnOf(HighlightData)
                      /\ \A o \in Clients \ ({v} \union missed[v]) : remote[v][o] = Shown(o)
    BY DEF SettledShown, Shown
  <2>1. page[v] = "open" /\ down[v] = <<>> /\ \A c \in Clients : adding[c] = "no"
    BY DEF Settled
  <2>2. Of(down[v], Draws) = {} /\ Of(down[v], Inits) = {}
    BY <2>1 DEF Of
  <2>3. \A o \in Clients : Words(down[v], o) = {}
    BY <2>1 DEF Words, Of
  <2>4. ~InitPending(v) /\ \A o \in Clients : ~Polling(v, o)
    BY DEF InitPending, Polling
  <2>5. drawn[v] \subseteq DrawnOf(HighlightData)
    BY DEF Inv, NothingStrange, Former
  <2>6. ~behind[v] => drawn[v] = DrawnOf(HighlightData)
    <3>1. ~Owed(v)
      BY <2>1 DEF Owed
    <3>2. Drawn(v)
      BY <2>1, <3>1 DEF Inv, DrawingReaches
    <3> QED
      BY <2>2, <2>4, <3>2 DEF Drawn, Draft
  <2>7. ASSUME NEW o \in Clients \ ({v} \union missed[v])
        PROVE  remote[v][o] = Shown(o)
    <3>1. Told(v, o)
      BY <2>1 DEF Inv, PresenceReaches
    <3> QED
      BY <2>2, <2>3, <2>4, <3>1 DEF Told, Followed
  <2> QED
    BY <2>5, <2>6, <2>7
<1> QED
  BY <1>1, Invariance, PTL

(* When all has come to rest, the proper selection on the screen whose     *)
(* report was sent is the one the page would give a tag to.                *)
THEOREM RestsOnCurrent == Spec => []SelectionIsCurrent
<1>1. Inv => SelectionIsCurrent
  <2> SUFFICES ASSUME Inv, NEW c \in Clients, Settled(c), up[c] = <<>>, live[c] # None,
                      stored[c] = None, Reported[doc][live[c]] # None
               PROVE  selection[c] # None /\ selection[c].at = Reported[doc][live[c]]
    BY DEF SelectionIsCurrent
  <2>1. page[c] = "open" /\ down[c] = <<>>
    BY DEF Settled
  <2>2. Of(up[c], Changes) = {} /\ Of(down[c], Removals) = {}
    BY <2>1 DEF Of
  <2>3. Standing(c)
    BY <2>1 DEF Standing
  <2> QED
    BY <2>2, <2>3 DEF Inv, LiveReaches, Known
<1> QED
  BY <1>1, Invariance, PTL
=============================================================================
