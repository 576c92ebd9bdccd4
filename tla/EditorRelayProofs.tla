------------------------- MODULE EditorRelayProofs -------------------------
(***************************************************************************)
(* Safety of the relay for every set of clients and edits: types, no echo, *)
(* convergence, that every step of it is a step of SharedDraft, and causal *)
(* closure.  The inductive invariant says where an operation may be: on    *)
(* its way from its author exactly once, or in the draft, and never both.  *)
(* The second one, on top of it, says that on every channel an operation   *)
(* comes after all that its author had when it was made.                   *)
(***************************************************************************)
EXTENDS EditorRelay, SequenceTheorems, TLAPS

(* The operations in the messages of one kind. *)
Carried(s, k) == UNION {s[i].ops : i \in {j \in DOMAIN s : s[j].kind = k}}

Single(ops) == \E o : ops = {o}

(* Each update brings one operation, which no other one brings. *)
Orderly(s) ==
  \A i \in DOMAIN s : s[i].kind = "update" =>
    /\ Single(s[i].ops)
    /\ \A j \in DOMAIN s : s[j].kind = "update" /\ j # i =>
         s[i].ops \cap s[j].ops = {}

-----------------------------------------------------------------------------
(* What the operations on channels do to what they carry                   *)

LEMMA CarriedAppend ==
  ASSUME NEW M, NEW s \in Seq(M), NEW m \in M, NEW k
  PROVE  /\ m.kind = k => Carried(Append(s, m), k) = Carried(s, k) \cup m.ops
         /\ m.kind # k => Carried(Append(s, m), k) = Carried(s, k)
<1> DEFINE t == Append(s, m)
<1>1. /\ DOMAIN t = DOMAIN s \cup {Len(s) + 1} /\ t[Len(s) + 1] = m
      /\ \A i \in DOMAIN s : t[i] = s[i]
  BY AppendProperties
<1> HIDE DEF t
<1> QED
  BY <1>1 DEF Carried

LEMMA CarriedTail ==
  ASSUME NEW M, NEW s \in Seq(M), s # << >>, NEW k
  PROVE  /\ Head(s).kind = k => Carried(s, k) = Head(s).ops \cup Carried(Tail(s), k)
         /\ Head(s).kind # k => Carried(s, k) = Carried(Tail(s), k)
<1> DEFINE t == Tail(s)
<1>1. /\ DOMAIN t = 1..(Len(s) - 1) /\ DOMAIN s = 1..Len(s)
      /\ Len(s) \in Nat \ {0} /\ Head(s) = s[1]
      /\ \A i \in DOMAIN t : t[i] = s[i + 1]
  BY HeadTailProperties, LenProperties
<1>2. \A i \in DOMAIN s : i = 1 \/ (i - 1 \in DOMAIN t /\ s[i] = t[i - 1])
  BY <1>1
<1>3. \A i \in DOMAIN t : i + 1 \in DOMAIN s
  BY <1>1
<1>4. 1 \in DOMAIN s
  BY <1>1
<1> HIDE DEF t
<1> QED
  BY <1>1, <1>2, <1>3, <1>4 DEF Carried

LEMMA CarriedPrefix ==
  ASSUME NEW M, NEW s \in Seq(M), NEW n \in 0 .. Len(s), NEW k
  PROVE  Carried(SubSeq(s, 1, n), k) \subseteq Carried(s, k)
<1> DEFINE t == SubSeq(s, 1, n)
<1>1. DOMAIN t \subseteq DOMAIN s /\ \A i \in DOMAIN t : t[i] = s[i]
  BY SubSeqProperties, LenProperties
<1> HIDE DEF t
<1> QED
  BY <1>1 DEF Carried

LEMMA CarriedEmpty == ASSUME NEW k PROVE Carried(<< >>, k) = {}
BY DEF Carried

LEMMA OrderlyAppend ==
  ASSUME NEW M, NEW s \in Seq(M), NEW m \in M, Orderly(s),
         m.kind = "update" => /\ Single(m.ops)
                              /\ m.ops \cap Carried(s, "update") = {}
  PROVE  Orderly(Append(s, m))
<1> DEFINE t == Append(s, m)
<1>1. /\ DOMAIN t = DOMAIN s \cup {Len(s) + 1} /\ t[Len(s) + 1] = m
      /\ \A i \in DOMAIN s : t[i] = s[i]
  BY AppendProperties
<1>2. \A i \in DOMAIN s : s[i].kind = "update" => s[i].ops \subseteq Carried(s, "update")
  BY DEF Carried
<1>3. Len(s) + 1 \notin DOMAIN s
  BY LenProperties
<1> HIDE DEF t
<1>4. \A i \in DOMAIN t : t[i].kind = "update" => Single(t[i].ops)
  BY <1>1 DEF Orderly
<1>5. \A i, j \in DOMAIN s : s[i].kind = "update" /\ s[j].kind = "update" /\ j # i =>
        t[i].ops \cap t[j].ops = {}
  BY <1>1 DEF Orderly
<1>6. \A i \in DOMAIN s : s[i].kind = "update" /\ m.kind = "update" => s[i].ops \cap m.ops = {}
  BY <1>2
<1>7. ASSUME NEW i \in DOMAIN t, NEW j \in DOMAIN t, t[i].kind = "update",
             t[j].kind = "update", j # i
      PROVE  t[i].ops \cap t[j].ops = {}
  <2>1. CASE i \in DOMAIN s /\ j \in DOMAIN s
    BY <2>1, <1>1, <1>5, <1>7
  <2>2. CASE i \in DOMAIN s /\ j = Len(s) + 1
    BY <2>2, <1>1, <1>6, <1>7
  <2>3. CASE j \in DOMAIN s /\ i = Len(s) + 1
    <3>1. t[j].ops \cap t[i].ops = {}
      BY <2>3, <1>1, <1>6, <1>7
    <3> QED  BY <3>1
  <2> QED
    BY <2>1, <2>2, <2>3, <1>1, <1>7
<1>8. Orderly(t)
  BY <1>4, <1>7 DEF Orderly
<1> QED
  BY <1>8 DEF t

LEMMA OrderlyTail ==
  ASSUME NEW M, NEW s \in Seq(M), s # << >>, Orderly(s)
  PROVE  /\ Orderly(Tail(s))
         /\ Head(s).kind = "update" =>
              /\ Single(Head(s).ops)
              /\ Head(s).ops \cap Carried(Tail(s), "update") = {}
<1> DEFINE t == Tail(s)
<1>1. /\ DOMAIN t = 1..(Len(s) - 1) /\ DOMAIN s = 1..Len(s)
      /\ Len(s) \in Nat \ {0} /\ Head(s) = s[1]
      /\ \A i \in DOMAIN t : t[i] = s[i + 1]
  BY HeadTailProperties, LenProperties
<1>2. \A i \in DOMAIN t : i + 1 \in DOMAIN s /\ i + 1 # 1
  BY <1>1
<1>3. 1 \in DOMAIN s
  BY <1>1
<1>4. \A i, j \in DOMAIN t : i # j => i + 1 # j + 1
  BY <1>1
<1> HIDE DEF t
<1>5. \A i \in DOMAIN t : t[i].kind = "update" => Single(t[i].ops)
  BY <1>1, <1>2 DEF Orderly
<1>6. \A i, j \in DOMAIN t : t[i].kind = "update" /\ t[j].kind = "update" /\ j # i =>
        t[i].ops \cap t[j].ops = {}
  BY <1>1, <1>2, <1>4 DEF Orderly
<1>7. Orderly(t)
  BY <1>5, <1>6 DEF Orderly
<1>8. ASSUME Head(s).kind = "update"
      PROVE  Single(Head(s).ops) /\ Head(s).ops \cap Carried(t, "update") = {}
  <2>1. \A i \in DOMAIN t : t[i].kind = "update" => s[1].ops \cap t[i].ops = {}
    BY <1>1, <1>2, <1>3, <1>8 DEF Orderly
  <2>2. Single(s[1].ops)
    BY <1>1, <1>3, <1>8 DEF Orderly
  <2> QED
    BY <2>1, <2>2, <1>1 DEF Carried
<1> QED
  BY <1>7, <1>8 DEF t

LEMMA OrderlyPrefix ==
  ASSUME NEW M, NEW s \in Seq(M), NEW n \in 0 .. Len(s), Orderly(s)
  PROVE  Orderly(SubSeq(s, 1, n))
<1> DEFINE t == SubSeq(s, 1, n)
<1>1. DOMAIN t \subseteq DOMAIN s /\ \A i \in DOMAIN t : t[i] = s[i]
  BY SubSeqProperties, LenProperties
<1> HIDE DEF t
<1>2. \A i \in DOMAIN t : t[i].kind = "update" => Single(t[i].ops)
  BY <1>1 DEF Orderly
<1>3. \A i, j \in DOMAIN t : t[i].kind = "update" /\ t[j].kind = "update" /\ j # i =>
        t[i].ops \cap t[j].ops = {}
  BY <1>1 DEF Orderly
<1>4. Orderly(t)
  BY <1>2, <1>3 DEF Orderly
<1> QED
  BY <1>4 DEF t

-----------------------------------------------------------------------------
(* Types                                                                   *)

LEMMA Messages ==
  /\ \A ops, text \in SUBSET Ops : Update(ops, text) \in UpMsg
  /\ \A ok \in BOOLEAN : Ready(ok) \in UpMsg
  /\ \A text \in SUBSET Ops : Flushed(text) \in UpMsg
  /\ \A ops \in SUBSET Ops : [kind |-> "apply", ops |-> ops] \in DownMsg
  /\ [kind |-> "flush"] \in DownMsg
  /\ \A m \in UpMsg : m.kind = "update" => m.ops \in SUBSET Ops /\ m.markdown \in SUBSET Ops
  /\ \A m \in UpMsg : m.kind = "flush" => m.markdown \in SUBSET Ops
  /\ \A m \in DownMsg : m.kind = "apply" => m.ops \in SUBSET Ops
BY DEF UpMsg, DownMsg, Update, Ready, Flushed

(* What a channel may become: longer by one message, or shorter. *)
LEMMA Channel ==
  ASSUME NEW M, NEW s \in Seq(M)
  PROVE  /\ \A m \in M : Append(s, m) \in Seq(M)
         /\ s # << >> => Head(s) \in M /\ Tail(s) \in Seq(M)
         /\ \A n \in 0 .. Len(s) : SubSeq(s, 1, n) \in Seq(M)
         /\ << >> \in Seq(M) /\ \A m \in M : <<m>> \in Seq(M)
BY AppendProperties, HeadTailProperties, SubSeqProperties, EmptySeq

LEMMA TypeInit == Init => TypeOK
BY Channel DEF Init, TypeOK, NoStart, Made

LEMMA TypeNext ==
  ASSUME TypeOK, [Next]_vars
  PROVE  TypeOK'
<1> USE DEF TypeOK, server, vars, Made
<1>1. ASSUME NEW c \in Clients, CreateEditor(c) PROVE TypeOK'
  BY <1>1 DEF CreateEditor
<1>2. ASSUME NEW c \in Clients, EditorCreated(c) PROVE TypeOK'
  <2> DEFINE known == ydoc[c] \cup start[c].state
             seed == IF start[c].seed THEN {Seed(c)} ELSE {}
  <2>1. known \in SUBSET Ops /\ seed \in SUBSET Ops /\ {Seed(c)} \in SUBSET Ops
    BY DEF Ops, Seed
  <2>2. OnUpdate(start[c].state, "remote", known) = << >>
    BY DEF OnUpdate
  <2>3. OnUpdate(seed, "local", known \cup seed) = <<Update(seed, known \cup seed)>>
    BY DEF OnUpdate
  <2>4. /\ <<Update(seed, known \cup seed)>> \in Seq(UpMsg)
        /\ <<Ready(TRUE)>> \in Seq(UpMsg) /\ << >> \in Seq(UpMsg)
    <3>1. Update(seed, known \cup seed) \in UpMsg /\ Ready(TRUE) \in UpMsg
      BY <2>1, Messages
    <3> HIDE DEF known, seed
    <3> QED
      BY <3>1, Channel
  <2>5. up' \in [Clients -> Seq(UpMsg)]
    <3> DEFINE X == IF start[c].seed THEN OnUpdate(seed, "local", known \cup seed) ELSE << >>
               Y == OnUpdate(start[c].state, "remote", known)
    <3>1. up' = [up EXCEPT ![c] = up[c] \o Y \o X \o <<Ready(TRUE)>>]
      BY <1>2 DEF EditorCreated
    <3> HIDE DEF known, seed
    <3>2. X \in Seq(UpMsg)
      BY <2>3, <2>4
    <3>3. Y \in Seq(UpMsg)
      BY <2>2, <2>4
    <3> HIDE DEF X, Y
    <3>4. up[c] \o Y \o X \o <<Ready(TRUE)>> \in Seq(UpMsg)
      BY <3>2, <3>3, <2>4, ConcatProperties
    <3> QED
      BY <3>1, <3>4
  <2>6. needs' = [o \in DOMAIN needs \cup seed |-> IF o \in seed THEN known ELSE needs[o]]
    BY <1>2 DEF EditorCreated
  <2>7. ydoc' = [ydoc EXCEPT ![c] = known \cup seed] /\ page' = [page EXCEPT ![c] = "ready"]
        /\ UNCHANGED <<draft, mirror, presence, editors, start, down>>
    BY <1>2 DEF EditorCreated
  <2> HIDE DEF known, seed
  <2> QED
    BY <2>1, <2>5, <2>6, <2>7
<1>3. ASSUME NEW c \in Clients, EditorFails(c) PROVE TypeOK'
  BY <1>3, Messages, Channel DEF EditorFails
<1>4. ASSUME NEW c \in Clients, NEW e \in Edits, Edit(c, e) PROVE TypeOK'
  <2>1. e \in Ops /\ ydoc[c] \cup {e} \in SUBSET Ops /\ {e} \in SUBSET Ops
    BY DEF Ops
  <2>2. OnUpdate({e}, "local", ydoc[c] \cup {e}) \in Seq(UpMsg)
    <3>1. Update({e}, ydoc[c] \cup {e}) \in UpMsg
      BY <2>1, Messages
    <3> QED
      BY <3>1, Channel DEF OnUpdate
  <2>3. up[c] \o OnUpdate({e}, "local", ydoc[c] \cup {e}) \in Seq(UpMsg)
    BY <2>2, ConcatProperties
  <2> QED
    BY <1>4, <2>1, <2>3 DEF Edit
<1>5. ASSUME NEW c \in Clients, ApplyRemote(c) PROVE TypeOK'
  <2>1. Head(down[c]).ops \in SUBSET Ops /\ Tail(down[c]) \in Seq(DownMsg)
    BY <1>5, Messages, Channel DEF ApplyRemote
  <2>2. up' = [up EXCEPT ![c] = @ \o << >>] /\ up[c] \o << >> \in Seq(UpMsg)
    BY <1>5, Channel, ConcatProperties DEF ApplyRemote, OnUpdate
  <2> QED
    BY <1>5, <2>1, <2>2 DEF ApplyRemote
<1>6. ASSUME NEW c \in Clients, FlushNow(c) PROVE TypeOK'
  BY <1>6, Messages, Channel DEF FlushNow
<1>7. ASSUME NEW c \in Clients, ClosePage(c) PROVE TypeOK'
  BY <1>7, Channel DEF ClosePage, NoStart
<1>8. ASSUME NEW c \in Clients, OpenPage(c) PROVE TypeOK'
  BY <1>8 DEF OpenPage
<1>9. ASSUME NEW c \in Clients, OpenRespond(c) PROVE TypeOK'
  BY <1>9 DEF OpenRespond
<1>10. ASSUME NEW c \in Clients, DeleteClient(c) PROVE TypeOK'
  BY <1>10, Channel DEF DeleteClient
<1>11. ASSUME NEW c \in Clients, HandleReady(c) PROVE TypeOK'
  <2>1. draft \in SUBSET Ops
    OBVIOUS
  <2>2. Send(c, [kind |-> "apply", ops |-> draft]) \in Seq(DownMsg)
    BY <2>1, Messages, Channel DEF Send
  <2> QED
    BY <1>11, <2>2, Channel DEF HandleReady
<1>12. ASSUME NEW c \in Clients, HandleUpdate(c) PROVE TypeOK'
  <2>1. Head(up[c]).ops \in SUBSET Ops /\ Head(up[c]).markdown \in SUBSET Ops
    BY <1>12, Messages, Channel DEF HandleUpdate
  <2>2. BroadcastYjs(c, Head(up[c]).ops) \in [Clients -> Seq(DownMsg)]
    BY <2>1, Messages, Channel DEF BroadcastYjs, Send
  <2> QED
    BY <1>12, <2>1, <2>2, Channel DEF HandleUpdate
<1>13. ASSUME NEW c \in Clients, HandleFlush(c) PROVE TypeOK'
  <2>1. Head(up[c]).markdown \in SUBSET Ops
    BY <1>13, Messages, Channel DEF HandleFlush
  <2> QED
    BY <1>13, <2>1, Channel DEF HandleFlush
<1>14. CASE FlushMilkdown
  BY <1>14, Messages, Channel DEF FlushMilkdown, Send
<1>15. CASE UNCHANGED vars
  BY <1>15
<1> QED
  BY <1>1, <1>2, <1>3, <1>4, <1>5, <1>6, <1>7, <1>8, <1>9, <1>10, <1>11, <1>12, <1>13,
     <1>14, <1>15 DEF Next

(* Types of the whole: what the handlers of respond.py and the bundle may  *)
(* ever find in the documents, the presence registry and the channels.     *)
THEOREM TypeCorrect == Spec => []TypeOK
BY TypeInit, TypeNext, PTL DEF Spec

-----------------------------------------------------------------------------
(* The inductive invariant                                                 *)

(* The operations on their way from, and to, each client. *)
Sent == [c \in Clients |-> Carried(up[c], "update")]
Coming == [c \in Clients |-> Carried(down[c], "apply")]
Ordered == \A c \in Clients : Orderly(up[c])

Early == {"open", "starting", "creating"}

(* An editor not yet created has no messages, no document and no entry in  *)
(* the relay, and would plant its seed in an empty document only.          *)
Phases ==
  \A c \in Clients :
    /\ page[c] # "closed" => c \in presence
    /\ c \notin presence \/ page[c] \in Early => up[c] = << >>
    /\ page[c] \in Early => c \notin editors
    /\ page[c] \in Early \cup {"closed"} => ydoc[c] = {} /\ down[c] = << >>
    /\ page[c] \in {"starting", "creating"} =>
         /\ start[c].state \subseteq draft
         /\ start[c].seed => start[c].state = {} /\ Seed(c) \notin draft

(* An operation is in one place only between its author and the draft. *)
OneWay ==
  /\ Ordered /\ draft \subseteq Made
  /\ \A c \in Clients : Sent[c] \subseteq Made /\ Sent[c] \cap draft = {}
  /\ \A c, d \in Clients : c # d => Sent[c] \cap Sent[d] = {} /\ Seed(c) \notin Sent[d]

(* What a document holds came from the draft or is on its way there. *)
Sources ==
  \A c \in Clients :
    /\ Coming[c] \subseteq draft
    /\ page[c] # "closed" => Sent[c] \subseteq ydoc[c]
    /\ ydoc[c] \subseteq draft \cup Sent[c]

Synced ==
  \A c \in editors : page[c] # "closed" => draft \subseteq ydoc[c] \cup Coming[c]

IInv == TypeOK /\ Phases /\ OneWay /\ Sources /\ Synced

-----------------------------------------------------------------------------
(* What each action does to the operations under way                       *)

LEMMA ChannelTypes ==
  ASSUME TypeOK
  PROVE  /\ Sent \in [Clients -> SUBSET Ops] /\ Coming \in [Clients -> SUBSET Ops]
         /\ \A c \in Clients : up[c] \in Seq(UpMsg) /\ down[c] \in Seq(DownMsg)
         /\ draft \in SUBSET Ops /\ editors \subseteq Clients
<1>1. \A c \in Clients : up[c] \in Seq(UpMsg) /\ down[c] \in Seq(DownMsg)
  BY DEF TypeOK
<1>2. ASSUME NEW c \in Clients PROVE Carried(up[c], "update") \subseteq Ops
  BY <1>1, Messages, ElementOfSeq, LenProperties DEF Carried
<1>3. ASSUME NEW c \in Clients PROVE Carried(down[c], "apply") \subseteq Ops
  BY <1>1, Messages, ElementOfSeq, LenProperties DEF Carried
<1> QED
  BY <1>1, <1>2, <1>3 DEF Sent, Coming, TypeOK

LEMMA Kinds ==
  /\ \A ops, text : Update(ops, text).kind = "update" /\ Update(ops, text).ops = ops
  /\ \A ok : Ready(ok).kind = "ready"
  /\ \A text : Flushed(text).kind = "flush"
BY DEF Update, Ready, Flushed

LEMMA UpAppended ==
  ASSUME TypeOK, Ordered, NEW c \in Clients, NEW m \in UpMsg, m.kind # "update",
         up' = [up EXCEPT ![c] = Append(@, m)]
  PROVE  Sent' = Sent /\ Ordered'
<1>1. Carried(Append(up[c], m), "update") = Carried(up[c], "update")
  BY ChannelTypes, CarriedAppend
<1>2. Orderly(Append(up[c], m))
  BY ChannelTypes, OrderlyAppend DEF Ordered
<1>3. \A d \in Clients : up'[d] = IF d = c THEN Append(up[c], m) ELSE up[d]
  BY DEF TypeOK
<1> QED
  BY <1>1, <1>2, <1>3 DEF Sent, Ordered

LEMMA UpTaken ==
  ASSUME TypeOK, Ordered, NEW c \in Clients, up[c] # << >>,
         up' = [up EXCEPT ![c] = Tail(@)]
  PROVE  /\ Ordered'
         /\ Head(up[c]).kind # "update" => Sent' = Sent
         /\ Head(up[c]).kind = "update" =>
              /\ Single(Head(up[c]).ops) /\ Head(up[c]).ops \subseteq Sent[c]
              /\ Sent' = [Sent EXCEPT ![c] = @ \ Head(up[c]).ops]
<1>1. /\ Head(up[c]).kind = "update" =>
           Carried(up[c], "update") = Head(up[c]).ops \cup Carried(Tail(up[c]), "update")
      /\ Head(up[c]).kind # "update" =>
           Carried(up[c], "update") = Carried(Tail(up[c]), "update")
  BY ChannelTypes, CarriedTail
<1>2. /\ Orderly(Tail(up[c]))
      /\ Head(up[c]).kind = "update" =>
           /\ Single(Head(up[c]).ops)
           /\ Head(up[c]).ops \cap Carried(Tail(up[c]), "update") = {}
  BY ChannelTypes, OrderlyTail DEF Ordered
<1>3. \A d \in Clients : up'[d] = IF d = c THEN Tail(up[c]) ELSE up[d]
  BY DEF TypeOK
<1>4. Ordered'
  BY <1>2, <1>3 DEF Ordered
<1>5. ASSUME Head(up[c]).kind # "update" PROVE Sent' = Sent
  BY <1>1, <1>3, <1>5 DEF Sent
<1>6. ASSUME Head(up[c]).kind = "update"
      PROVE  /\ Head(up[c]).ops \subseteq Sent[c]
             /\ Sent' = [Sent EXCEPT ![c] = @ \ Head(up[c]).ops]
  <2>1. Carried(Tail(up[c]), "update") = Carried(up[c], "update") \ Head(up[c]).ops
    BY <1>1, <1>2, <1>6
  <2>2. Head(up[c]).ops \subseteq Sent[c]
    BY <1>1, <1>6 DEF Sent
  <2>3. \A d \in Clients : Carried(up'[d], "update") =
          IF d = c THEN Carried(up[c], "update") \ Head(up[c]).ops ELSE Carried(up[d], "update")
    <3>1. ASSUME NEW d \in Clients, d # c PROVE Carried(up'[d], "update") = Carried(up[d], "update")
      BY <1>3, <3>1
    <3>2. Carried(up'[c], "update") = Carried(Tail(up[c]), "update")
      BY <1>3
    <3> QED
      BY <2>1, <3>1, <3>2
  <2>4. Sent' = [Sent EXCEPT ![c] = Sent[c] \ Head(up[c]).ops]
    <3> DEFINE gone == Head(up[c]).ops
    <3>1. \A d \in Clients : Carried(up'[d], "update") =
            IF d = c THEN Carried(up[c], "update") \ gone ELSE Carried(up[d], "update")
      BY <2>3
    <3> HIDE DEF gone
    <3>2. Sent' = [Sent EXCEPT ![c] = Sent[c] \ gone]
      BY <3>1 DEF Sent
    <3> QED
      BY <3>2 DEF gone
  <2> QED
    BY <2>2, <2>4
<1> QED
  BY <1>2, <1>4, <1>5, <1>6

LEMMA UpSame == ASSUME Ordered, UNCHANGED up PROVE Sent' = Sent /\ Ordered'
BY DEF Sent, Ordered

LEMMA DownSame == ASSUME UNCHANGED down PROVE Coming' = Coming
BY DEF Coming

LEMMA DownTaken ==
  ASSUME TypeOK, NEW c \in Clients, down[c] # << >>, down' = [down EXCEPT ![c] = Tail(@)]
  PROVE  /\ Head(down[c]).kind # "apply" => Coming' = Coming
         /\ Head(down[c]).kind = "apply" =>
              /\ Head(down[c]).ops \subseteq Coming[c]
              /\ Coming'[c] \subseteq Coming[c]
              /\ Coming[c] = Coming'[c] \cup Head(down[c]).ops
              /\ \A d \in Clients \ {c} : Coming'[d] = Coming[d]
<1>1. /\ Head(down[c]).kind = "apply" =>
           Carried(down[c], "apply") = Head(down[c]).ops \cup Carried(Tail(down[c]), "apply")
      /\ Head(down[c]).kind # "apply" =>
           Carried(down[c], "apply") = Carried(Tail(down[c]), "apply")
  BY ChannelTypes, CarriedTail
<1>2. \A d \in Clients : down'[d] = IF d = c THEN Tail(down[c]) ELSE down[d]
  BY DEF TypeOK
<1> QED
  BY <1>1, <1>2 DEF Coming

LEMMA UpCut ==
  ASSUME TypeOK, Ordered, NEW c \in Clients, NEW n \in 0 .. Len(up[c]),
         up' = [up EXCEPT ![c] = SubSeq(@, 1, n)]
  PROVE  /\ Ordered' /\ Sent'[c] \subseteq Sent[c]
         /\ \A d \in Clients \ {c} : Sent'[d] = Sent[d]
<1>1. Carried(SubSeq(up[c], 1, n), "update") \subseteq Carried(up[c], "update")
  BY ChannelTypes, CarriedPrefix
<1>2. Orderly(SubSeq(up[c], 1, n))
  BY ChannelTypes, OrderlyPrefix DEF Ordered
<1>3. \A d \in Clients : up'[d] = IF d = c THEN SubSeq(up[c], 1, n) ELSE up[d]
  BY DEF TypeOK
<1> QED
  BY <1>1, <1>2, <1>3 DEF Sent, Ordered

LEMMA UpEmptied ==
  ASSUME TypeOK, Ordered, NEW c \in Clients, up' = [up EXCEPT ![c] = << >>]
  PROVE  /\ Ordered' /\ Sent'[c] = {}
         /\ \A d \in Clients \ {c} : Sent'[d] = Sent[d]
<1>1. \A d \in Clients : up'[d] = IF d = c THEN << >> ELSE up[d]
  BY DEF TypeOK
<1> QED
  BY <1>1, CarriedEmpty DEF Sent, Ordered, Orderly

LEMMA UpdatesAppended ==
  ASSUME NEW s \in Seq(UpMsg), NEW m \in UpMsg
  PROVE  /\ m.kind = "update" => Carried(Append(s, m), "update") = Carried(s, "update") \cup m.ops
         /\ m.kind # "update" => Carried(Append(s, m), "update") = Carried(s, "update")
BY CarriedAppend

LEMMA UpPosted ==
  ASSUME TypeOK, Ordered, NEW c \in Clients, NEW o \in Ops, NEW text \in SUBSET Ops,
         o \notin Sent[c], up' = [up EXCEPT ![c] = @ \o <<Update({o}, text)>>]
  PROVE  Ordered' /\ Sent' = [Sent EXCEPT ![c] = @ \cup {o}]
<1> DEFINE m == Update({o}, text)
<1>1. m \in UpMsg /\ m.kind = "update" /\ m.ops = {o}
  BY Messages, Kinds
<1> HIDE DEF m
<1>2. up[c] \o <<m>> = Append(up[c], m)
  BY <1>1, ChannelTypes, AppendIsConcat
<1>3. up' = [up EXCEPT ![c] = Append(up[c], m)]
  BY <1>2 DEF m
<1>4. Carried(up[c], "update") = Sent[c]
  BY DEF Sent
<1>5. Carried(Append(up[c], m), "update") = Carried(up[c], "update") \cup {o}
  BY <1>1, ChannelTypes, UpdatesAppended
<1>6. Orderly(Append(up[c], m))
  BY <1>1, <1>4, ChannelTypes, OrderlyAppend DEF Ordered, Single
<1>7. \A d \in Clients : up'[d] = IF d = c THEN Append(up[c], m) ELSE up[d]
  BY <1>3 DEF TypeOK
<1>8. Ordered'
  BY <1>6, <1>7 DEF Ordered
<1>9. \A d \in Clients : Carried(up'[d], "update") =
        IF d = c THEN Carried(up[c], "update") \cup {o} ELSE Carried(up[d], "update")
  <2>1. ASSUME NEW d \in Clients, d # c PROVE Carried(up'[d], "update") = Carried(up[d], "update")
    BY <1>7, <2>1
  <2>2. up'[c] = Append(up[c], m)
    BY <1>7
  <2> QED
    BY <1>5, <2>1, <2>2
<1>10. Sent' = [Sent EXCEPT ![c] = Carried(up[c], "update") \cup {o}]
  BY <1>9 DEF Sent
<1> QED
  BY <1>4, <1>8, <1>10

(* What an editor sends once it has been created. *)
LEMMA Greeting ==
  ASSUME TypeOK, NEW c \in Clients, EditorCreated(c), up[c] = << >>, ydoc[c] = {},
         start[c].seed => start[c].state = {}
  PROVE  /\ start[c].seed => up'[c] = Append(Append(<< >>, Update({Seed(c)}, {Seed(c)})), Ready(TRUE))
         /\ ~start[c].seed => up'[c] = Append(<< >>, Ready(TRUE))
<1> DEFINE known == ydoc[c] \cup start[c].state
           seed  == IF start[c].seed THEN {Seed(c)} ELSE {}
           m     == Update({Seed(c)}, {Seed(c)})
           r     == Ready(TRUE)
           X     == IF start[c].seed THEN OnUpdate(seed, "local", known \cup seed) ELSE << >>
           Y     == OnUpdate(start[c].state, "remote", known)
<1>1. start[c].seed => known \cup seed = {Seed(c)} /\ seed = {Seed(c)}
  OBVIOUS
<1>2. Y = << >>
  BY DEF OnUpdate
<1>3. up' = [up EXCEPT ![c] = up[c] \o Y \o X \o <<r>>]
  BY DEF EditorCreated
<1>4. m \in UpMsg /\ r \in UpMsg
  <2>1. {Seed(c)} \in SUBSET Ops
    BY DEF Seed, Ops
  <2> QED
    BY <2>1, Messages
<1>5. start[c].seed => X = <<m>>
  <2>1. start[c].seed => X = OnUpdate(seed, "local", known \cup seed)
    OBVIOUS
  <2> HIDE DEF seed, known
  <2> QED
    BY <1>1, <2>1 DEF OnUpdate
<1>6. ~start[c].seed => X = << >>
  OBVIOUS
<1> HIDE DEF m, r, X, Y
<1>7. up'[c] = << >> \o << >> \o X \o <<r>>
  BY <1>2, <1>3 DEF TypeOK
<1>8. << >> \in Seq(UpMsg) /\ <<m>> \in Seq(UpMsg)
  BY <1>4, Channel
<1>9. << >> \o << >> = << >> /\ << >> \o <<m>> = <<m>> /\ Append(<< >>, m) = <<m>>
      /\ Append(<<m>>, r) = <<m>> \o <<r>> /\ Append(<< >>, r) = << >> \o <<r>>
  BY <1>4, <1>8, ConcatEmptySeq, AppendIsConcat
<1>10. start[c].seed => up'[c] = Append(Append(<< >>, m), r)
  BY <1>5, <1>7, <1>9
<1>11. ~start[c].seed => up'[c] = Append(<< >>, r)
  BY <1>6, <1>7, <1>9
<1> QED
  BY <1>10, <1>11 DEF m, r

LEMMA UpGreeted ==
  ASSUME TypeOK, Ordered, NEW c \in Clients, EditorCreated(c), up[c] = << >>, ydoc[c] = {},
         start[c].seed => start[c].state = {}
  PROVE  Ordered' /\ Sent' = [Sent EXCEPT ![c] = IF start[c].seed THEN {Seed(c)} ELSE {}]
<1> DEFINE seed == IF start[c].seed THEN {Seed(c)} ELSE {}
           m    == Update({Seed(c)}, {Seed(c)})
           r    == Ready(TRUE)
           new  == up'[c]
<1>1. /\ m \in UpMsg /\ m.kind = "update" /\ m.ops = {Seed(c)}
      /\ r \in UpMsg /\ r.kind = "ready"
  <2>1. {Seed(c)} \in SUBSET Ops
    BY DEF Seed, Ops
  <2> QED
    BY <2>1, Messages, Kinds
<1>2. /\ start[c].seed => new = Append(Append(<< >>, m), r)
      /\ ~start[c].seed => new = Append(<< >>, r)
  BY Greeting
<1> HIDE DEF m, r, new
<1>3. Orderly(<< >>) /\ << >> \in Seq(UpMsg) /\ Carried(<< >>, "update") = {}
  BY Channel, CarriedEmpty DEF Orderly
<1>4. /\ Append(<< >>, m) \in Seq(UpMsg) /\ Orderly(Append(<< >>, m))
      /\ Carried(Append(<< >>, m), "update") = {Seed(c)}
  <2>1. Single(m.ops) /\ m.ops \cap Carried(<< >>, "update") = {}
    BY <1>1, <1>3 DEF Single
  <2>2. Carried(Append(<< >>, m), "update") = Carried(<< >>, "update") \cup m.ops
    BY <1>1, <1>3, UpdatesAppended
  <2>3. Orderly(Append(<< >>, m))
    BY <1>1, <1>3, <2>1, OrderlyAppend
  <2>4. Append(<< >>, m) \in Seq(UpMsg)
    BY <1>1, <1>3, Channel
  <2> QED
    BY <1>1, <1>3, <2>2, <2>3, <2>4
<1>5. start[c].seed => Carried(new, "update") = {Seed(c)} /\ Orderly(new)
  <2>1. Carried(Append(Append(<< >>, m), r), "update") = {Seed(c)}
    BY <1>1, <1>4, UpdatesAppended
  <2>2. Orderly(Append(Append(<< >>, m), r))
    BY <1>1, <1>4, OrderlyAppend
  <2> QED
    BY <1>2, <2>1, <2>2
<1>6. ~start[c].seed => Carried(new, "update") = {} /\ Orderly(new)
  <2>1. Carried(Append(<< >>, r), "update") = {}
    BY <1>1, <1>3, UpdatesAppended
  <2>2. Orderly(Append(<< >>, r))
    BY <1>1, <1>3, OrderlyAppend
  <2> QED
    BY <1>2, <2>1, <2>2
<1>7. Carried(up'[c], "update") = seed /\ Orderly(up'[c])
  BY <1>5, <1>6 DEF new
<1>8. \A d \in Clients : d # c => up'[d] = up[d]
  BY DEF EditorCreated, TypeOK
<1> HIDE DEF seed
<1>9. Ordered'
  BY <1>7, <1>8 DEF Ordered
<1>10. \A d \in Clients : Carried(up'[d], "update") = IF d = c THEN seed ELSE Carried(up[d], "update")
  <2>1. ASSUME NEW d \in Clients, d # c PROVE Carried(up'[d], "update") = Carried(up[d], "update")
    BY <1>8, <2>1
  <2> QED
    BY <1>7, <2>1
<1>11. Sent' = [Sent EXCEPT ![c] = seed]
  BY <1>10 DEF Sent
<1> QED
  BY <1>9, <1>11 DEF seed

(* The clients in R get one more message. *)
LEMMA DownSent ==
  ASSUME TypeOK, NEW R \in SUBSET Clients, NEW m \in DownMsg,
         \A d \in Clients : down'[d] = IF d \in R THEN Append(down[d], m) ELSE down[d]
  PROVE  /\ m.kind = "apply" =>
              \A d \in Clients : Coming'[d] = IF d \in R THEN Coming[d] \cup m.ops ELSE Coming[d]
         /\ m.kind # "apply" => Coming' = Coming
<1>1. ASSUME NEW d \in Clients
      PROVE  /\ m.kind = "apply" =>
                  Carried(Append(down[d], m), "apply") = Carried(down[d], "apply") \cup m.ops
             /\ m.kind # "apply" =>
                  Carried(Append(down[d], m), "apply") = Carried(down[d], "apply")
  BY ChannelTypes, CarriedAppend
<1>2. ASSUME m.kind # "apply" PROVE Coming' = Coming
  BY <1>1, <1>2 DEF Coming
<1>3. ASSUME m.kind = "apply", NEW d \in Clients
      PROVE  Coming'[d] = IF d \in R THEN Coming[d] \cup m.ops ELSE Coming[d]
  BY <1>1, <1>3 DEF Coming
<1> QED
  BY <1>2, <1>3

-----------------------------------------------------------------------------
(* The invariant is inductive                                              *)

LEMMA IInvInit == Init => IInv
<1> SUFFICES ASSUME Init PROVE IInv
  OBVIOUS
<1>1. TypeOK
  BY TypeInit
<1>2. \A c \in Clients : Sent[c] = {} /\ Coming[c] = {}
  BY CarriedEmpty DEF Init, Sent, Coming
<1>3. Phases
  BY DEF Init, Phases, Early
<1>4. OneWay
  BY <1>2 DEF Init, OneWay, Ordered, Orderly
<1>5. Sources /\ Synced
  BY <1>2 DEF Init, Sources, Synced
<1> QED
  BY <1>1, <1>3, <1>4, <1>5 DEF IInv

(* Nothing is under way from or to an editor that has not been created. *)
LEMMA Quiet ==
  ASSUME IInv, NEW c \in Clients
  PROVE  /\ c \notin presence \/ page[c] \in Early => Sent[c] = {}
         /\ page[c] \in Early \cup {"closed"} => Coming[c] = {}
BY CarriedEmpty DEF IInv, Phases, Sent, Coming

(* Steps after which nothing is sent and no document has changed. *)
LEMMA StartingSteps ==
  ASSUME IInv, NEW c \in Clients, CreateEditor(c) \/ OpenPage(c) \/ OpenRespond(c), TypeOK'
  PROVE  IInv'
<1> USE DEF IInv, server
<1>1. UNCHANGED <<up, down, ydoc, draft, editors, needs>>
  BY DEF CreateEditor, OpenPage, OpenRespond
<1>2. Sent' = Sent /\ Coming' = Coming /\ Ordered'
  BY <1>1, UpSame, DownSame DEF OneWay
<1>3. Phases'
  BY ChannelTypes DEF TypeOK, Phases, Early, CreateEditor, OpenPage, OpenRespond
<1>4. OneWay'
  BY <1>1, <1>2 DEF OneWay, Made
<1>5. \A d \in Clients : page'[d] # "closed" => page[d] # "closed" \/ Sent[d] = {}
  BY Quiet DEF CreateEditor, OpenPage, OpenRespond, TypeOK
<1>6. Sources'
  BY <1>1, <1>2, <1>5 DEF Sources
<1>7. \A d \in editors : page'[d] # "closed" => page[d] # "closed"
  BY DEF CreateEditor, OpenPage, OpenRespond, TypeOK
<1> QED
  BY <1>1, <1>2, <1>3, <1>4, <1>6, <1>7 DEF Synced

LEMMA CreatedStep ==
  ASSUME IInv, NEW c \in Clients, EditorCreated(c), TypeOK'
  PROVE  IInv'
<1> USE DEF server
<1> DEFINE seed == IF start[c].seed THEN {Seed(c)} ELSE {}
<1>1. /\ up[c] = << >> /\ ydoc[c] = {} /\ c \notin editors /\ Sent[c] = {} /\ c \in presence
      /\ start[c].state \subseteq draft /\ seed \cap draft = {}
      /\ start[c].seed => start[c].state = {}
  BY Quiet DEF IInv, Phases, Early, EditorCreated
<1>2. Ordered' /\ Sent' = [Sent EXCEPT ![c] = seed]
  BY <1>1, UpGreeted DEF IInv, OneWay
<1>3. /\ UNCHANGED <<draft, presence, editors, start, down>>
      /\ page' = [page EXCEPT ![c] = "ready"]
      /\ ydoc' = [ydoc EXCEPT ![c] = start[c].state \cup seed]
      /\ Made' = Made \cup seed /\ Coming' = Coming
      /\ \A d \in Clients \ {c} : up'[d] = up[d]
  BY <1>1, DownSame DEF EditorCreated, Made, IInv, TypeOK
<1>4. \A d \in Clients : d # c => seed \cap Sent[d] = {} /\ Seed(d) \notin seed
  BY DEF Seed, IInv, OneWay
<1> HIDE DEF seed
<1>5. /\ Sent'[c] = seed /\ \A d \in Clients \ {c} : Sent'[d] = Sent[d]
      /\ page'[c] = "ready" /\ \A d \in Clients \ {c} : page'[d] = page[d]
      /\ ydoc'[c] = start[c].state \cup seed /\ \A d \in Clients \ {c} : ydoc'[d] = ydoc[d]
  <2>1. Sent \in [Clients -> SUBSET Ops]
    BY ChannelTypes DEF IInv
  <2>2. Sent'[c] = seed /\ \A d \in Clients \ {c} : Sent'[d] = Sent[d]
    BY <1>2, <2>1
  <2>3. page'[c] = "ready" /\ \A d \in Clients \ {c} : page'[d] = page[d]
    BY <1>3 DEF IInv, TypeOK
  <2>4. ydoc'[c] = start[c].state \cup seed /\ \A d \in Clients \ {c} : ydoc'[d] = ydoc[d]
    BY <1>3 DEF IInv, TypeOK
  <2> QED
    BY <2>2, <2>3, <2>4
<1>6. Phases'
  <2> SUFFICES ASSUME NEW d \in Clients
               PROVE  /\ page'[d] # "closed" => d \in presence'
                      /\ d \notin presence' \/ page'[d] \in Early => up'[d] = << >>
                      /\ page'[d] \in Early => d \notin editors'
                      /\ page'[d] \in Early \cup {"closed"} => ydoc'[d] = {} /\ down'[d] = << >>
                      /\ page'[d] \in {"starting", "creating"} =>
                           /\ start'[d].state \subseteq draft'
                           /\ start'[d].seed => start'[d].state = {} /\ Seed(d) \notin draft'
    BY DEF Phases
  <2>1. CASE d = c
    BY <2>1, <1>1, <1>3, <1>5 DEF Early
  <2>2. CASE d # c
    BY <2>2, <1>3, <1>5 DEF IInv, Phases
  <2> QED
    BY <2>1, <2>2
<1>7. OneWay'
  BY <1>1, <1>2, <1>3, <1>4, <1>5 DEF IInv, OneWay
<1>8. Sources'
  <2> SUFFICES ASSUME NEW d \in Clients
               PROVE  /\ Coming'[d] \subseteq draft'
                      /\ page'[d] # "closed" => Sent'[d] \subseteq ydoc'[d]
                      /\ ydoc'[d] \subseteq draft' \cup Sent'[d]
    BY DEF Sources
  <2>1. CASE d = c
    BY <2>1, <1>1, <1>3, <1>5 DEF IInv, Sources
  <2>2. CASE d # c
    BY <2>2, <1>3, <1>5 DEF IInv, Sources
  <2> QED
    BY <2>1, <2>2
<1>9. Synced'
  BY <1>1, <1>3, <1>5, ChannelTypes DEF IInv, Synced
<1> QED
  BY <1>6, <1>7, <1>8, <1>9 DEF IInv

LEMMA FailsStep ==
  ASSUME IInv, NEW c \in Clients, EditorFails(c), TypeOK'
  PROVE  IInv'
<1> USE DEF server
<1>1. ydoc[c] = {} /\ down[c] = << >> /\ c \notin editors /\ Sent[c] = {} /\ c \in presence
  BY Quiet DEF IInv, Phases, Early, EditorFails
<1>2. Ordered' /\ Sent' = Sent /\ Coming' = Coming
  BY UpAppended, DownSame, Messages, Kinds DEF IInv, OneWay, EditorFails
<1>3. /\ UNCHANGED <<draft, presence, editors, start, down, ydoc, needs>>
      /\ \A d \in Clients : page'[d] = IF d = c THEN "failed" ELSE page[d]
      /\ \A d \in Clients \ {c} : up'[d] = up[d]
  BY DEF EditorFails, IInv, TypeOK
<1>4. Phases'
  BY <1>1, <1>3 DEF IInv, Phases, Early
<1>5. OneWay' /\ Sources' /\ Synced'
  BY <1>1, <1>2, <1>3, ChannelTypes DEF IInv, OneWay, Sources, Synced, Made
<1> QED
  BY <1>4, <1>5 DEF IInv

LEMMA EditStep ==
  ASSUME IInv, NEW c \in Clients, NEW e \in Edits, Edit(c, e), TypeOK'
  PROVE  IInv'
<1> USE DEF server
<1>1. /\ e \in Ops /\ e \notin draft /\ \A d \in Clients : e \notin Sent[d] /\ Seed(d) # e
      /\ page[c] = "ready" /\ c \in presence
  <2>1. \A d \in Clients : Seed(d) \in {"seed"} \X Clients
    BY DEF Seed
  <2>2. e \in Ops /\ \A d \in Clients : Seed(d) # e
    BY <2>1, OpsAssumption DEF Ops
  <2>3. e \notin Made /\ page[c] = "ready"
    BY DEF Edit
  <2>4. e \notin draft /\ \A d \in Clients : e \notin Sent[d]
    BY <2>3 DEF IInv, OneWay
  <2>5. c \in presence
    BY <2>3 DEF IInv, Phases
  <2> QED
    BY <2>2, <2>3, <2>4, <2>5
<1>2. Ordered' /\ Sent' = [Sent EXCEPT ![c] = @ \cup {e}]
  <2>1. ydoc[c] \cup {e} \in SUBSET Ops
    BY <1>1 DEF IInv, TypeOK
  <2> QED
    BY <1>1, <2>1, UpPosted DEF Edit, OnUpdate, IInv, OneWay
<1>3. /\ UNCHANGED <<draft, presence, editors, start, down, page>> /\ Made' = Made \cup {e}
      /\ \A d \in Clients : ydoc'[d] = IF d = c THEN ydoc[c] \cup {e} ELSE ydoc[d]
      /\ Coming' = Coming /\ \A d \in Clients \ {c} : up'[d] = up[d]
  BY DownSame DEF Edit, Made, IInv, TypeOK
<1>4. \A d \in Clients : Sent'[d] = IF d = c THEN Sent[c] \cup {e} ELSE Sent[d]
  BY <1>2, ChannelTypes DEF IInv
<1>5. Phases'
  BY <1>1, <1>3 DEF IInv, Phases, Early
<1>6. OneWay'
  BY <1>1, <1>2, <1>3, <1>4 DEF IInv, OneWay
<1>7. Sources' /\ Synced'
  BY <1>3, <1>4, ChannelTypes DEF IInv, Sources, Synced
<1> QED
  BY <1>5, <1>6, <1>7 DEF IInv

LEMMA ApplyStep ==
  ASSUME IInv, NEW c \in Clients, ApplyRemote(c), TypeOK'
  PROVE  IInv'
<1> USE DEF server
<1> DEFINE new == Head(down[c]).ops
<1>1. /\ page[c] \notin Early \cup {"closed"} /\ c \in presence
  BY DEF ApplyRemote, IInv, Phases
<1>2. up' = up
  <2>1. up' = [up EXCEPT ![c] = up[c] \o << >>] /\ up[c] \in Seq(UpMsg)
    BY ChannelTypes DEF ApplyRemote, OnUpdate, IInv
  <2>2. up[c] \o << >> = up[c]
    BY <2>1, ConcatEmptySeq
  <2> QED
    BY <2>1, <2>2 DEF IInv, TypeOK
<1>3. Sent' = Sent /\ Ordered'
  BY <1>2, UpSame DEF IInv, OneWay
<1>4. /\ new \subseteq Coming[c] /\ Coming[c] = Coming'[c] \cup new
      /\ \A d \in Clients \ {c} : Coming'[d] = Coming[d]
  BY DownTaken DEF ApplyRemote, IInv
<1>5. /\ UNCHANGED <<draft, presence, editors, start, page, needs>>
      /\ \A d \in Clients : ydoc'[d] = IF d = c THEN ydoc[c] \cup new ELSE ydoc[d]
      /\ \A d \in Clients \ {c} : down'[d] = down[d]
  BY DEF ApplyRemote, IInv, TypeOK
<1> HIDE DEF new
<1>6. Phases'
  BY <1>1, <1>2, <1>5 DEF IInv, Phases, Early
<1>7. OneWay'
  BY <1>3, <1>5 DEF IInv, OneWay, Made
<1>8. Sources'
  BY <1>3, <1>4, <1>5 DEF IInv, Sources
<1>9. Synced'
  BY <1>4, <1>5, ChannelTypes DEF IInv, Synced
<1> QED
  BY <1>6, <1>7, <1>8, <1>9 DEF IInv

(* Steps that bring or take text only for the mirror. *)
LEMMA MirrorSteps ==
  ASSUME IInv, NEW c \in Clients, FlushNow(c) \/ HandleFlush(c), TypeOK'
  PROVE  IInv'
<1> USE DEF server
<1>1. page[c] \notin Early /\ (FlushNow(c) => c \in presence)
  BY DEF IInv, Phases, FlushNow, HandleFlush
<1>2. Ordered' /\ Sent' = Sent
  <2>1. CASE FlushNow(c)
    <3>1. Flushed(ydoc[c]) \in UpMsg /\ Flushed(ydoc[c]).kind # "update"
      BY Messages, Kinds DEF IInv, TypeOK
    <3> QED
      BY <2>1, <3>1, UpAppended DEF IInv, OneWay, FlushNow
  <2>2. CASE HandleFlush(c)
    BY <2>2, UpTaken DEF IInv, OneWay, HandleFlush
  <2> QED
    BY <2>1, <2>2
<1>3. Coming' = Coming
  BY DownTaken, DownSame DEF IInv, FlushNow, HandleFlush
<1>4. /\ UNCHANGED <<draft, presence, editors, start, page, ydoc, needs>>
      /\ \A d \in Clients \ {c} : up'[d] = up[d] /\ down'[d] = down[d]
      /\ down'[c] = down[c] \/ down[c] # << >>
      /\ c \in presence \/ up[c] # << >>
  BY <1>1 DEF IInv, TypeOK, FlushNow, HandleFlush
<1>5. Phases'
  BY <1>1, <1>4 DEF IInv, Phases
<1>6. OneWay' /\ Sources' /\ Synced'
  BY <1>2, <1>3, <1>4 DEF IInv, OneWay, Sources, Synced, Made
<1> QED
  BY <1>5, <1>6 DEF IInv

LEMMA CloseStep ==
  ASSUME IInv, NEW c \in Clients, ClosePage(c), TypeOK'
  PROVE  IInv'
<1> USE DEF server
<1>1. /\ c \in presence /\ UNCHANGED <<draft, presence, editors, needs>>
      /\ page'[c] = "closed" /\ ydoc'[c] = {} /\ down'[c] = << >>
      /\ \A d \in Clients \ {c} : /\ page'[d] = page[d] /\ ydoc'[d] = ydoc[d]
                                 /\ start'[d] = start[d] /\ up'[d] = up[d] /\ down'[d] = down[d]
  BY DEF IInv, TypeOK, Phases, ClosePage
<1>2. /\ Ordered' /\ Sent'[c] \subseteq Sent[c]
      /\ \A d \in Clients \ {c} : Sent'[d] = Sent[d]
  BY UpCut DEF IInv, OneWay, ClosePage
<1>3. /\ Coming'[c] = {} /\ \A d \in Clients \ {c} : Coming'[d] = Coming[d]
  BY <1>1, CarriedEmpty DEF Coming
<1>4. Phases'
  BY <1>1 DEF IInv, Phases, Early
<1>5. \A d \in Clients : Sent'[d] \subseteq Sent[d]
  BY <1>2
<1>6. OneWay'
  BY <1>1, <1>2, <1>5 DEF IInv, OneWay, Made
<1>7. Sources' /\ Synced'
  BY <1>1, <1>2, <1>3, ChannelTypes DEF IInv, Sources, Synced
<1> QED
  BY <1>4, <1>6, <1>7 DEF IInv

LEMMA DeleteStep ==
  ASSUME IInv, NEW c \in Clients, DeleteClient(c), TypeOK'
  PROVE  IInv'
<1> USE DEF server
<1>1. /\ page[c] = "closed" /\ UNCHANGED <<draft, page, start, ydoc, down, needs>>
      /\ presence' = presence \ {c} /\ editors' = editors \ {c}
      /\ up'[c] = << >> /\ \A d \in Clients \ {c} : up'[d] = up[d]
  BY DEF IInv, TypeOK, DeleteClient
<1>2. /\ Ordered' /\ Sent'[c] = {} /\ \A d \in Clients \ {c} : Sent'[d] = Sent[d]
  BY UpEmptied DEF IInv, OneWay, DeleteClient
<1>3. Coming' = Coming /\ ydoc[c] = {}
  BY <1>1, DownSame DEF IInv, Phases
<1>4. Phases'
  BY <1>1 DEF IInv, Phases
<1>5. \A d \in Clients : Sent'[d] \subseteq Sent[d]
  BY <1>2
<1>6. OneWay'
  BY <1>1, <1>2, <1>5 DEF IInv, OneWay, Made
<1>7. Sources' /\ Synced'
  BY <1>1, <1>2, <1>3, ChannelTypes DEF IInv, Sources, Synced
<1> QED
  BY <1>4, <1>6, <1>7 DEF IInv

LEMMA ReadyStep ==
  ASSUME IInv, NEW c \in Clients, HandleReady(c), TypeOK'
  PROVE  IInv'
<1> USE DEF server
<1> DEFINE R == IF Head(up[c]).ok /\ c \in presence /\ draft # {} /\ page[c] # "closed"
                THEN {c} ELSE {}
           m == [kind |-> "apply", ops |-> draft]
<1>1. page[c] \notin Early /\ c \in presence
  BY DEF IInv, Phases, HandleReady
<1>2. /\ UNCHANGED <<draft, presence, page, start, ydoc, needs>>
      /\ \A d \in Clients \ {c} : up'[d] = up[d]
      /\ editors' = IF Head(up[c]).ok THEN editors \cup {c} ELSE editors
  BY <1>1 DEF IInv, TypeOK, HandleReady
<1>3. Ordered' /\ Sent' = Sent
  BY UpTaken DEF IInv, OneWay, HandleReady
<1>4. \A d \in Clients : down'[d] = IF d \in R THEN Append(down[d], m) ELSE down[d]
  BY <1>1 DEF IInv, TypeOK, HandleReady, Send
<1>5. R \subseteq Clients /\ m \in DownMsg /\ m.kind = "apply" /\ m.ops = draft
  BY ChannelTypes, Messages DEF IInv
<1>6. \A d \in R : d = c /\ page[d] # "closed"
  OBVIOUS
<1>7. Head(up[c]).ok /\ page[c] # "closed" /\ draft # {} => c \in R
  BY <1>1
<1> HIDE DEF R, m
<1>8. \A d \in Clients : Coming'[d] = IF d \in R THEN Coming[d] \cup draft ELSE Coming[d]
  BY <1>4, <1>5, DownSent, SMTT(30) DEF IInv
<1>9. Phases'
  BY <1>1, <1>2, <1>4, <1>6 DEF IInv, Phases, Early
<1>10. OneWay'
  BY <1>2, <1>3 DEF IInv, OneWay, Made
<1>11. Sources'
  BY <1>2, <1>3, <1>8 DEF IInv, Sources
<1>12. Synced'
  BY <1>2, <1>7, <1>8, ChannelTypes, ZenonT(40) DEF IInv, Synced
<1> QED
  BY <1>9, <1>10, <1>11, <1>12 DEF IInv

LEMMA FlushStep ==
  ASSUME IInv, FlushMilkdown, TypeOK'
  PROVE  IInv'
<1> USE DEF server
<1> DEFINE R == {d \in editors : page[d] # "closed"}
           m == [kind |-> "flush"]
<1>1. UNCHANGED <<draft, mirror, presence, editors, page, start, ydoc, up, needs>>
  BY DEF FlushMilkdown
<1>2. \A d \in Clients : down'[d] = IF d \in R THEN Append(down[d], m) ELSE down[d]
  BY DEF FlushMilkdown, Send
<1>3. R \subseteq Clients /\ m \in DownMsg /\ m.kind # "apply"
  BY ChannelTypes, Messages DEF IInv
<1>4. \A d \in R : d \in editors /\ page[d] # "closed"
  OBVIOUS
<1> HIDE DEF R, m
<1>5. Coming' = Coming
  BY <1>2, <1>3, DownSent DEF IInv
<1>6. Ordered' /\ Sent' = Sent
  BY <1>1, UpSame DEF IInv, OneWay
<1>7. Phases'
  BY <1>1, <1>2, <1>4 DEF IInv, Phases
<1>8. OneWay' /\ Sources' /\ Synced'
  BY <1>1, <1>5, <1>6 DEF IInv, OneWay, Sources, Synced, Made
<1> QED
  BY <1>7, <1>8 DEF IInv

(* What the handler of an update does to the operations under way. *)
LEMMA UpdateEffect ==
  ASSUME IInv, NEW c \in Clients, HandleUpdate(c)
  PROVE  \E o \in Ops :
    /\ o \in Sent[c] /\ draft' = draft \cup {o}
    /\ Ordered' /\ Sent' = [Sent EXCEPT ![c] = @ \ {o}]
    /\ \A d \in Clients : Coming'[d] =
         IF d \in editors /\ d # c /\ page[d] # "closed" THEN Coming[d] \cup {o} ELSE Coming[d]
    /\ \A d \in Clients :
         down'[d] = down[d] \/ (d \in editors /\ page[d] # "closed")
<1> DEFINE ops == Head(up[c]).ops
           R == {d \in editors \ {c} : page[d] # "closed"}
           m == [kind |-> "apply", ops |-> ops]
<1>1. /\ Single(ops) /\ ops \subseteq Sent[c] /\ Ordered'
      /\ Sent' = [Sent EXCEPT ![c] = @ \ ops]
  BY UpTaken DEF IInv, OneWay, HandleUpdate
<1>2. ops \in SUBSET Ops
  BY <1>1, ChannelTypes DEF IInv
<1>3. \A d \in Clients : down'[d] = IF d \in R THEN Append(down[d], m) ELSE down[d]
  BY DEF HandleUpdate, BroadcastYjs, Send
<1>4. R \subseteq Clients /\ m \in DownMsg /\ m.kind = "apply" /\ m.ops = ops
  BY <1>2, ChannelTypes, Messages DEF IInv
<1>5. draft' = draft \cup ops
  BY DEF HandleUpdate
<1>6. \A d \in R : d \in editors /\ d # c /\ page[d] # "closed"
  OBVIOUS
<1>7. \A d \in Clients : d \in editors /\ d # c /\ page[d] # "closed" => d \in R
  OBVIOUS
<1> HIDE DEF ops, R, m
<1>8. \A d \in Clients : Coming'[d] = IF d \in R THEN Coming[d] \cup ops ELSE Coming[d]
  BY <1>3, <1>4, DownSent DEF IInv
<1>9. PICK o : ops = {o}
  BY <1>1 DEF Single
<1>10. o \in Ops /\ o \in Sent[c]
  BY <1>1, <1>2, <1>9
<1> QED
  BY <1>1, <1>3, <1>5, <1>6, <1>7, <1>8, <1>9, <1>10

LEMMA UpdateStep ==
  ASSUME IInv, NEW c \in Clients, HandleUpdate(c), TypeOK'
  PROVE  IInv'
<1>1. PICK o \in Ops :
        /\ o \in Sent[c] /\ draft' = draft \cup {o}
        /\ Ordered' /\ Sent' = [Sent EXCEPT ![c] = @ \ {o}]
        /\ \A d \in Clients : Coming'[d] =
             IF d \in editors /\ d # c /\ page[d] # "closed" THEN Coming[d] \cup {o} ELSE Coming[d]
        /\ \A d \in Clients : down'[d] = down[d] \/ (d \in editors /\ page[d] # "closed")
  BY UpdateEffect
<1>2. /\ UNCHANGED <<presence, editors, page, start, ydoc, needs>> /\ up[c] # << >>
      /\ \A d \in Clients \ {c} : up'[d] = up[d]
  BY DEF HandleUpdate, IInv, TypeOK
<1>3. page[c] \notin Early /\ c \in presence
  BY <1>2 DEF IInv, Phases
<1>4. \A d \in Clients : d # c => Seed(d) # o /\ o \notin Sent[d]
  BY <1>1 DEF IInv, OneWay
<1>5. /\ Sent'[c] = Sent[c] \ {o} /\ \A d \in Clients \ {c} : Sent'[d] = Sent[d]
  BY <1>1, ChannelTypes DEF IInv
<1>6. Phases'
  BY <1>1, <1>2, <1>3, <1>4 DEF IInv, Phases, Early
<1>7. o \in Made
  BY <1>1 DEF IInv, OneWay
<1>8. \A d \in Clients : Sent'[d] \subseteq Sent[d] /\ o \notin Sent'[d]
  BY <1>4, <1>5
<1>9. OneWay'
  BY <1>1, <1>2, <1>7, <1>8 DEF IInv, OneWay, Made
<1>10. Sources'
  <2> SUFFICES ASSUME NEW d \in Clients
               PROVE  /\ Coming'[d] \subseteq draft'
                      /\ page'[d] # "closed" => Sent'[d] \subseteq ydoc'[d]
                      /\ ydoc'[d] \subseteq draft' \cup Sent'[d]
    BY DEF Sources
  <2> QED
    BY <1>1, <1>2, <1>5 DEF IInv, Sources
<1>11. ASSUME NEW d \in editors, page[d] # "closed"
       PROVE  draft \cup {o} \subseteq ydoc[d] \cup Coming'[d]
  <2>1. d \in Clients /\ draft \subseteq ydoc[d] \cup Coming[d]
    BY <1>11, ChannelTypes DEF IInv, Synced
  <2>2. d = c => o \in ydoc[d]
    BY <1>1, <1>11, <2>1 DEF IInv, Sources
  <2> QED
    BY <1>1, <1>11, <2>1, <2>2
<1>12. Synced'
  BY <1>1, <1>2, <1>11 DEF Synced
<1> QED
  BY <1>6, <1>9, <1>10, <1>12 DEF IInv

LEMMA IInvNext ==
  ASSUME IInv, [Next]_vars
  PROVE  IInv'
<1>1. TypeOK'
  BY TypeNext DEF IInv
<1>2. CASE UNCHANGED vars
  <2>1. Sent' = Sent /\ Coming' = Coming /\ Ordered'
    BY <1>2, UpSame, DownSame DEF vars, IInv, OneWay
  <2> QED
    BY <1>1, <1>2, <2>1 DEF vars, IInv, Phases, OneWay, Sources, Synced, Made
<1>3. CASE FlushMilkdown
  BY <1>1, <1>3, FlushStep
<1>4. ASSUME NEW c \in Clients, NEW e \in Edits, Edit(c, e) PROVE IInv'
  BY <1>1, <1>4, EditStep
<1>5. ASSUME NEW c \in Clients,
             \/ CreateEditor(c) \/ EditorCreated(c) \/ EditorFails(c)
             \/ ApplyRemote(c) \/ FlushNow(c) \/ ClosePage(c)
             \/ OpenPage(c) \/ OpenRespond(c) \/ DeleteClient(c)
             \/ HandleReady(c) \/ HandleUpdate(c) \/ HandleFlush(c)
      PROVE  IInv'
  BY <1>1, <1>5, StartingSteps, CreatedStep, FailsStep, ApplyStep, MirrorSteps, CloseStep,
     DeleteStep, ReadyStep, UpdateStep
<1> QED
  BY <1>2, <1>3, <1>4, <1>5 DEF Next

LEMMA AlwaysIInv == Spec => []IInv
BY IInvInit, IInvNext, PTL DEF Spec

-----------------------------------------------------------------------------
(* Nothing the relay delivered comes back as an update of a browser: what  *)
(* the observer of the bundle sends is never in the draft already          *)
(* (static/milkdown/src/index.js, yDoc.on).                                *)
THEOREM NeverEchoes == Spec => []NoEcho
<1>1. IInv => NoEcho
  BY DEF IInv, OneWay, Sent, NoEcho, UpOps, Carried
<1> QED
  BY <1>1, AlwaysIInv, PTL

(* Any number of editors, however they start, fail and close, agree with   *)
(* the server but for what is under way (_setup_yjs_event_handler and      *)
(* on_editor_ready in respond.py).                                         *)
THEOREM Converges == Spec => []Converging
<1>1. ASSUME IInv PROVE Converging
  <2>1. \A c \in editors : c \in Clients /\ UpOps(c) = Sent[c] /\ DownOps(c) = Coming[c]
    BY <1>1 DEF IInv, TypeOK, Sent, Coming, UpOps, DownOps, Carried
  <2> QED
    BY <1>1, <2>1 DEF IInv, Sources, Synced, Converging
<1> QED
  BY <1>1, AlwaysIInv, PTL

-----------------------------------------------------------------------------
(* The relay implements the shared draft                                   *)

Posted == UNION {UpOps(c) : c \in Clients}

LEMMA PostedIsSent ==
  /\ Posted = UNION {Sent[c] : c \in Clients}
  /\ Posted' = UNION {Sent'[c] : c \in Clients}
<1>1. \A c \in Clients : UpOps(c) = Sent[c]
  BY DEF UpOps, Sent, Carried
<1>2. \A c \in Clients : UpOps(c)' = Sent'[c]
  BY DEF UpOps, Sent, Carried
<1> QED
  BY <1>1, <1>2 DEF Posted

(* Opening, starting, reporting ready and the mirror do not show in it. *)
LEMMA Stutters ==
  ASSUME IInv, NEW c \in Clients,
         \/ CreateEditor(c) \/ OpenPage(c) \/ OpenRespond(c) \/ EditorFails(c)
         \/ FlushNow(c) \/ HandleFlush(c) \/ HandleReady(c)
  PROVE  UNCHANGED <<draft, Posted, ydoc>>
<1>1. CASE CreateEditor(c) \/ OpenPage(c) \/ OpenRespond(c)
  <2>1. UNCHANGED <<draft, ydoc, up>>
    BY <1>1 DEF server, CreateEditor, OpenPage, OpenRespond
  <2>2. Sent' = Sent
    BY <2>1, UpSame DEF IInv, OneWay
  <2> QED
    BY <2>1, <2>2, PostedIsSent
<1>2. CASE EditorFails(c)
  <2>1. Ready(FALSE) \in UpMsg /\ Ready(FALSE).kind # "update"
    BY Messages, Kinds
  <2>2. Sent' = Sent
    BY <1>2, <2>1, UpAppended DEF IInv, OneWay, EditorFails
  <2> QED
    BY <1>2, <2>2, PostedIsSent DEF EditorFails, server
<1>3. CASE FlushNow(c)
  <2>1. Flushed(ydoc[c]) \in UpMsg /\ Flushed(ydoc[c]).kind # "update"
    BY Messages, Kinds DEF IInv, TypeOK
  <2>2. Sent' = Sent
    BY <1>3, <2>1, UpAppended DEF IInv, OneWay, FlushNow
  <2> QED
    BY <1>3, <2>2, PostedIsSent DEF FlushNow, server
<1>4. CASE HandleFlush(c) \/ HandleReady(c)
  <2>1. Sent' = Sent
    BY <1>4, UpTaken DEF IInv, OneWay, HandleFlush, HandleReady
  <2> QED
    BY <1>4, <2>1, PostedIsSent DEF HandleFlush, HandleReady
<1> QED
  BY <1>1, <1>2, <1>3, <1>4

LEMMA CreatedImplements ==
  ASSUME IInv, NEW c \in Clients, EditorCreated(c)
  PROVE  \/ \E o \in Ops : SD!Make(c, o)
         \/ \E new \in SUBSET draft : SD!Learn(c, new)
<1>1. /\ up[c] = << >> /\ ydoc[c] = {} /\ Sent[c] = {} /\ start[c].state \subseteq draft
      /\ start[c].seed => start[c].state = {} /\ Seed(c) \notin draft
  BY Quiet DEF IInv, Phases, Early, EditorCreated
<1>2. Sent' = [Sent EXCEPT ![c] = IF start[c].seed THEN {Seed(c)} ELSE {}]
  BY <1>1, UpGreeted DEF IInv, OneWay
<1>3. draft' = draft /\ ydoc' = [ydoc EXCEPT ![c] =
          @ \cup start[c].state \cup IF start[c].seed THEN {Seed(c)} ELSE {}]
  BY DEF EditorCreated, server
<1>4. CASE start[c].seed
  <2>1. Seed(c) \in Ops /\ Seed(c) \notin draft /\ \A d \in Clients : Seed(c) \notin Sent[d]
    BY <1>1, <1>4 DEF IInv, OneWay, Seed, Ops
  <2>2. Sent'[c] = {Seed(c)} /\ \A d \in Clients \ {c} : Sent'[d] = Sent[d]
    BY <1>2, <1>4, ChannelTypes DEF IInv
  <2>3. Seed(c) \notin Posted /\ Posted' = Posted \cup {Seed(c)}
    BY <1>1, <2>1, <2>2, PostedIsSent
  <2>4. ydoc' = [ydoc EXCEPT ![c] = @ \cup {Seed(c)}]
    BY <1>1, <1>3, <1>4
  <2> QED
    BY <1>3, <2>1, <2>3, <2>4 DEF SD!Make, Posted
<1>5. CASE ~start[c].seed
  <2>1. Sent'[c] = Sent[c] /\ \A d \in Clients \ {c} : Sent'[d] = Sent[d]
    BY <1>1, <1>2, <1>5, ChannelTypes DEF IInv
  <2>2. Posted' = Posted
    BY <2>1, PostedIsSent
  <2>3. ydoc' = [ydoc EXCEPT ![c] = @ \cup start[c].state]
    BY <1>3, <1>5
  <2> QED
    BY <1>1, <1>3, <2>2, <2>3 DEF SD!Learn, Posted
<1> QED
  BY <1>4, <1>5

LEMMA EditImplements ==
  ASSUME IInv, NEW c \in Clients, NEW e \in Edits, Edit(c, e)
  PROVE  e \in Ops /\ SD!Make(c, e)
<1>1. e \in Ops /\ e \notin draft /\ \A d \in Clients : e \notin Sent[d]
  BY DEF Edit, IInv, OneWay, Ops
<1>2. ydoc[c] \cup {e} \in SUBSET Ops
  BY <1>1 DEF IInv, TypeOK
<1>3. Sent' = [Sent EXCEPT ![c] = @ \cup {e}]
  BY <1>1, <1>2, UpPosted DEF Edit, OnUpdate, IInv, OneWay
<1>4. Sent'[c] = Sent[c] \cup {e} /\ \A d \in Clients \ {c} : Sent'[d] = Sent[d]
  BY <1>3, ChannelTypes DEF IInv
<1>5. e \notin Posted /\ Posted' = Posted \cup {e}
  BY <1>1, <1>4, PostedIsSent
<1>6. draft' = draft /\ ydoc' = [ydoc EXCEPT ![c] = @ \cup {e}]
  BY DEF Edit, server
<1> QED
  BY <1>1, <1>5, <1>6 DEF SD!Make, Posted

LEMMA ApplyImplements ==
  ASSUME IInv, NEW c \in Clients, ApplyRemote(c)
  PROVE  \E new \in SUBSET draft : SD!Learn(c, new)
<1>1. Head(down[c]).ops \subseteq draft
  BY DownTaken DEF ApplyRemote, IInv, Sources
<1>2. up' = up
  <2>1. up' = [up EXCEPT ![c] = up[c] \o << >>] /\ up[c] \in Seq(UpMsg)
    BY ChannelTypes DEF ApplyRemote, OnUpdate, IInv
  <2>2. up[c] \o << >> = up[c]
    BY <2>1, ConcatEmptySeq
  <2> QED
    BY <2>1, <2>2 DEF IInv, TypeOK
<1>3. Posted' = Posted
  BY <1>2, UpSame, PostedIsSent DEF IInv, OneWay
<1>4. draft' = draft /\ ydoc' = [ydoc EXCEPT ![c] = @ \cup Head(down[c]).ops]
  BY DEF ApplyRemote, server
<1> QED
  BY <1>1, <1>3, <1>4 DEF SD!Learn, Posted

LEMMA UpdateImplements ==
  ASSUME IInv, NEW c \in Clients, HandleUpdate(c)
  PROVE  \E o \in Ops : SD!Accept(o)
<1>1. PICK o \in Ops : /\ o \in Sent[c] /\ draft' = draft \cup {o}
                      /\ Sent' = [Sent EXCEPT ![c] = @ \ {o}]
  BY UpdateEffect
<1>2. \A d \in Clients \ {c} : o \notin Sent[d]
  BY <1>1 DEF IInv, OneWay
<1>3. Sent'[c] = Sent[c] \ {o} /\ \A d \in Clients \ {c} : Sent'[d] = Sent[d]
  BY <1>1, ChannelTypes DEF IInv
<1>4. \A d \in Clients : Sent'[d] = Sent[d] \ {o}
  BY <1>2, <1>3
<1>5. o \in Posted /\ Posted' = Posted \ {o}
  BY <1>1, <1>4, PostedIsSent
<1>6. ydoc' = ydoc
  BY DEF HandleUpdate
<1> QED
  BY <1>1, <1>5, <1>6 DEF SD!Accept, Posted

LEMMA LeavingImplements ==
  ASSUME IInv, NEW c \in Clients, ClosePage(c) \/ DeleteClient(c)
  PROVE  SD!Leave(c)
<1>1. Sent'[c] \subseteq Sent[c] /\ \A d \in Clients \ {c} : Sent'[d] = Sent[d]
  BY UpCut, UpEmptied DEF IInv, OneWay, ClosePage, DeleteClient
<1>2. Posted' \subseteq Posted
  BY <1>1, PostedIsSent
<1>3. draft' = draft /\ ydoc' = [ydoc EXCEPT ![c] = {}]
  <2>1. CASE ClosePage(c)
    BY <2>1 DEF ClosePage, server
  <2>2. CASE DeleteClient(c)
    BY <2>2 DEF DeleteClient, IInv, TypeOK, Phases
  <2> QED
    BY <2>1, <2>2
<1> QED
  BY <1>2, <1>3 DEF SD!Leave, Posted

LEMMA StepImplements ==
  ASSUME IInv, [Next]_vars
  PROVE  [SD!Next]_(SD!vars)
<1>1. CASE UNCHANGED vars
  BY <1>1, UpSame, PostedIsSent DEF vars, SD!vars, Posted, IInv, OneWay
<1>2. ASSUME NEW c \in Clients, NEW e \in Edits, Edit(c, e) PROVE SD!Next
  BY <1>2, EditImplements DEF SD!Next
<1>3. ASSUME NEW c \in Clients, EditorCreated(c) PROVE SD!Next
  BY <1>3, CreatedImplements DEF SD!Next
<1>4. ASSUME NEW c \in Clients, ApplyRemote(c) PROVE SD!Next
  BY <1>4, ApplyImplements DEF SD!Next
<1>5. ASSUME NEW c \in Clients, HandleUpdate(c) PROVE SD!Next
  BY <1>5, UpdateImplements DEF SD!Next
<1>6. ASSUME NEW c \in Clients, ClosePage(c) \/ DeleteClient(c) PROVE SD!Next
  BY <1>6, LeavingImplements DEF SD!Next
<1>7. ASSUME NEW c \in Clients,
             \/ CreateEditor(c) \/ OpenPage(c) \/ OpenRespond(c) \/ EditorFails(c)
             \/ FlushNow(c) \/ HandleFlush(c) \/ HandleReady(c)
      PROVE  UNCHANGED SD!vars
  BY <1>7, Stutters DEF SD!vars, Posted
<1>8. CASE FlushMilkdown
  BY <1>8, UpSame, PostedIsSent DEF FlushMilkdown, server, SD!vars, Posted, IInv, OneWay
<1> QED
  BY <1>1, <1>2, <1>3, <1>4, <1>5, <1>6, <1>7, <1>8 DEF Next

(* The server, the browsers and the messages between them are, to whoever  *)
(* looks at the draft and the editors, one shared draft: the safety part   *)
(* of the promise (fairness is left to model checking).                    *)
THEOREM RefinesSharedDraft == Spec => SD!Spec
<1>1. Init => SD!Init
  <2> SUFFICES ASSUME Init PROVE SD!Init
    OBVIOUS
  <2>1. \A c \in Clients : UpOps(c) = {}
    BY DEF Init, UpOps
  <2> QED
    BY <2>1 DEF Init, SD!Init
<1>2. IInv /\ [Next]_vars => [SD!Next]_(SD!vars)
  BY StepImplements
<1> QED
  BY <1>1, <1>2, AlwaysIInv, PTL DEF Spec, SD!Spec

-----------------------------------------------------------------------------
(* What an operation was made on arrives before it                         *)

(* What the first n messages of a channel bring. *)
Upto(s, k, n) == UNION {s[i].ops : i \in {j \in DOMAIN s : j <= n /\ s[j].kind = k}}

(* Every message of the channel stands in R to what its receiver will hold *)
(* when it has taken those before it.                                      *)
Explained(s, k, base, R) == \A i \in DOMAIN s : <<s[i], base \cup Upto(s, k, i - 1)>> \in R

LEMMA ExplainedAppend ==
  ASSUME NEW M, NEW s \in Seq(M), NEW m \in M, NEW k, NEW base, NEW R,
         Explained(s, k, base, R), <<m, base \cup Carried(s, k)>> \in R
  PROVE  Explained(Append(s, m), k, base, R)
<1> DEFINE t == Append(s, m)
<1>1. /\ DOMAIN t = DOMAIN s \cup {Len(s) + 1} /\ t[Len(s) + 1] = m
      /\ \A i \in DOMAIN s : t[i] = s[i]
      /\ DOMAIN s = 1 .. Len(s) /\ Len(s) \in Nat
  BY AppendProperties, LenProperties
<1> HIDE DEF t
<1>2. ASSUME NEW i \in DOMAIN s PROVE Upto(t, k, i - 1) = Upto(s, k, i - 1)
  <2>1. {j \in DOMAIN t : j <= i - 1 /\ t[j].kind = k}
          = {j \in DOMAIN s : j <= i - 1 /\ s[j].kind = k}
    BY <1>1
  <2> QED
    BY <2>1, <1>1 DEF Upto
<1>3. Upto(t, k, Len(s) + 1 - 1) = Carried(s, k)
  <2>1. {j \in DOMAIN t : j <= Len(s) + 1 - 1 /\ t[j].kind = k} = {j \in DOMAIN s : s[j].kind = k}
    BY <1>1
  <2> QED
    BY <2>1, <1>1 DEF Upto, Carried
<1>4. ASSUME NEW i \in DOMAIN t PROVE <<t[i], base \cup Upto(t, k, i - 1)>> \in R
  <2>1. CASE i \in DOMAIN s
    BY <2>1, <1>1, <1>2 DEF Explained
  <2>2. CASE i = Len(s) + 1
    BY <2>2, <1>1, <1>3
  <2> QED
    BY <2>1, <2>2, <1>1
<1>5. Explained(t, k, base, R)
  BY <1>4 DEF Explained
<1> QED
  BY <1>5 DEF t

LEMMA ExplainedTail ==
  ASSUME NEW M, NEW s \in Seq(M), s # << >>, NEW k, NEW base, NEW R, Explained(s, k, base, R)
  PROVE  /\ <<Head(s), base>> \in R
         /\ Head(s).kind = k => Explained(Tail(s), k, base \cup Head(s).ops, R)
         /\ Head(s).kind # k => Explained(Tail(s), k, base, R)
<1> DEFINE t == Tail(s)
           h == IF s[1].kind = k THEN s[1].ops ELSE {}
<1>1. /\ DOMAIN t = 1..(Len(s) - 1) /\ DOMAIN s = 1..Len(s)
      /\ Len(s) \in Nat \ {0} /\ Head(s) = s[1]
      /\ \A i \in DOMAIN t : t[i] = s[i + 1]
  BY HeadTailProperties, LenProperties
<1> HIDE DEF t
<1>2. Upto(s, k, 1 - 1) = {}
  BY <1>1 DEF Upto
<1>3. ASSUME NEW i \in DOMAIN t PROVE h \cup Upto(t, k, i - 1) = Upto(s, k, i + 1 - 1)
  <2>1. \A j \in DOMAIN s : j <= i + 1 - 1 /\ s[j].kind = k =>
          (j = 1 /\ h = s[1].ops) \/ (j - 1 \in DOMAIN t /\ j - 1 <= i - 1 /\ s[j] = t[j - 1])
    BY <1>1
  <2>2. \A j \in DOMAIN t : j <= i - 1 => j + 1 \in DOMAIN s /\ j + 1 <= i + 1 - 1
    BY <1>1
  <2>3. 1 \in DOMAIN s /\ 1 <= i + 1 - 1 /\ (s[1].kind = k => h = s[1].ops)
        /\ (s[1].kind # k => h = {})
    BY <1>1
  <2> HIDE DEF h
  <2>4. h \cup Upto(t, k, i - 1) \subseteq Upto(s, k, i + 1 - 1)
    BY <2>2, <2>3, <1>1 DEF Upto
  <2>5. Upto(s, k, i + 1 - 1) \subseteq h \cup Upto(t, k, i - 1)
    BY <2>1, <2>3, <1>1 DEF Upto
  <2> QED
    BY <2>4, <2>5
<1>4. s[1].kind = k => h = s[1].ops
  OBVIOUS
<1>5. s[1].kind # k => h = {}
  OBVIOUS
<1> HIDE DEF h
<1>6. ASSUME NEW i \in DOMAIN t PROVE <<t[i], base \cup h \cup Upto(t, k, i - 1)>> \in R
  <2>1. i + 1 \in DOMAIN s /\ t[i] = s[i + 1]
    BY <1>1
  <2>2. <<s[i + 1], base \cup Upto(s, k, i + 1 - 1)>> \in R
    BY <2>1, SMTT(30) DEF Explained
  <2>3. base \cup h \cup Upto(t, k, i - 1) = base \cup Upto(s, k, i + 1 - 1)
    BY <1>3
  <2> QED
    BY <2>1, <2>2, <2>3
<1>7. Explained(t, k, base \cup h, R)
  BY <1>6 DEF Explained
<1>8. <<s[1], base \cup Upto(s, k, 1 - 1)>> \in R
  BY <1>1 DEF Explained
<1>9. <<s[1], base>> \in R
  <2>1. base \cup Upto(s, k, 1 - 1) = base
    BY <1>2
  <2> QED
    BY <2>1, <1>8
<1>10. ASSUME Head(s).kind = k PROVE Explained(Tail(s), k, base \cup Head(s).ops, R)
  BY <1>1, <1>4, <1>7, <1>10 DEF t
<1>11. ASSUME Head(s).kind # k PROVE Explained(Tail(s), k, base, R)
  <2>1. base \cup h = base
    BY <1>1, <1>5, <1>11
  <2> QED
    BY <2>1, <1>7 DEF t
<1> QED
  BY <1>1, <1>9, <1>10, <1>11

LEMMA ExplainedPrefix ==
  ASSUME NEW M, NEW s \in Seq(M), NEW n \in 0 .. Len(s), NEW k, NEW base, NEW R,
         Explained(s, k, base, R)
  PROVE  Explained(SubSeq(s, 1, n), k, base, R)
<1> DEFINE t == SubSeq(s, 1, n)
<1>1. /\ DOMAIN t = 1 .. n /\ DOMAIN s = 1 .. Len(s) /\ Len(s) \in Nat
      /\ \A i \in DOMAIN t : t[i] = s[i]
  BY SubSeqProperties, LenProperties
<1> HIDE DEF t
<1>2. ASSUME NEW i \in DOMAIN t PROVE Upto(t, k, i - 1) = Upto(s, k, i - 1)
  <2>1. {j \in DOMAIN t : j <= i - 1 /\ t[j].kind = k}
          = {j \in DOMAIN s : j <= i - 1 /\ s[j].kind = k}
    BY <1>1
  <2> QED
    BY <2>1, <1>1 DEF Upto
<1>3. \A i \in DOMAIN t : i \in DOMAIN s
  BY <1>1
<1>4. Explained(t, k, base, R)
  BY <1>1, <1>2, <1>3 DEF Explained
<1> QED
  BY <1>4 DEF t

LEMMA ExplainedEmpty == ASSUME NEW k, NEW base, NEW R PROVE Explained(<< >>, k, base, R)
BY DEF Explained

(* A receiver that holds more is no worse off, as far as R allows. *)
LEMMA ExplainedMore ==
  ASSUME NEW M, NEW s \in Seq(M), NEW k, NEW base, NEW more, NEW R, NEW Q,
         Explained(s, k, base, R), base \subseteq more,
         \A i \in DOMAIN s : \A x \in SUBSET (base \cup Carried(s, k)) :
           \A y \in SUBSET (more \cup Carried(s, k)) :
             x \subseteq y /\ <<s[i], x>> \in R => <<s[i], y>> \in Q
  PROVE  Explained(s, k, more, Q)
<1>1. ASSUME NEW i \in DOMAIN s PROVE <<s[i], more \cup Upto(s, k, i - 1)>> \in Q
  <2> DEFINE u == Upto(s, k, i - 1)
  <2>1. u \subseteq Carried(s, k)
    BY DEF Upto, Carried
  <2>2. <<s[i], base \cup u>> \in R
    BY DEF Explained
  <2> HIDE DEF u
  <2>3. base \cup u \in SUBSET (base \cup Carried(s, k))
        /\ more \cup u \in SUBSET (more \cup Carried(s, k)) /\ base \cup u \subseteq more \cup u
    BY <2>1
  <2>4. <<s[i], more \cup u>> \in Q
    BY <2>2, <2>3
  <2> QED
    BY <2>4 DEF u
<1> QED
  BY <1>1 DEF Explained

(* A document with all that its operations were made on. *)
Closed(doc, made) == \A o \in doc : made[o] \subseteq doc

(* Messages, and what their receiver holds, such that no operation is      *)
(* missing what it was made on, nor a markdown text.                       *)
UpSound(made) ==
  {p \in UpMsg \X SUBSET Ops :
     /\ p[1].kind = "update" => /\ \A o \in p[1].ops : made[o] \subseteq p[2]
                                /\ p[1].markdown \subseteq p[2] \cup p[1].ops
     /\ p[1].kind = "flush" => p[1].markdown \subseteq p[2]
     /\ p[1].kind # "ready" => Closed(p[1].markdown, made)}

DownSound(made) ==
  {p \in DownMsg \X SUBSET Ops :
     p[1].kind = "apply" => \A o \in p[1].ops : made[o] \subseteq p[2] \cup p[1].ops}

(* The second invariant, for operations made on what the function says. *)
UpExplained(made) == \A c \in Clients : Explained(up[c], "update", draft, UpSound(made))
DownExplained(made) == \A c \in Clients : Explained(down[c], "apply", ydoc[c], DownSound(made))
DocsClosed(made) ==
  /\ Closed(draft, made)
  /\ \A c \in Clients : /\ Closed(ydoc[c], made)
                        /\ page[c] \in {"starting", "creating"} => Closed(start[c].state, made)
MirrorClosed(made) == mirror # {Original} => mirror \subseteq draft /\ Closed(mirror, made)

Causal(made) ==
  UpExplained(made) /\ DownExplained(made) /\ DocsClosed(made) /\ MirrorClosed(made)

LEMMA UpSoundMore ==
  ASSUME NEW made, NEW m, NEW x, NEW y \in SUBSET Ops, <<m, x>> \in UpSound(made), x \subseteq y
  PROVE  <<m, y>> \in UpSound(made)
BY DEF UpSound

LEMMA DownSoundMore ==
  ASSUME NEW made, NEW m, NEW x, NEW y \in SUBSET Ops, <<m, x>> \in DownSound(made), x \subseteq y
  PROVE  <<m, y>> \in DownSound(made)
BY DEF DownSound

(* The invariant says nothing of operations in no document and on no way:  *)
(* those a closed page took with it may be made again.                     *)
LEMMA MadeAgain ==
  ASSUME IInv, NEW made, Causal(made), NEW again,
         \A o \in Ops : o \in draft \/ (\E c \in Clients : o \in Sent[c]) => again[o] = made[o]
  PROVE  Causal(again)
<1>1. ASSUME NEW doc \in SUBSET Ops, Closed(doc, made),
             \A o \in doc : o \in draft \/ \E c \in Clients : o \in Sent[c]
      PROVE  Closed(doc, again)
  BY <1>1 DEF Closed
<1>2. \A c \in Clients : ydoc[c] \in SUBSET Ops /\ ydoc[c] \subseteq draft \cup Sent[c]
                         /\ Coming[c] \subseteq draft
  BY DEF IInv, TypeOK, Sources
<1>3. DocsClosed(again)
  BY <1>1, <1>2, ChannelTypes DEF IInv, Phases, Causal, DocsClosed
<1>4. MirrorClosed(again)
  BY <1>1, ChannelTypes DEF IInv, Causal, MirrorClosed
<1>5. ASSUME NEW c \in Clients PROVE Explained(up[c], "update", draft, UpSound(again))
  <2>1. up[c] \in Seq(UpMsg) /\ Explained(up[c], "update", draft, UpSound(made))
        /\ Carried(up[c], "update") = Sent[c]
    BY ChannelTypes DEF IInv, Causal, UpExplained, Sent
  <2>2. ASSUME NEW i \in DOMAIN up[c], NEW x \in SUBSET (draft \cup Sent[c]),
               NEW y \in SUBSET (draft \cup Sent[c]), x \subseteq y,
               <<up[c][i], x>> \in UpSound(made)
        PROVE  <<up[c][i], y>> \in UpSound(again)
    <3> DEFINE m == up[c][i]
    <3>1. m \in UpMsg /\ y \in SUBSET Ops
      BY ChannelTypes, ElementOfSeq, LenProperties DEF IInv
    <3>2. m.kind = "update" => m.ops \subseteq Sent[c] /\ m.markdown \in SUBSET Ops
      BY <3>1, Messages DEF Sent, Carried
    <3>3. m.kind = "flush" => m.markdown \in SUBSET Ops
      BY <3>1, Messages
    <3>4. m.kind \in {"update", "ready", "flush"}
      BY <3>1 DEF UpMsg
    <3> HIDE DEF m
    <3>5. <<m, x>> \in UpSound(made)
      BY <2>2 DEF m
    <3>6. m.kind # "ready" => Closed(m.markdown, again)
      <4>1. m.kind # "ready" => m.markdown \subseteq draft \cup Sent[c] /\ Closed(m.markdown, made)
        BY <3>2, <3>4, <3>5 DEF UpSound
      <4> QED
        BY <4>1, <1>1, <3>2, <3>3, <3>4
    <3>7. m.kind = "update" => /\ \A o \in m.ops : again[o] \subseteq y
                               /\ m.markdown \subseteq y \cup m.ops
      <4>1. m.kind = "update" => /\ \A o \in m.ops : made[o] \subseteq x
                                 /\ m.markdown \subseteq x \cup m.ops
        BY <3>5 DEF UpSound
      <4>2. m.kind = "update" => \A o \in m.ops : again[o] = made[o]
        BY <3>2, ChannelTypes DEF IInv
      <4> QED
        BY <4>1, <4>2, <2>2
    <3>8. m.kind = "flush" => m.markdown \subseteq y
      BY <3>5, <2>2 DEF UpSound
    <3>9. <<m, y>> \in UpSound(again)
      BY <3>1, <3>6, <3>7, <3>8 DEF UpSound, m
    <3> QED
      BY <3>9 DEF m
  <2> QED
    BY <2>1, <2>2, ExplainedMore
<1>6. ASSUME NEW c \in Clients PROVE Explained(down[c], "apply", ydoc[c], DownSound(again))
  <2>1. down[c] \in Seq(DownMsg) /\ Explained(down[c], "apply", ydoc[c], DownSound(made))
        /\ Carried(down[c], "apply") = Coming[c]
    BY ChannelTypes DEF IInv, Causal, DownExplained, Coming
  <2>2. ASSUME NEW i \in DOMAIN down[c], NEW x \in SUBSET (ydoc[c] \cup Coming[c]),
               NEW y \in SUBSET (ydoc[c] \cup Coming[c]), x \subseteq y,
               <<down[c][i], x>> \in DownSound(made)
        PROVE  <<down[c][i], y>> \in DownSound(again)
    <3> DEFINE m == down[c][i]
    <3>1. m \in DownMsg /\ y \in SUBSET Ops
      BY <1>2, ChannelTypes, ElementOfSeq, LenProperties DEF IInv
    <3>2. m.kind = "apply" => m.ops \subseteq draft /\ m.ops \in SUBSET Ops
      BY <1>2, <3>1, Messages DEF Coming, Carried
    <3> HIDE DEF m
    <3>3. <<m, x>> \in DownSound(made)
      BY <2>2 DEF m
    <3>4. m.kind = "apply" => \A o \in m.ops : again[o] = made[o]
      BY <3>2
    <3>5. <<m, y>> \in DownSound(again)
      BY <2>2, <3>1, <3>3, <3>4 DEF DownSound
    <3> QED
      BY <3>5 DEF m
  <2>3. \A i \in DOMAIN down[c] : \A x, y \in SUBSET (ydoc[c] \cup Carried(down[c], "apply")) :
          x \subseteq y /\ <<down[c][i], x>> \in DownSound(made) =>
            <<down[c][i], y>> \in DownSound(again)
    BY <2>1, <2>2
  <2> QED
    BY <2>1, <2>3, ExplainedMore
<1> QED
  BY <1>3, <1>4, <1>5, <1>6 DEF Causal, UpExplained, DownExplained

(* What the messages of the relay need to be sound. *)
LEMMA Sound ==
  ASSUME NEW made
  PROVE  /\ \A ok \in BOOLEAN, x \in SUBSET Ops : <<Ready(ok), x>> \in UpSound(made)
         /\ \A text, x \in SUBSET Ops :
              text \subseteq x /\ Closed(text, made) => <<Flushed(text), x>> \in UpSound(made)
         /\ \A o \in Ops, text, x \in SUBSET Ops :
              made[o] \subseteq x /\ text \subseteq x \cup {o} /\ Closed(text, made) =>
                <<Update({o}, text), x>> \in UpSound(made)
         /\ \A x \in SUBSET Ops : <<[kind |-> "flush"], x>> \in DownSound(made)
         /\ \A ops, x \in SUBSET Ops :
              (\A o \in ops : made[o] \subseteq x \cup ops) =>
                <<[kind |-> "apply", ops |-> ops], x>> \in DownSound(made)
<1>1. \A ok \in BOOLEAN, x \in SUBSET Ops : <<Ready(ok), x>> \in UpSound(made)
  BY Messages DEF UpSound, Ready
<1>2. \A text, x \in SUBSET Ops :
        text \subseteq x /\ Closed(text, made) => <<Flushed(text), x>> \in UpSound(made)
  BY Messages DEF UpSound, Flushed
<1>3. \A o \in Ops, text, x \in SUBSET Ops :
        made[o] \subseteq x /\ text \subseteq x \cup {o} /\ Closed(text, made) =>
          <<Update({o}, text), x>> \in UpSound(made)
  BY Messages DEF UpSound, Update
<1>4. \A x \in SUBSET Ops : <<[kind |-> "flush"], x>> \in DownSound(made)
  BY Messages DEF DownSound
<1>5. \A ops, x \in SUBSET Ops :
        (\A o \in ops : made[o] \subseteq x \cup ops) =>
          <<[kind |-> "apply", ops |-> ops], x>> \in DownSound(made)
  BY Messages DEF DownSound
<1> QED
  BY <1>1, <1>2, <1>3, <1>4, <1>5

LEMMA UpLonger ==
  ASSUME TypeOK, NEW made, UpExplained(made), NEW c \in Clients, NEW m \in UpMsg,
         <<m, draft \cup Sent[c]>> \in UpSound(made), up' = [up EXCEPT ![c] = Append(@, m)]
  PROVE  \A d \in Clients : Explained(up'[d], "update", draft, UpSound(made))
<1>1. up[c] \in Seq(UpMsg) /\ Carried(up[c], "update") = Sent[c]
      /\ \A d \in Clients : Explained(up[d], "update", draft, UpSound(made))
  BY ChannelTypes DEF Sent, UpExplained
<1>2. Explained(Append(up[c], m), "update", draft, UpSound(made))
  BY <1>1, ExplainedAppend
<1>3. \A d \in Clients : up'[d] = IF d = c THEN Append(up[c], m) ELSE up[d]
  BY DEF TypeOK
<1> QED
  BY <1>1, <1>2, <1>3

LEMMA UpShorter ==
  ASSUME TypeOK, NEW made, UpExplained(made), NEW c \in Clients, up[c] # << >>,
         up' = [up EXCEPT ![c] = Tail(@)]
  PROVE  /\ <<Head(up[c]), draft>> \in UpSound(made)
         /\ Head(up[c]).kind # "update" =>
              \A d \in Clients : Explained(up'[d], "update", draft, UpSound(made))
         /\ Head(up[c]).kind = "update" =>
              Explained(up'[c], "update", draft \cup Head(up[c]).ops, UpSound(made))
         /\ \A d \in Clients \ {c} : up'[d] = up[d]
<1>1. up[c] \in Seq(UpMsg)
      /\ \A d \in Clients : Explained(up[d], "update", draft, UpSound(made))
  BY ChannelTypes DEF UpExplained
<1>2. /\ <<Head(up[c]), draft>> \in UpSound(made)
      /\ Head(up[c]).kind # "update" => Explained(Tail(up[c]), "update", draft, UpSound(made))
      /\ Head(up[c]).kind = "update" =>
           Explained(Tail(up[c]), "update", draft \cup Head(up[c]).ops, UpSound(made))
  BY <1>1, ExplainedTail
<1>3. \A d \in Clients : up'[d] = IF d = c THEN Tail(up[c]) ELSE up[d]
  BY DEF TypeOK
<1> QED
  BY <1>1, <1>2, <1>3

(* A receiver with a larger document understands the same messages. *)
LEMMA UpBase ==
  ASSUME NEW made, NEW s \in Seq(UpMsg), NEW base, NEW more,
         base \subseteq more, more \cup Carried(s, "update") \in SUBSET Ops,
         Explained(s, "update", base, UpSound(made))
  PROVE  Explained(s, "update", more, UpSound(made))
<1>1. ASSUME NEW i \in DOMAIN s, NEW x, NEW y \in SUBSET (more \cup Carried(s, "update")),
             x \subseteq y, <<s[i], x>> \in UpSound(made)
      PROVE  <<s[i], y>> \in UpSound(made)
  BY <1>1, UpSoundMore
<1>2. \A i \in DOMAIN s : \A x \in SUBSET (base \cup Carried(s, "update")) :
        \A y \in SUBSET (more \cup Carried(s, "update")) :
          x \subseteq y /\ <<s[i], x>> \in UpSound(made) => <<s[i], y>> \in UpSound(made)
  BY <1>1
<1> QED
  BY <1>2, ExplainedMore

LEMMA DownBase ==
  ASSUME NEW made, NEW s \in Seq(DownMsg), NEW base, NEW more,
         base \subseteq more, more \cup Carried(s, "apply") \in SUBSET Ops,
         Explained(s, "apply", base, DownSound(made))
  PROVE  Explained(s, "apply", more, DownSound(made))
<1>1. ASSUME NEW i \in DOMAIN s, NEW x, NEW y \in SUBSET (more \cup Carried(s, "apply")),
             x \subseteq y, <<s[i], x>> \in DownSound(made)
      PROVE  <<s[i], y>> \in DownSound(made)
  BY <1>1, DownSoundMore
<1>2. \A i \in DOMAIN s : \A x \in SUBSET (base \cup Carried(s, "apply")) :
        \A y \in SUBSET (more \cup Carried(s, "apply")) :
          x \subseteq y /\ <<s[i], x>> \in DownSound(made) => <<s[i], y>> \in DownSound(made)
  BY <1>1
<1> QED
  BY <1>2, ExplainedMore

LEMMA DownLonger ==
  ASSUME TypeOK, NEW made, DownExplained(made), NEW R \in SUBSET Clients, NEW m \in DownMsg,
         \A d \in R : <<m, ydoc[d] \cup Coming[d]>> \in DownSound(made),
         \A d \in Clients : down'[d] = IF d \in R THEN Append(down[d], m) ELSE down[d]
  PROVE  \A d \in Clients : Explained(down'[d], "apply", ydoc[d], DownSound(made))
<1>1. ASSUME NEW d \in Clients
      PROVE  /\ down[d] \in Seq(DownMsg) /\ Carried(down[d], "apply") = Coming[d]
             /\ Explained(down[d], "apply", ydoc[d], DownSound(made))
  BY ChannelTypes DEF Coming, DownExplained
<1>2. ASSUME NEW d \in R PROVE Explained(Append(down[d], m), "apply", ydoc[d], DownSound(made))
  BY <1>1, ExplainedAppend
<1> QED
  BY <1>1, <1>2

LEMMA DownShorter ==
  ASSUME TypeOK, NEW made, DownExplained(made), NEW c \in Clients, down[c] # << >>,
         down' = [down EXCEPT ![c] = Tail(@)]
  PROVE  /\ <<Head(down[c]), ydoc[c]>> \in DownSound(made)
         /\ Head(down[c]).kind # "apply" =>
              \A d \in Clients : Explained(down'[d], "apply", ydoc[d], DownSound(made))
         /\ Head(down[c]).kind = "apply" =>
              Explained(down'[c], "apply", ydoc[c] \cup Head(down[c]).ops, DownSound(made))
         /\ \A d \in Clients \ {c} : down'[d] = down[d]
<1>1. down[c] \in Seq(DownMsg)
      /\ \A d \in Clients : Explained(down[d], "apply", ydoc[d], DownSound(made))
  BY ChannelTypes DEF DownExplained
<1>2. /\ <<Head(down[c]), ydoc[c]>> \in DownSound(made)
      /\ Head(down[c]).kind # "apply" =>
           Explained(Tail(down[c]), "apply", ydoc[c], DownSound(made))
      /\ Head(down[c]).kind = "apply" =>
           Explained(Tail(down[c]), "apply", ydoc[c] \cup Head(down[c]).ops, DownSound(made))
  BY <1>1, ExplainedTail
<1>3. \A d \in Clients : down'[d] = IF d = c THEN Tail(down[c]) ELSE down[d]
  BY DEF TypeOK
<1> QED
  BY <1>1, <1>2, <1>3

-----------------------------------------------------------------------------
(* What has to be shown of a step, conjunct by conjunct. *)
LEMMA CausalParts ==
  ASSUME \A d \in Clients : Explained(up'[d], "update", draft', UpSound(needs')),
         \A d \in Clients : Explained(down'[d], "apply", ydoc'[d], DownSound(needs')),
         Closed(draft', needs'), \A d \in Clients : Closed(ydoc'[d], needs'),
         \A d \in Clients : page'[d] \in {"starting", "creating"} => Closed(start'[d].state, needs'),
         mirror' # {Original} => mirror' \subseteq draft' /\ Closed(mirror', needs')
  PROVE  Causal(needs)'
BY DEF Causal, UpExplained, DownExplained, DocsClosed, MirrorClosed

LEMMA CausalInit == Init => Causal(needs)
BY ExplainedEmpty DEF Init, Causal, UpExplained, DownExplained, DocsClosed, MirrorClosed, Closed

LEMMA CausalStarting ==
  ASSUME IInv, Causal(needs), NEW c \in Clients,
         CreateEditor(c) \/ OpenPage(c) \/ OpenRespond(c)
  PROVE  Causal(needs)'
<1> USE DEF server
<1>1. UNCHANGED <<up, down, ydoc, draft, mirror, needs>>
  BY DEF CreateEditor, OpenPage, OpenRespond
<1>2. \A d \in Clients : page'[d] \in {"starting", "creating"} =>
        \/ page[d] \in {"starting", "creating"} /\ start'[d] = start[d]
        \/ start'[d].state = draft
  BY DEF CreateEditor, OpenPage, OpenRespond, IInv, TypeOK
<1>3. \A d \in Clients : page'[d] \in {"starting", "creating"} => Closed(start'[d].state, needs)
  BY <1>2 DEF Causal, DocsClosed
<1> QED
  BY <1>1, <1>3, CausalParts DEF Causal, UpExplained, DownExplained, DocsClosed, MirrorClosed

(* The editor is bound to the document it was sent; its seed was made on   *)
(* an empty one.                                                           *)
LEMMA CausalCreated ==
  ASSUME IInv, Causal(needs), NEW c \in Clients, EditorCreated(c)
  PROVE  Causal(needs)'
<1> USE DEF server
<1> DEFINE seed == IF start[c].seed THEN {Seed(c)} ELSE {}
           known == start[c].state
<1>1. /\ up[c] = << >> /\ ydoc[c] = {} /\ Sent[c] = {} /\ down[c] = << >>
      /\ known \subseteq draft /\ (start[c].seed => known = {} /\ Seed(c) \notin draft)
      /\ page[c] = "creating"
  BY Quiet DEF IInv, Phases, Early, EditorCreated
<1>2. /\ UNCHANGED <<draft, mirror, start, down>>
      /\ page' = [page EXCEPT ![c] = "ready"]
      /\ ydoc' = [ydoc EXCEPT ![c] = known \cup seed]
      /\ needs' = [o \in Made \cup seed |-> IF o \in seed THEN known ELSE needs[o]]
  BY <1>1 DEF EditorCreated, IInv, TypeOK
<1>3. \A d \in Clients : Seed(c) \notin Sent[d]
  BY <1>1 DEF IInv, OneWay
<1>4. ASSUME NEW o \in Ops, o \in draft \/ \E d \in Clients : o \in Sent[d]
      PROVE  needs'[o] = needs[o]
  <2>1. o \in Made
    BY <1>4 DEF IInv, OneWay
  <2>2. o \notin seed
    BY <1>1, <1>3, <1>4
  <2> HIDE DEF seed, known
  <2> QED
    BY <2>1, <2>2, <1>2
<1>5. Causal(needs')
  BY <1>4, MadeAgain
<1>6. Closed(known, needs')
  BY <1>1, <1>5 DEF Causal, DocsClosed
<1>7. Closed(known \cup seed, needs')
  <2>1. CASE start[c].seed
    <3>1. known = {} /\ seed = {Seed(c)} /\ needs'[Seed(c)] = known
      BY <2>1, <1>1, <1>2
    <3> QED
      BY <3>1 DEF Closed
  <2>2. CASE ~start[c].seed
    BY <2>2, <1>6
  <2> QED
    BY <2>1, <2>2
<1>8. \A d \in Clients : Explained(up'[d], "update", draft', UpSound(needs'))
  <2>1. Explained(up'[c], "update", draft, UpSound(needs'))
    <3>1. Ready(TRUE) \in UpMsg /\ draft \in SUBSET Ops
          /\ <<Ready(TRUE), draft>> \in UpSound(needs')
      BY ChannelTypes, Messages, Sound DEF IInv
    <3>2. Explained(<< >>, "update", draft, UpSound(needs')) /\ << >> \in Seq(UpMsg)
          /\ Carried(<< >>, "update") = {}
      BY ExplainedEmpty, Channel, CarriedEmpty
    <3>3. CASE start[c].seed
      <4> DEFINE m == Update({Seed(c)}, {Seed(c)})
      <4>1. Seed(c) \in Ops /\ needs'[Seed(c)] = {} /\ seed = {Seed(c)}
            /\ Closed({Seed(c)}, needs')
        BY <3>3, <1>1, <1>2, <1>7 DEF Seed, Ops
      <4>2. m \in UpMsg /\ m.kind = "update" /\ m.ops = {Seed(c)}
        BY <4>1, Messages, Kinds
      <4>3. <<m, draft>> \in UpSound(needs')
        BY <4>1, <3>1, Sound
      <4>4. up'[c] = Append(Append(<< >>, m), Ready(TRUE))
        BY <1>1, <3>3, Greeting DEF IInv
      <4> HIDE DEF m
      <4>5. Append(<< >>, m) \in Seq(UpMsg)
            /\ Carried(Append(<< >>, m), "update") = {Seed(c)}
        <5>1. Carried(Append(<< >>, m), "update") = Carried(<< >>, "update") \cup m.ops
          BY <3>2, <4>2, UpdatesAppended
        <5>2. Append(<< >>, m) \in Seq(UpMsg)
          BY <4>2, <3>2, Channel
        <5> QED
          BY <3>2, <4>2, <5>1, <5>2
      <4>6. draft \cup {} = draft
        OBVIOUS
      <4>7. Explained(Append(<< >>, m), "update", draft, UpSound(needs'))
        BY <3>2, <4>2, <4>3, <4>6, ExplainedAppend
      <4>8. draft \cup {Seed(c)} \in SUBSET Ops
        BY <3>1, <4>1
      <4>9. <<Ready(TRUE), draft \cup {Seed(c)}>> \in UpSound(needs')
        BY <4>8, Sound
      <4> QED
        BY <3>1, <4>4, <4>5, <4>7, <4>9, ExplainedAppend
    <3>4. CASE ~start[c].seed
      <4>1. up'[c] = Append(<< >>, Ready(TRUE))
        BY <1>1, <3>4, Greeting DEF IInv
      <4>2. draft \cup {} = draft
        OBVIOUS
      <4> QED
        BY <3>1, <3>2, <4>1, <4>2, ExplainedAppend
    <3> QED
      BY <3>3, <3>4
  <2>2. \A d \in Clients \ {c} : up'[d] = up[d]
    BY DEF EditorCreated, IInv, TypeOK
  <2> QED
    BY <1>2, <1>5, <2>1, <2>2 DEF Causal, UpExplained
<1> HIDE DEF seed
<1>9. \A d \in Clients : ydoc'[d] = IF d = c THEN known \cup seed ELSE ydoc[d]
  BY <1>2 DEF IInv, TypeOK
<1>10. \A d \in Clients : Explained(down'[d], "apply", ydoc'[d], DownSound(needs'))
  <2>1. Explained(down'[c], "apply", ydoc'[c], DownSound(needs'))
    BY <1>1, <1>2, ExplainedEmpty
  <2>2. ASSUME NEW d \in Clients, d # c
        PROVE  Explained(down'[d], "apply", ydoc'[d], DownSound(needs'))
    <3>1. down'[d] = down[d] /\ ydoc'[d] = ydoc[d]
      BY <1>2, <1>9, <2>2
    <3>2. Explained(down[d], "apply", ydoc[d], DownSound(needs'))
      BY <1>5 DEF Causal, DownExplained
    <3> QED
      BY <3>1, <3>2
  <2> QED
    BY <2>1, <2>2
<1>11. \A d \in Clients : Closed(ydoc'[d], needs')
  BY <1>5, <1>7, <1>9 DEF Causal, DocsClosed
<1>12. \A d \in Clients : page'[d] \in {"starting", "creating"} => Closed(start'[d].state, needs')
  BY <1>2, <1>5 DEF Causal, DocsClosed, IInv, TypeOK
<1> QED
  BY <1>2, <1>5, <1>8, <1>10, <1>11, <1>12, CausalParts DEF Causal, DocsClosed, MirrorClosed

LEMMA CausalFails ==
  ASSUME IInv, Causal(needs), NEW c \in Clients, EditorFails(c)
  PROVE  Causal(needs)'
<1> USE DEF server
<1>1. /\ UNCHANGED <<draft, mirror, start, down, ydoc, needs>>
      /\ \A d \in Clients : page'[d] = IF d = c THEN "failed" ELSE page[d]
      /\ up' = [up EXCEPT ![c] = Append(@, Ready(FALSE))]
  BY DEF EditorFails, IInv, TypeOK
<1>2. \A d \in Clients : Explained(up'[d], "update", draft, UpSound(needs))
  <2>1. draft \cup Sent[c] \in SUBSET Ops /\ Ready(FALSE) \in UpMsg
    BY ChannelTypes, Messages DEF IInv
  <2>2. <<Ready(FALSE), draft \cup Sent[c]>> \in UpSound(needs)
    BY <2>1, Sound
  <2> QED
    BY <1>1, <2>1, <2>2, UpLonger DEF IInv, Causal
<1> QED
  BY <1>1, <1>2, CausalParts DEF Causal, DownExplained, DocsClosed, MirrorClosed

(* An edit is made on the document of its author, which has sent all that  *)
(* the server lacks of it.                                                 *)
LEMMA CausalEdit ==
  ASSUME IInv, Causal(needs), NEW c \in Clients, NEW e \in Edits, Edit(c, e)
  PROVE  Causal(needs)'
<1> USE DEF server
<1> DEFINE text == ydoc[c] \cup {e}
<1>1. /\ e \in Ops /\ e \notin draft /\ \A d \in Clients : e \notin Sent[d]
      /\ page[c] = "ready" /\ text \in SUBSET Ops
  BY DEF Edit, IInv, OneWay, Ops, TypeOK
<1>2. /\ UNCHANGED <<draft, mirror, start, down, page>>
      /\ \A d \in Clients : ydoc'[d] = IF d = c THEN text ELSE ydoc[d]
      /\ needs' = [o \in Made \cup {e} |-> IF o = e THEN ydoc[c] ELSE needs[o]]
      /\ up' = [up EXCEPT ![c] = @ \o <<Update({e}, text)>>]
  BY DEF Edit, IInv, TypeOK, OnUpdate
<1>3. ASSUME NEW o \in Ops, o \in draft \/ \E d \in Clients : o \in Sent[d]
      PROVE  needs'[o] = needs[o]
  <2>1. o \in Made /\ o # e
    BY <1>1, <1>3 DEF IInv, OneWay
  <2> QED
    BY <2>1, <1>2
<1>4. Causal(needs') /\ needs'[e] = ydoc[c]
  BY <1>2, <1>3, MadeAgain
<1>5. ydoc[c] \subseteq draft \cup Sent[c] /\ draft \cup Sent[c] \in SUBSET Ops
  BY ChannelTypes DEF IInv, Sources
<1>6. Closed(text, needs')
  BY <1>4 DEF Causal, DocsClosed, Closed
<1> HIDE DEF text
<1>7. \A d \in Clients : Explained(up'[d], "update", draft, UpSound(needs'))
  <2> DEFINE m == Update({e}, text)
  <2>1. m \in UpMsg
    BY <1>1, Messages
  <2>2. text \subseteq draft \cup Sent[c] \cup {e}
    BY <1>5 DEF text
  <2>3. <<m, draft \cup Sent[c]>> \in UpSound(needs')
    BY <1>1, <1>4, <1>5, <1>6, <2>2, Sound
  <2>4. up' = [up EXCEPT ![c] = up[c] \o <<m>>]
    BY <1>2
  <2> HIDE DEF m
  <2>5. up[c] \o <<m>> = Append(up[c], m)
    BY <2>1, ChannelTypes, AppendIsConcat DEF IInv
  <2>6. up' = [up EXCEPT ![c] = Append(@, m)]
    BY <2>4, <2>5
  <2> QED
    BY <1>4, <2>1, <2>3, <2>6, UpLonger DEF IInv, Causal
<1>8. \A d \in Clients : Explained(down'[d], "apply", ydoc'[d], DownSound(needs'))
  <2>1. Explained(down[c], "apply", text, DownSound(needs'))
    <3>1. down[c] \in Seq(DownMsg) /\ Carried(down[c], "apply") \subseteq Ops
          /\ Explained(down[c], "apply", ydoc[c], DownSound(needs'))
      BY <1>4, ChannelTypes DEF IInv, Coming, Causal, DownExplained
    <3>2. ydoc[c] \subseteq text /\ text \cup Carried(down[c], "apply") \in SUBSET Ops
      BY <1>1, <3>1 DEF text
    <3> QED
      BY <3>1, <3>2, DownBase
  <2> QED
    BY <1>2, <1>4, <2>1 DEF Causal, DownExplained
<1>9. \A d \in Clients : Closed(ydoc'[d], needs')
  BY <1>2, <1>4, <1>6 DEF Causal, DocsClosed
<1> QED
  BY <1>2, <1>4, <1>7, <1>8, <1>9, CausalParts DEF Causal, DocsClosed, MirrorClosed

LEMMA CausalApply ==
  ASSUME IInv, Causal(needs), NEW c \in Clients, ApplyRemote(c)
  PROVE  Causal(needs)'
<1> USE DEF server
<1> DEFINE new == Head(down[c]).ops
<1>1. up' = up
  <2>1. up' = [up EXCEPT ![c] = up[c] \o << >>] /\ up[c] \in Seq(UpMsg)
    BY ChannelTypes DEF ApplyRemote, OnUpdate, IInv
  <2>2. up[c] \o << >> = up[c]
    BY <2>1, ConcatEmptySeq
  <2> QED
    BY <2>1, <2>2 DEF IInv, TypeOK
<1>2. /\ UNCHANGED <<draft, mirror, start, page, needs>>
      /\ \A d \in Clients : ydoc'[d] = IF d = c THEN ydoc[c] \cup new ELSE ydoc[d]
  BY DEF ApplyRemote, IInv, TypeOK
<1>3. /\ <<Head(down[c]), ydoc[c]>> \in DownSound(needs)
      /\ Explained(down'[c], "apply", ydoc[c] \cup new, DownSound(needs))
      /\ \A d \in Clients \ {c} : down'[d] = down[d]
  BY DownShorter DEF ApplyRemote, IInv, Causal
<1>4. \A o \in new : needs[o] \subseteq ydoc[c] \cup new
  BY <1>3 DEF DownSound, ApplyRemote
<1> HIDE DEF new
<1>5. Closed(ydoc[c] \cup new, needs)
  BY <1>4 DEF Causal, DocsClosed, Closed
<1>6. \A d \in Clients : Explained(down'[d], "apply", ydoc'[d], DownSound(needs))
  BY <1>2, <1>3 DEF Causal, DownExplained
<1>7. \A d \in Clients : Closed(ydoc'[d], needs)
  BY <1>2, <1>5 DEF Causal, DocsClosed
<1> QED
  BY <1>1, <1>2, <1>6, <1>7, CausalParts DEF Causal, UpExplained, DocsClosed, MirrorClosed

(* The markdown of a flush is that of a document, and what is not in the   *)
(* draft of it was sent before.                                            *)
LEMMA CausalFlushNow ==
  ASSUME IInv, Causal(needs), NEW c \in Clients, FlushNow(c)
  PROVE  Causal(needs)'
<1> USE DEF server
<1>1. /\ UNCHANGED <<draft, mirror, start, page, ydoc, needs>>
      /\ up' = [up EXCEPT ![c] = Append(@, Flushed(ydoc[c]))]
  BY DEF FlushNow
<1>2. Flushed(ydoc[c]) \in UpMsg /\ <<Flushed(ydoc[c]), draft \cup Sent[c]>> \in UpSound(needs)
  <2>1. ydoc[c] \in SUBSET Ops /\ ydoc[c] \subseteq draft \cup Sent[c]
        /\ draft \cup Sent[c] \in SUBSET Ops /\ Closed(ydoc[c], needs)
    BY ChannelTypes DEF IInv, TypeOK, Sources, Causal, DocsClosed
  <2> QED
    BY <2>1, Messages, Sound
<1>3. \A d \in Clients : Explained(up'[d], "update", draft, UpSound(needs))
  BY <1>1, <1>2, UpLonger DEF IInv, Causal
<1>4. \A d \in Clients : Explained(down'[d], "apply", ydoc[d], DownSound(needs))
  BY DownShorter DEF FlushNow, IInv, Causal
<1> QED
  BY <1>1, <1>3, <1>4, CausalParts DEF Causal, DocsClosed, MirrorClosed

LEMMA CausalClose ==
  ASSUME IInv, Causal(needs), NEW c \in Clients, ClosePage(c)
  PROVE  Causal(needs)'
<1> USE DEF server
<1>1. /\ UNCHANGED <<draft, mirror, needs>>
      /\ page'[c] = "closed" /\ ydoc'[c] = {} /\ down'[c] = << >>
      /\ \A d \in Clients \ {c} : /\ page'[d] = page[d] /\ ydoc'[d] = ydoc[d]
                                 /\ start'[d] = start[d] /\ up'[d] = up[d] /\ down'[d] = down[d]
  BY DEF IInv, TypeOK, ClosePage
<1>2. Explained(up'[c], "update", draft, UpSound(needs))
  <2>1. PICK n \in 0 .. Len(up[c]) : up'[c] = SubSeq(up[c], 1, n)
    BY DEF ClosePage, IInv, TypeOK
  <2> QED
    BY <2>1, ChannelTypes, ExplainedPrefix DEF IInv, Causal, UpExplained
<1>3. \A d \in Clients : Explained(up'[d], "update", draft, UpSound(needs))
  BY <1>1, <1>2 DEF Causal, UpExplained
<1>4. \A d \in Clients : Explained(down'[d], "apply", ydoc'[d], DownSound(needs))
  BY <1>1, ExplainedEmpty DEF Causal, DownExplained
<1>5. \A d \in Clients : Closed(ydoc'[d], needs)
  BY <1>1 DEF Causal, DocsClosed, Closed
<1>6. \A d \in Clients : page'[d] \in {"starting", "creating"} => Closed(start'[d].state, needs)
  BY <1>1 DEF Causal, DocsClosed
<1> QED
  BY <1>1, <1>3, <1>4, <1>5, <1>6, CausalParts DEF Causal, DocsClosed, MirrorClosed

LEMMA CausalDelete ==
  ASSUME IInv, Causal(needs), NEW c \in Clients, DeleteClient(c)
  PROVE  Causal(needs)'
<1>1. /\ UNCHANGED <<draft, mirror, page, start, ydoc, down, needs>>
      /\ up'[c] = << >> /\ \A d \in Clients \ {c} : up'[d] = up[d]
  BY DEF DeleteClient, IInv, TypeOK
<1>2. \A d \in Clients : Explained(up'[d], "update", draft, UpSound(needs))
  BY <1>1, ExplainedEmpty DEF Causal, UpExplained
<1> QED
  BY <1>1, <1>2, CausalParts DEF Causal, DownExplained, DocsClosed, MirrorClosed

(* The whole draft needs nothing else. *)
LEMMA CausalReady ==
  ASSUME IInv, Causal(needs), NEW c \in Clients, HandleReady(c)
  PROVE  Causal(needs)'
<1> DEFINE R == IF Head(up[c]).ok /\ c \in presence /\ draft # {} /\ page[c] # "closed"
                THEN {c} ELSE {}
           m == [kind |-> "apply", ops |-> draft]
<1>1. UNCHANGED <<draft, mirror, page, start, ydoc, needs>>
  BY DEF HandleReady
<1>2. \A d \in Clients : down'[d] = IF d \in R THEN Append(down[d], m) ELSE down[d]
  BY DEF IInv, TypeOK, HandleReady, Send
<1>3. R \in SUBSET Clients /\ m \in DownMsg
  BY ChannelTypes, Messages DEF IInv
<1>4. \A d \in R : <<m, ydoc[d] \cup Coming[d]>> \in DownSound(needs)
  <2>1. draft \in SUBSET Ops /\ \A o \in draft : needs[o] \subseteq draft
    BY ChannelTypes DEF IInv, Causal, DocsClosed, Closed
  <2>2. \A d \in R : ydoc[d] \cup Coming[d] \in SUBSET Ops
    BY <1>3, ChannelTypes DEF IInv, TypeOK
  <2> QED
    BY <2>1, <2>2, Sound
<1> HIDE DEF R, m
<1>5. \A d \in Clients : Explained(down'[d], "apply", ydoc[d], DownSound(needs))
  BY <1>2, <1>3, <1>4, DownLonger DEF IInv, Causal
<1>6. \A d \in Clients : Explained(up'[d], "update", draft, UpSound(needs))
  BY UpShorter DEF HandleReady, IInv, Causal
<1> QED
  BY <1>1, <1>5, <1>6, CausalParts DEF Causal, DocsClosed, MirrorClosed

(* The update handled next lacks nothing, and neither does any editor it   *)
(* is relayed to once it has taken what is already on its way there.       *)
LEMMA CausalUpdate ==
  ASSUME IInv, Causal(needs), NEW c \in Clients, HandleUpdate(c)
  PROVE  Causal(needs)'
<1> DEFINE ops == Head(up[c]).ops
           text == Head(up[c]).markdown
           R == {d \in editors \ {c} : page[d] # "closed"}
           m == [kind |-> "apply", ops |-> ops]
<1>1. /\ UNCHANGED <<page, start, ydoc, needs>> /\ draft' = draft \cup ops /\ mirror' = text
      /\ \A d \in Clients : down'[d] = IF d \in R THEN Append(down[d], m) ELSE down[d]
  BY DEF HandleUpdate, BroadcastYjs, Send
<1>2. /\ <<Head(up[c]), draft>> \in UpSound(needs)
      /\ Explained(up'[c], "update", draft \cup ops, UpSound(needs))
      /\ \A d \in Clients \ {c} : up'[d] = up[d]
  BY UpShorter DEF HandleUpdate, IInv, Causal
<1>3. /\ \A o \in ops : needs[o] \subseteq draft
      /\ text \subseteq draft \cup ops /\ Closed(text, needs)
  BY <1>2 DEF UpSound, HandleUpdate
<1>4. ops \in SUBSET Ops
  BY ChannelTypes, Channel, Messages DEF IInv, HandleUpdate
<1>5. R \in SUBSET Clients /\ m \in DownMsg
  BY <1>4, ChannelTypes, Messages DEF IInv
<1>6. ASSUME NEW d \in R PROVE <<m, ydoc[d] \cup Coming[d]>> \in DownSound(needs)
  <2>1. draft \subseteq ydoc[d] \cup Coming[d] /\ ydoc[d] \cup Coming[d] \in SUBSET Ops
    BY <1>5, ChannelTypes DEF IInv, Synced, TypeOK
  <2>2. \A o \in ops : needs[o] \subseteq (ydoc[d] \cup Coming[d]) \cup ops
    BY <2>1, <1>3
  <2> QED
    BY <2>1, <2>2, <1>4, Sound
<1> HIDE DEF ops, text, R, m
<1>7. \A d \in Clients : Explained(down'[d], "apply", ydoc[d], DownSound(needs))
  BY <1>1, <1>5, <1>6, DownLonger DEF IInv, Causal
<1>8. \A d \in Clients : Explained(up'[d], "update", draft', UpSound(needs))
  <2>1. ASSUME NEW d \in Clients, d # c
        PROVE  Explained(up[d], "update", draft \cup ops, UpSound(needs))
    <3>1. up[d] \in Seq(UpMsg) /\ Carried(up[d], "update") \in SUBSET Ops /\ draft \in SUBSET Ops
          /\ Explained(up[d], "update", draft, UpSound(needs))
      BY ChannelTypes DEF IInv, Sent, Causal, UpExplained
    <3>2. draft \subseteq draft \cup ops
          /\ (draft \cup ops) \cup Carried(up[d], "update") \in SUBSET Ops
      BY <3>1, <1>4
    <3> QED
      BY <3>1, <3>2, UpBase
  <2> QED
    BY <1>1, <1>2, <2>1
<1>9. Closed(draft \cup ops, needs)
  BY <1>3 DEF Causal, DocsClosed, Closed
<1> QED
  BY <1>1, <1>3, <1>7, <1>8, <1>9, CausalParts DEF Causal, DocsClosed

LEMMA CausalFlush ==
  ASSUME IInv, Causal(needs), NEW c \in Clients, HandleFlush(c)
  PROVE  Causal(needs)'
<1>1. UNCHANGED <<draft, page, start, ydoc, down, needs>> /\ mirror' = Head(up[c]).markdown
  BY DEF HandleFlush
<1>2. /\ <<Head(up[c]), draft>> \in UpSound(needs)
      /\ \A d \in Clients : Explained(up'[d], "update", draft, UpSound(needs))
  BY UpShorter DEF HandleFlush, IInv, Causal
<1>3. mirror' \subseteq draft /\ Closed(mirror', needs)
  BY <1>1, <1>2 DEF UpSound, HandleFlush
<1> QED
  BY <1>1, <1>2, <1>3, CausalParts DEF Causal, DownExplained, DocsClosed

LEMMA CausalRestart ==
  ASSUME IInv, Causal(needs), FlushMilkdown
  PROVE  Causal(needs)'
<1> USE DEF server
<1> DEFINE R == {d \in editors : page[d] # "closed"}
           m == [kind |-> "flush"]
<1>1. UNCHANGED <<draft, mirror, page, start, ydoc, up, needs>>
  BY DEF FlushMilkdown
<1>2. \A d \in Clients : down'[d] = IF d \in R THEN Append(down[d], m) ELSE down[d]
  BY DEF FlushMilkdown, Send
<1>3. R \in SUBSET Clients /\ m \in DownMsg
  BY ChannelTypes, Messages DEF IInv
<1>4. \A d \in R : ydoc[d] \cup Coming[d] \in SUBSET Ops
  BY <1>3, ChannelTypes DEF IInv, TypeOK
<1>5. \A d \in R : <<m, ydoc[d] \cup Coming[d]>> \in DownSound(needs)
  BY <1>4, Sound
<1> HIDE DEF R, m
<1>6. \A d \in Clients : Explained(down'[d], "apply", ydoc[d], DownSound(needs))
  BY <1>2, <1>3, <1>5, DownLonger DEF IInv, Causal
<1> QED
  BY <1>1, <1>6, CausalParts DEF Causal, UpExplained, DocsClosed, MirrorClosed

LEMMA CausalNext ==
  ASSUME IInv, Causal(needs), [Next]_vars
  PROVE  Causal(needs)'
<1>1. CASE UNCHANGED vars
  BY <1>1, CausalParts DEF vars, Causal, UpExplained, DownExplained, DocsClosed, MirrorClosed
<1>2. CASE FlushMilkdown
  BY <1>2, CausalRestart
<1>3. ASSUME NEW c \in Clients, NEW e \in Edits, Edit(c, e) PROVE Causal(needs)'
  BY <1>3, CausalEdit
<1>4. ASSUME NEW c \in Clients,
             \/ CreateEditor(c) \/ EditorCreated(c) \/ EditorFails(c)
             \/ ApplyRemote(c) \/ FlushNow(c) \/ ClosePage(c)
             \/ OpenPage(c) \/ OpenRespond(c) \/ DeleteClient(c)
             \/ HandleReady(c) \/ HandleUpdate(c) \/ HandleFlush(c)
      PROVE  Causal(needs)'
  BY <1>4, CausalStarting, CausalCreated, CausalFails, CausalApply, CausalFlushNow,
     CausalClose, CausalDelete, CausalReady, CausalUpdate, CausalFlush
<1> QED
  BY <1>1, <1>2, <1>3, <1>4 DEF Next

(* However messages of different browsers cross, no document and no mirror *)
(* ever shows an operation without what its author had before it           *)
(* (_setup_yjs_event_handler in respond.py, _broadcast_yjs_update in       *)
(* broadcast.py, yDoc.on in static/milkdown/src/index.js).                 *)
THEOREM NothingPending == Spec => []CausallyClosed
<1>1. Init => Causal(needs)
  BY CausalInit
<1>2. IInv /\ Causal(needs) /\ [Next]_vars => Causal(needs)'
  BY CausalNext
<1>3. Causal(needs) => CausallyClosed
  BY DEF Causal, DocsClosed, MirrorClosed, Closed, CausallyClosed
<1> QED
  BY <1>1, <1>2, <1>3, AlwaysIInv, PTL DEF Spec
=============================================================================
