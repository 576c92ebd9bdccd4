----------------------------- MODULE SharedDraft -----------------------------
(* What the collaborative editor of the Respond tab promises: one draft,   *)
(* which only grows, and in each open editor a view of it that holds what  *)
(* its author made and part of what the draft holds, never anything else.  *)
(* Operations of Y.js (insertions and deletions alike) stand for the text: *)
(* a document is the set of operations it has received.                    *)
EXTENDS FiniteSets

CONSTANTS Clients, Ops

VARIABLES
  draft,   \* operations everybody shares
  posted,  \* operations on their way from their author to the draft
  view     \* operations the editor of each client shows

vars == <<draft, posted, view>>

Init == draft = {} /\ posted = {} /\ view = [c \in Clients |-> {}]

(* An author changes the text: the operation shows at once. *)
Make(c, o) ==
  /\ o \notin draft \cup posted
  /\ posted' = posted \cup {o}
  /\ view' = [view EXCEPT ![c] = @ \cup {o}]
  /\ UNCHANGED draft

Accept(o) ==
  /\ o \in posted
  /\ draft' = draft \cup {o} /\ posted' = posted \ {o}
  /\ UNCHANGED view

Learn(c, new) ==
  /\ new \subseteq draft
  /\ view' = [view EXCEPT ![c] = @ \cup new]
  /\ UNCHANGED <<draft, posted>>

(* An editor is closed; what it had posted may be lost with it. *)
Leave(c) ==
  /\ view' = [view EXCEPT ![c] = {}]
  /\ posted' \in SUBSET posted
  /\ UNCHANGED draft

Next ==
  \E c \in Clients : \/ Leave(c)
                     \/ \E o \in Ops : Make(c, o) \/ Accept(o)
                     \/ \E new \in SUBSET draft : Learn(c, new)

Spec == Init /\ [][Next]_vars

(* Every operation posted is accepted, or lost with its author. *)
FairSpec == Spec /\ \A o \in Ops : WF_vars(Accept(o))
=============================================================================
