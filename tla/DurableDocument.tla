--------------------------- MODULE DurableDocument ---------------------------
(* What saving a shared document promises where nothing fails or overlaps: *)
(* one document for every open page, of which a part is stored for good,   *)
(* the part acknowledged with it, and the rest at risk only when the last  *)
(* page is gone.                                                           *)
CONSTANTS Clients, Edits

VARIABLES
  open,    \* clients whose page shows the document
  view,    \* the edits it holds
  stored,  \* the edits in the database
  acked    \* the edits whose author was told that they are saved

vars == <<open, view, stored, acked>>

Init == open = {} /\ view = {} /\ stored = {} /\ acked = {}

(* The database may be written in any step, and only ever gains. *)
Writes == stored \subseteq stored' /\ stored' \subseteq view

(* What may be missing when the document is built again. *)
Shrinks == stored' \subseteq view' /\ view' \subseteq view

Open(c) ==
  /\ open' = open \cup {c}
  /\ UNCHANGED <<view, stored, acked>>

Make(c, e) ==
  /\ c \in open
  /\ view' = view \cup {e}
  /\ Writes
  /\ UNCHANGED <<open, acked>>

(* Nothing is acknowledged before it is stored. *)
Save ==
  /\ Writes
  /\ acked \subseteq acked' /\ acked' \subseteq acked \cup stored'
  /\ UNCHANGED <<open, view>>

(* A page is closed; what was not stored may go with the last one only. *)
Close(c) ==
  /\ c \in open /\ open' = open \ {c}
  /\ Writes
  /\ view' = view \/ (open' = {} /\ Shrinks)
  /\ UNCHANGED acked

(* The server drops the document, and with it every page that is open. *)
Lose ==
  /\ open' = {}
  /\ Writes /\ Shrinks
  /\ UNCHANGED acked

Next ==
  \/ Save \/ Lose
  \/ \E c \in Clients : Open(c) \/ Close(c) \/ \E e \in Edits : Make(c, e)

Spec == Init /\ [][Next]_vars
=============================================================================
