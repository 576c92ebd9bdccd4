----------------------------- MODULE MCSidebar -----------------------------
(* Instances of Sidebar: the second highlight starts where an expanded card *)
(* of the first one would still be.                                         *)
EXTENDS Sidebar

CONSTANTS h1, h2, student, teacher

StartLines == (h1 :> 0) @@ (h2 :> 1)
Owners == (h1 :> student) @@ (h2 :> teacher)

(* One page with both highlights, both pages with one highlight, and, for    *)
(* fewer inputs, both pages with both.                                       *)
MCScenes ==
  {[pages |-> {student}, highlights |-> {h1, h2}, fresh |-> new, inputs |-> 4] : new \in BOOLEAN}
  \cup {[pages |-> Clients, highlights |-> {h1}, fresh |-> FALSE, inputs |-> 3],
        [pages |-> Clients, highlights |-> {h1, h2}, fresh |-> TRUE, inputs |-> 2]}
=============================================================================
