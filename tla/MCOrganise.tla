----------------------------- MODULE MCOrganise -----------------------------
(* Instances of Organise: one page that drags a lot, and two that drag and  *)
(* edit at the same time.                                                   *)
EXTENDS Organise

CONSTANTS h1, h2, h3, c1, c2

MCScenes ==
  {[pages |-> {c1}, highlights |-> {h1, h2, h3}, drags |-> 3, edits |-> 0],
   [pages |-> {c1, c2}, highlights |-> {h1, h2}, drags |-> 2, edits |-> 1]}

HighlightSymmetry == Permutations({h1, h2})

OnePage == {[pages |-> {c1}, highlights |-> {h1, h2, h3}, drags |-> 1, edits |-> 0]}
=============================================================================
