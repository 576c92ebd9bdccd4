-------------------------- MODULE MCCrdtPersistence --------------------------
(* Worlds and symmetry sets for the instances of CrdtPersistence in           *)
(* MCCrdt*.cfg.  Document objects are not symmetric: the model picks fresh    *)
(* ones by CHOOSE.                                                            *)
EXTENDS CrdtPersistence, TLC

(* Anything may overlap, fail or come out of order; one edit is enough.       *)
Rough == [overlap |-> TRUE, inOrder |-> FALSE, failures |-> TRUE, drift |-> TRUE,
          restarts |-> TRUE, crashes |-> TRUE, edits |-> 1]

(* Page loads one at a time and saves that succeed in order.                  *)
Still == [overlap |-> FALSE, inOrder |-> TRUE, failures |-> FALSE,
          drift |-> FALSE, restarts |-> TRUE, crashes |-> TRUE, edits |-> 3]

(* Page loads one at a time, and nothing else to rely on.                     *)
Apart == [Rough EXCEPT !.overlap = FALSE, !.edits = 3]

(* A single tab that reloads and types; the process stays up.                 *)
Busy == [overlap |-> TRUE, inOrder |-> FALSE, failures |-> FALSE,
         drift |-> TRUE, restarts |-> FALSE, crashes |-> FALSE, edits |-> 3]

AllPeers == {Rough, Still, Apart}
JustBusy == {Busy}

PeerSymmetry == Permutations(Clients) \cup Permutations(Edits)
=============================================================================
