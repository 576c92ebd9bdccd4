---------------------------- MODULE MCTurnCycle ----------------------------
(* Instances of TurnCycle: the configurations give model values to its      *)
(* constants.                                                               *)
EXTENDS TurnCycle, TLC

(* Teams are alike, and so are facilitators; for safety only.               *)
Alike == Permutations(Teams) \cup Permutations(Facilitators)
=============================================================================
