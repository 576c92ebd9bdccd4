----------------------------- MODULE MCAdmission -----------------------------
(* Instances of Admission in MCAdmission*.cfg, and a symmetry set for those  *)
(* that check no liveness: tokens are interchangeable, and so are users who  *)
(* are not privileged.                                                       *)
EXTENDS Admission, TLC

NewcomerSymmetry == Permutations(Tokens) \cup Permutations(Users \ Privileged)
=============================================================================
