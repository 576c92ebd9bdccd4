--------------------------- MODULE MCIdleTracker ---------------------------
(* Instances of IdleTracker: the configurations give values to its          *)
(* constants.                                                               *)
EXTENDS IdleTracker
=============================================================================
