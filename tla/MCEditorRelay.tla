---------------------------- MODULE MCEditorRelay ---------------------------
(* Instances of EditorRelay: the configuration gives model values to its     *)
(* constants.                                                               *)
EXTENDS EditorRelay
=============================================================================
