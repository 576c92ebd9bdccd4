--------------------------- MODULE MCExportQueue ---------------------------
(* Instances of ExportQueue: the configurations give model values to its    *)
(* constants.                                                               *)
EXTENDS ExportQueue
=============================================================================
