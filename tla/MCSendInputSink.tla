--------------------------- MODULE MCSendInputSink ---------------------------
(* Small instances of SendInputSink for TLC. *)
EXTENDS SendInputSink

CONSTANTS w, a1, r1, closer

OneControl == {<<w>>}
=============================================================================
