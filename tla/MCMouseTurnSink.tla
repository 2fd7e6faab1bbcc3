--------------------------- MODULE MCMouseTurnSink ---------------------------
(* A small instance of MouseTurnSink for TLC. *)
EXTENDS MouseTurnSink

CONSTANTS a1, r1
=============================================================================
