----------------------------- MODULE MCJourney -----------------------------
(* Small instances of Journey for TLC. *)
EXTENDS Journey
=============================================================================
