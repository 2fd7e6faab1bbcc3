---------------------------- MODULE MCStayOnline ----------------------------
(* A small instance of StayOnline for TLC. *)
EXTENDS StayOnline

CONSTANTS g1, g2
=============================================================================
