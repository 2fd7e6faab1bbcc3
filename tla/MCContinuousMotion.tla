-------------------------- MODULE MCContinuousMotion --------------------------
(* Small instances of ContinuousMotion for TLC: s is the control the authority *)
(* does not allow.                                                             *)
EXTENDS ContinuousMotion

CONSTANTS w, s, a
=============================================================================
