----------------------------- MODULE InputSink -----------------------------
(***************************************************************************)
(* What the InputSink port of execution/ports.py promises its callers, over *)
(* what they can observe: which controls are held, which calls are in the  *)
(* sink, and whether the apply in it may still press.                      *)
(*                                                                         *)
(* "Keep every effect inside that call": a control goes down only during   *)
(* an apply, and when the last call has left nothing is held.  release_all *)
(* is "safe to call concurrently with apply_bounded": from the moment it   *)
(* revokes the apply, that apply presses nothing more.  The window may     *)
(* refuse a key-up; a sink that met that makes no promise of release.      *)
(***************************************************************************)
EXTENDS Naturals

CONSTANTS
  Controls,   \* what can be held
  Appliers,   \* the threads that call apply_bounded, one at a time inside
  Releasers   \* the threads that call release_all or close

VARIABLES
  held,      \* the controls physically held
  calls,     \* the threads inside the sink
  current,   \* the apply inside the sink was not revoked
  refused    \* history: a key-up was refused

portVars == <<held, calls, current, refused>>

PortInit == held = {} /\ calls = {} /\ current = FALSE /\ refused = FALSE

\* One apply at a time is admitted.
Apply(a) ==
  /\ a \notin calls /\ calls \cap Appliers = {}
  /\ calls' = calls \cup {a} /\ current' = TRUE
  /\ UNCHANGED <<held, refused>>

Release(r) ==
  /\ r \notin calls /\ calls' = calls \cup {r}
  /\ UNCHANGED <<held, current, refused>>

Press(k) ==
  /\ current /\ calls \cap Appliers # {}
  /\ held' = held \cup {k}
  /\ UNCHANGED <<calls, current, refused>>

Lift(K) ==
  /\ calls # {} /\ held' = held \ K
  /\ UNCHANGED <<calls, current, refused>>

\* A key-up that is not acknowledged may or may not have lifted its key.
RefusedLift(K) ==
  /\ calls # {} /\ held' = held \ K /\ refused' = TRUE
  /\ UNCHANGED <<calls, current>>

Revoke ==
  /\ calls \cap Releasers # {} /\ current' = FALSE
  /\ UNCHANGED <<held, calls, refused>>

\* The last call to leave leaves nothing held.
Return(t) ==
  /\ t \in calls /\ calls' = calls \ {t}
  /\ current' = (current /\ t \in Releasers)
  /\ calls' = {} => held = {} \/ refused
  /\ UNCHANGED <<held, refused>>

PortNext ==
  \/ \E a \in Appliers : Apply(a) \/ Return(a)
  \/ \E r \in Releasers : Release(r) \/ Return(r)
  \/ \E k \in Controls : Press(k)
  \/ \E K \in SUBSET Controls : Lift(K) \/ RefusedLift(K)
  \/ Revoke

PortSpec == PortInit /\ [][PortNext]_portVars
=============================================================================
