-------------------------- MODULE ContinuousMotion --------------------------
(***************************************************************************)
(* The long-lived navigation actuator: the held W/A/S/D and right mouse    *)
(* button of execution/windows_continuous_motion.py behind the authority   *)
(* of execution/continuous_motion_gateway.py.                              *)
(*                                                                         *)
(* Every operation of the session is one critical section of its lock, the *)
(* pauses of the mouse included, so each is one step. The gateway's lock   *)
(* is held around a frame, a renewal and a revocation; holding says what   *)
(* its holder is doing. release_all, close and the two worker threads take *)
(* the session's lock only and come between the gateway's steps.           *)
(*                                                                         *)
(* A worker waits on the condition with the lock it checked its guard      *)
(* under, and everything that changes the guard notifies: it misses no     *)
(* wake-up, and is modelled as enabled whenever its guard is true.         *)
(***************************************************************************)
EXTENDS Integers

CONSTANTS
  Controls,      \* the movement controls
  RMB,           \* the right mouse button, held for mouse look
  Allowed,       \* authority.allowed_controls
  Desired,       \* the states a frame may ask for: sets of controls, with or without RMB
  Lease,         \* lease_timeout_ms, in ticks
  FirstExpiry,   \* expires_at_monotonic_ms of the first authority
  MaxTime,       \* bound: the clock stops here, and no authority outlives it
  FocusReturns,  \* may the window get its focus back?
  BackendFails   \* may the backend fail to acknowledge a submission?

Inputs == Controls \cup {RMB}

ASSUME MotionAssumption ==
  /\ RMB \notin Controls /\ Allowed \subseteq Controls
  /\ Desired \subseteq SUBSET Inputs
  /\ Lease \in Nat \ {0} /\ FirstExpiry \in Nat \ {0} /\ MaxTime \in Nat
  /\ FirstExpiry <= MaxTime
  /\ FocusReturns \in BOOLEAN /\ BackendFails \in BOOLEAN

VARIABLES
  machine,    \* what ContinuousInputStateMachine believes is held
  owned,      \* _owned_controls, and RMB when _mouse_owned
  lease,      \* _lease_deadline_ms; 0 is none
  velocity,   \* the mouse velocity is not zero
  expires,    \* _expires_at_ms, and the expiry of the gateway's authority
  closed,     \* _closed
  holding,    \* what the holder of the gateway's lock is doing
  wanted,     \* the state the frame in hand asks for
  revoked,    \* _revoked
  cancelled,  \* the cooperative cancellation token
  hot,        \* the bound window is in the foreground and alive
  now,        \* the monotonic clock
  down,       \* the inputs physically held
  refused,    \* history: inputs whose last up was not acknowledged
  revokeEnded \* history: some revoke is over

session == <<machine, owned, lease, velocity, expires, closed>>
gateway == <<holding, wanted, revoked>>
world == <<cancelled, hot, now>>
history == <<refused, revokeEnded>>
vars == <<session, gateway, world, down, history>>

Init ==
  /\ machine = {} /\ owned = {} /\ lease = 0 /\ velocity = FALSE
  /\ expires = FirstExpiry /\ closed = FALSE
  /\ holding = "none" /\ wanted = {} /\ revoked = FALSE
  /\ cancelled = FALSE /\ hot \in BOOLEAN /\ now = 0
  /\ down = {} /\ refused = {} /\ revokeEnded = FALSE

-----------------------------------------------------------------------------
(* Releasing.                                                              *)

\* Fault: a release that leaves the state machine as it was.
ReleaseKeepsMachine(pressed) ==
  /\ \E kept \in SUBSET (owned \cup pressed) :
       /\ kept # {} => BackendFails
       /\ owned' = kept
       /\ \E d \in SUBSET (kept \cap (down \cup pressed)) : down' = d
       /\ refused' = kept
  /\ machine' = machine /\ lease' = 0 /\ velocity' = FALSE

\* _release_all_locked, after a frame that pressed some inputs and failed: every
\* owned input is tried, those whose up is not acknowledged stay owned, and the
\* state machine starts afresh.
ReleaseAllLocked(pressed) ==
  /\ \E kept \in SUBSET (owned \cup pressed) :
       /\ kept # {} => BackendFails
       /\ owned' = kept
       /\ \E d \in SUBSET (kept \cap (down \cup pressed)) : down' = d
       /\ refused' = kept
  /\ machine' = {} /\ lease' = 0 /\ velocity' = FALSE

\* release_all, of the session or of the gateway: the gateway's lock is not taken.
ReleaseAll ==
  /\ ReleaseAllLocked({})
  /\ UNCHANGED <<expires, closed, gateway, world, revokeEnded>>

-----------------------------------------------------------------------------
(* apply_frame.                                                            *)

\* The gateway takes its lock and looks at the authority; the session is next.
GatewayFrame ==
  /\ holding = "none"
  /\ wanted' \in Desired
  /\ holding' = IF revoked \/ now >= expires \/ ~(wanted' \ {RMB} \subseteq Allowed)
                THEN "refuse" ELSE "frame"
  /\ UNCHANGED <<session, revoked, world, down, history>>

\* A refused frame releases what is held, and raises.
RefuseFrame ==
  /\ holding = "refuse" /\ holding' = "none" /\ wanted' = {}
  /\ ReleaseAllLocked({})
  /\ UNCHANGED <<expires, closed, revoked, world, revokeEnded>>

\* What the session checks before it touches an input, the age of the frame apart.
Admissible == ~closed /\ ~cancelled /\ now < expires /\ hot

\* The inputs a frame lifts and presses: the difference to what the machine
\* believes. An input not owned is not lifted, an owned RMB is not pressed again.
Lifts == (machine \ wanted) \cap owned
Presses == (wanted \ machine) \ (owned \cap {RMB})

\* A lease taken now under an authority that ends at expiry.
LeaseUntil(expiry) == IF now + Lease < expiry THEN now + Lease ELSE expiry

\* Every transition is acknowledged: the state is held and leased.
FrameHeld ==
  /\ holding = "frame" /\ holding' = "none" /\ wanted' = {}
  /\ Admissible
  /\ machine' = wanted
  /\ owned' = (owned \ Lifts) \cup (wanted \ machine)
  /\ down' = (down \ Lifts) \cup Presses
  /\ refused' = refused \ (Lifts \cup Presses)
  /\ velocity' \in BOOLEAN /\ (velocity' => RMB \in wanted)
  /\ lease' = LeaseUntil(expires)
  /\ UNCHANGED <<expires, closed, revoked, world, revokeEnded>>

\* Fault: a frame that fails gives up its lease and leaves the keys to the watchdog.
FrameFailsQuietly ==
  /\ holding = "frame" /\ holding' = "none" /\ wanted' = {}
  /\ machine' = {} /\ lease' = 0 /\ velocity' = FALSE
  /\ UNCHANGED <<owned, down, refused, expires, closed, revoked, world, revokeEnded>>

\* A check fails, the frame is stale, or some transition is not acknowledged after
\* some presses were made: everything is released, and the frame raises.
FrameFails ==
  /\ holding = "frame" /\ holding' = "none" /\ wanted' = {}
  /\ \E pressed \in SUBSET (wanted \ machine) :
       /\ pressed # {} => Admissible /\ BackendFails
       /\ ReleaseAllLocked(pressed)
  /\ UNCHANGED <<expires, closed, revoked, world, revokeEnded>>

-----------------------------------------------------------------------------
(* Renewal, revocation and close.                                          *)

\* renew_authority: a newer arm with the same binding extends the session and,
\* if something is leased, the lease. Any other arm is refused.
Renew ==
  /\ holding = "none" /\ ~closed
  /\ \E later \in (expires + 1)..MaxTime :
       /\ now < later
       /\ expires' = later
       /\ lease' = IF lease = 0 THEN 0 ELSE LeaseUntil(later)
  /\ UNCHANGED <<machine, owned, velocity, closed, gateway, world, down, history>>

\* Fault: a revocation that does not wait for the frame in hand.
RevokeUnlocked ==
  /\ ~revoked /\ revoked' = TRUE /\ revokeEnded' = TRUE
  /\ ReleaseAllLocked({})
  /\ UNCHANGED <<expires, closed, holding, wanted, world>>

\* revoke waits for the gateway's lock, marks the authority and releases.
Revoke ==
  /\ holding = "none"
  /\ revoked' = TRUE /\ holding' = "revoke"
  /\ UNCHANGED <<session, wanted, world, down, history>>

RevokeReleases ==
  /\ holding = "revoke" /\ holding' = "none"
  /\ ReleaseAllLocked({}) /\ revokeEnded' = TRUE
  /\ UNCHANGED <<expires, closed, wanted, revoked, world>>

\* close: once only, and without the gateway's lock.
Close ==
  /\ ~closed /\ closed' = TRUE
  /\ ReleaseAllLocked({})
  /\ UNCHANGED <<expires, gateway, world, revokeEnded>>

-----------------------------------------------------------------------------
(* The worker threads.                                                     *)

\* _watchdog_loop: the lease is over, everything is released once.
Watchdog ==
  /\ ~closed /\ lease > 0 /\ now >= lease
  /\ ReleaseAllLocked({})
  /\ UNCHANGED <<expires, closed, gateway, world, revokeEnded>>

\* _mouse_velocity_loop: a tick that finds the window not hot, or whose movement
\* is not acknowledged, releases everything. A good tick moves the view only.
VelocityFails ==
  /\ ~closed /\ RMB \in owned /\ lease > now /\ velocity
  /\ ~hot \/ BackendFails
  /\ ReleaseAllLocked({})
  /\ UNCHANGED <<expires, closed, gateway, world, revokeEnded>>

-----------------------------------------------------------------------------
(* The environment.                                                        *)

Cancel ==
  /\ ~cancelled /\ cancelled' = TRUE
  /\ UNCHANGED <<session, gateway, hot, now, down, history>>

FocusChanges ==
  /\ hot \/ FocusReturns
  /\ hot' = ~hot
  /\ UNCHANGED <<session, gateway, cancelled, now, down, history>>

Tick ==
  /\ now < MaxTime /\ now' = now + 1
  /\ UNCHANGED <<session, gateway, cancelled, hot, down, history>>

-----------------------------------------------------------------------------
Next ==
  \/ GatewayFrame \/ RefuseFrame \/ FrameHeld \/ FrameFails
  \/ Renew \/ Revoke \/ RevokeReleases \/ ReleaseAll \/ Close
  \/ Watchdog \/ VelocityFails
  \/ Cancel \/ FocusChanges \/ Tick

Spec == Init /\ [][Next]_vars

\* The watchdog thread runs, and time passes. Nothing is assumed of the callers.
Fairness == WF_vars(Watchdog) /\ WF_vars(Tick)
FairSpec == Spec /\ Fairness

-----------------------------------------------------------------------------
(* Properties.                                                             *)

\* The types; a lease never outlives the authority.
TypeOK ==
  /\ machine \subseteq Inputs /\ owned \subseteq Inputs
  /\ down \subseteq Inputs /\ refused \subseteq Inputs /\ wanted \subseteq Inputs
  /\ lease \in Nat /\ expires \in Nat /\ now \in Nat
  /\ lease <= expires
  /\ velocity \in BOOLEAN /\ closed \in BOOLEAN /\ revoked \in BOOLEAN
  /\ cancelled \in BOOLEAN /\ hot \in BOOLEAN /\ revokeEnded \in BOOLEAN
  /\ holding \in {"none", "refuse", "frame", "revoke"}

\* Without a lease nothing is held, but for inputs whose up was refused: no path
\* through a failing frame, a worker or a stop leaves a key to nobody.
HeldIsLeased == lease = 0 => down \subseteq refused

\* After close nothing is held and nothing is pressed again, whatever frame was
\* between the gateway's check and the session when it closed.
ClosedIsReleased == closed => down \subseteq refused

\* After a revoke has ended nothing is held and nothing is pressed again.
RevokedIsReleased == revokeEnded => down \subseteq refused

\* Whoever stopped the motion, it stays stopped.
StoppedIsReleased == ClosedIsReleased /\ RevokedIsReleased

\* A frame that returns holds exactly the state it asked for, refused ups apart:
\* what the machine believes never drifts from what the window was sent, across
\* releases by the workers between two frames.
FrameIsExact ==
  [][(holding = "frame" /\ holding' = "none" /\ lease' # 0)
       => wanted \ refused' \subseteq down' /\ down' \subseteq wanted \cup refused']_vars

\* A held input comes up again unless its up is refused, though every caller
\* stops and the window never comes back.
HeldComesUp == \A i \in Inputs : i \in down ~> (i \notin down \/ i \in refused)
=============================================================================
