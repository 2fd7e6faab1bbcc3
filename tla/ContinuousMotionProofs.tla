----------------------- MODULE ContinuousMotionProofs -----------------------
(***************************************************************************)
(* Theorems about ContinuousMotion, for every set of controls, every lease *)
(* and clock bound, and whatever the backend acknowledges.                 *)
(***************************************************************************)
EXTENDS ContinuousMotion, TLAPS

LEMMA Constants ==
  /\ RMB \notin Controls /\ Desired \subseteq SUBSET Inputs
  /\ Lease \in Nat /\ Lease > 0 /\ FirstExpiry \in Nat /\ MaxTime \in Nat
  BY MotionAssumption DEF MotionAssumption

\* A release gives up the lease and the machine's belief; what it could not lift
\* is owned and refused, and nothing else is held.
LEMMA ReleaseLeavesRefused ==
  ASSUME TypeOK, NEW pressed \in SUBSET Inputs, ReleaseAllLocked(pressed)
  PROVE  /\ machine' = {} /\ lease' = 0 /\ velocity' = FALSE
         /\ owned' = refused' /\ refused' \subseteq Inputs
         /\ down' \subseteq refused'
  BY DEF ReleaseAllLocked, TypeOK

\* The releasing steps.
Releasing ==
  RefuseFrame \/ FrameFails \/ RevokeReleases \/ ReleaseAll \/ Close \/ Watchdog \/ VelocityFails

LEMMA ReleasingReleases ==
  ASSUME TypeOK, Releasing
  PROVE  /\ machine' = {} /\ lease' = 0 /\ velocity' = FALSE
         /\ owned' = refused' /\ refused' \subseteq Inputs
         /\ down' \subseteq refused'
  <1>1. ASSUME NEW pressed \in SUBSET (wanted \ machine), ReleaseAllLocked(pressed)
        PROVE  pressed \in SUBSET Inputs /\ ReleaseAllLocked(pressed)
    BY <1>1 DEF TypeOK
  <1>2. \E pressed \in SUBSET Inputs : ReleaseAllLocked(pressed)
    BY <1>1 DEF Releasing, RefuseFrame, FrameFails, RevokeReleases, ReleaseAll, Close, Watchdog,
                VelocityFails
  <1> QED BY <1>2, ReleaseLeavesRefused

\* What else a releasing step may change: the gateway's lock passes on, a session
\* is closed, a revoke ends.
LEMMA ReleasingKeeps ==
  ASSUME TypeOK, Releasing
  PROVE  /\ expires' = expires /\ now' = now /\ hot' = hot
         /\ cancelled' = cancelled /\ revoked' = revoked
         /\ closed' \in {closed, TRUE}
         /\ holding' \in {holding, "none"} /\ wanted' \in {wanted, {}}
         /\ revokeEnded' \in {revokeEnded, TRUE}
         /\ revokeEnded' => revokeEnded \/ holding = "revoke"
  <1>1. CASE RefuseFrame
    BY <1>1 DEF RefuseFrame, session, gateway, world, history
  <1>2. CASE FrameFails
    BY <1>2 DEF FrameFails, session, gateway, world, history
  <1>3. CASE RevokeReleases
    BY <1>3 DEF RevokeReleases, session, gateway, world, history
  <1>4. CASE ReleaseAll
    BY <1>4 DEF ReleaseAll, session, gateway, world, history
  <1>5. CASE Close
    BY <1>5 DEF Close, session, gateway, world, history
  <1>6. CASE Watchdog
    BY <1>6 DEF Watchdog, session, gateway, world, history
  <1>7. CASE VelocityFails
    BY <1>7 DEF VelocityFails, session, gateway, world, history
  <1> QED BY <1>1, <1>2, <1>3, <1>4, <1>5, <1>6, <1>7 DEF Releasing

\* A lease taken under a current authority is a lease, and ends with it.
LEMMA LeaseIsBounded ==
  ASSUME now \in Nat, NEW expiry \in Nat, now < expiry
  PROVE  LeaseUntil(expiry) \in Nat /\ LeaseUntil(expiry) > 0 /\ LeaseUntil(expiry) <= expiry
  BY Constants DEF LeaseUntil

-----------------------------------------------------------------------------
LEMMA MotionInit == Init => TypeOK
  <1> SUFFICES ASSUME Init PROVE TypeOK
    OBVIOUS
  <1>1. lease \in Nat /\ expires \in Nat /\ now \in Nat /\ lease <= expires
    BY Constants DEF Init
  <1>2. /\ velocity \in BOOLEAN /\ closed \in BOOLEAN /\ revoked \in BOOLEAN
        /\ cancelled \in BOOLEAN /\ hot \in BOOLEAN /\ revokeEnded \in BOOLEAN
    BY DEF Init
  <1>3. /\ machine \subseteq Inputs /\ owned \subseteq Inputs /\ wanted \subseteq Inputs
        /\ down \subseteq Inputs /\ refused \subseteq Inputs /\ holding = "none"
    BY DEF Init
  <1> QED BY <1>1, <1>2, <1>3 DEF TypeOK

LEMMA MotionNext == TypeOK /\ [Next]_vars => TypeOK'
  <1> SUFFICES ASSUME TypeOK, [Next]_vars PROVE TypeOK'
    OBVIOUS
  <1> USE Constants
  <1>1. ASSUME FrameHeld PROVE TypeOK'
    <2>1. LeaseUntil(expires) \in Nat /\ LeaseUntil(expires) <= expires
      BY <1>1, LeaseIsBounded DEF FrameHeld, Admissible, TypeOK
    <2>2. velocity' \in BOOLEAN
      BY <1>1 DEF FrameHeld
    <2>3. /\ machine' \subseteq Inputs /\ owned' \subseteq Inputs /\ down' \subseteq Inputs
          /\ refused' \subseteq Inputs /\ wanted' \subseteq Inputs
      BY <1>1 DEF FrameHeld, TypeOK, Presses
    <2> QED BY <1>1, <2>1, <2>2, <2>3 DEF FrameHeld, TypeOK, session, gateway, world, history
  <1>2. ASSUME Releasing PROVE TypeOK'
    <2>1. lease' \in Nat /\ lease' <= expires' /\ expires' \in Nat /\ now' \in Nat
      <3>1. lease' = 0
        BY <1>2, ReleasingReleases
      <3>2. expires' = expires /\ now' = now
        BY <1>2, ReleasingKeeps
      <3> QED BY <3>1, <3>2 DEF TypeOK
    <2>2. /\ velocity' \in BOOLEAN /\ closed' \in BOOLEAN /\ revoked' \in BOOLEAN
          /\ cancelled' \in BOOLEAN /\ hot' \in BOOLEAN /\ revokeEnded' \in BOOLEAN
      BY <1>2, ReleasingReleases, ReleasingKeeps DEF TypeOK
    <2>3. /\ machine' \subseteq Inputs /\ owned' \subseteq Inputs /\ down' \subseteq Inputs
          /\ refused' \subseteq Inputs /\ wanted' \subseteq Inputs
          /\ holding' \in {"none", "refuse", "frame", "revoke"}
      BY <1>2, ReleasingReleases, ReleasingKeeps DEF TypeOK
    <2> QED BY <2>1, <2>2, <2>3 DEF TypeOK
  <1>3. ASSUME Renew PROVE TypeOK'
    <2>1. PICK later \in (expires + 1)..MaxTime :
            /\ now < later /\ expires' = later
            /\ lease' = IF lease = 0 THEN 0 ELSE LeaseUntil(later)
      BY <1>3 DEF Renew
    <2>2. later \in Nat
      BY <2>1 DEF TypeOK
    <2>3. lease' \in Nat /\ lease' <= expires' /\ expires' \in Nat
      BY <2>1, <2>2, LeaseIsBounded DEF TypeOK
    <2> QED BY <1>3, <2>3 DEF Renew, TypeOK, session, gateway, world, history
  <1>4. ASSUME GatewayFrame PROVE TypeOK'
    BY <1>4 DEF GatewayFrame, TypeOK, session, gateway, world, history
  <1>5. ASSUME Revoke PROVE TypeOK'
    BY <1>5 DEF Revoke, TypeOK, session, gateway, world, history
  <1>6. ASSUME Cancel PROVE TypeOK'
    BY <1>6 DEF Cancel, TypeOK, session, gateway, world, history
  <1>7. ASSUME FocusChanges PROVE TypeOK'
    BY <1>7 DEF FocusChanges, TypeOK, session, gateway, world, history
  <1>8. ASSUME Tick PROVE TypeOK'
    BY <1>8 DEF Tick, TypeOK, session, gateway, world, history
  <1>9. CASE UNCHANGED vars
    BY <1>9 DEF vars, TypeOK, session, gateway, world, history
  <1> QED BY <1>1, <1>2, <1>3, <1>4, <1>5, <1>6, <1>7, <1>8, <1>9 DEF Next, Releasing

\* Every value keeps its type and no lease outlives its authority.
THEOREM MotionTypeCorrect == Spec => []TypeOK
  BY MotionInit, MotionNext, PTL DEF Spec

-----------------------------------------------------------------------------
(* Nothing is held without a lease, after close, or after a revoke.        *)

\* What makes a revoke final: the holder of the gateway's lock when it was marked
\* was not a frame, and no later frame gets past the gateway.
RevokeInv ==
  /\ revokeEnded => revoked
  /\ revoked => holding # "frame"
  /\ holding = "revoke" => revoked

StopInv == HeldIsLeased /\ ClosedIsReleased /\ RevokedIsReleased /\ RevokeInv

LEMMA StopNext == TypeOK /\ StopInv /\ [Next]_vars => StopInv'
  <1> SUFFICES ASSUME TypeOK, StopInv, [Next]_vars PROVE StopInv'
    OBVIOUS
  <1> USE DEF StopInv, HeldIsLeased, ClosedIsReleased, RevokedIsReleased, RevokeInv
  <1>1. ASSUME FrameHeld PROVE StopInv'
    <2>1. LeaseUntil(expires) > 0
      BY <1>1, LeaseIsBounded DEF FrameHeld, Admissible, TypeOK
    <2> QED BY <1>1, <2>1 DEF FrameHeld, Admissible, TypeOK, session, gateway, world, history
  <1>2. ASSUME Releasing PROVE StopInv'
    <2>1. HeldIsLeased' /\ ClosedIsReleased' /\ RevokedIsReleased'
      BY <1>2, ReleasingReleases
    <2>2. RevokeInv'
      <3>1. /\ revokeEnded' => revokeEnded \/ holding = "revoke"
            /\ revoked' = revoked /\ (holding' = holding \/ holding' = "none")
        BY <1>2, ReleasingKeeps
      <3> QED BY <3>1
    <2> QED BY <2>1, <2>2
  <1>3. ASSUME Renew PROVE StopInv'
    <2>1. lease' = 0 => lease = 0
      <3>1. PICK later \in (expires + 1)..MaxTime :
              now < later /\ lease' = IF lease = 0 THEN 0 ELSE LeaseUntil(later)
        BY <1>3 DEF Renew
      <3>2. later \in Nat
        BY <3>1, Constants DEF TypeOK
      <3> QED BY <3>1, <3>2, LeaseIsBounded DEF TypeOK
    <2> QED BY <1>3, <2>1 DEF Renew, session, gateway, world, history
  <1>4. ASSUME GatewayFrame PROVE StopInv'
    BY <1>4 DEF GatewayFrame, session, gateway, world, history
  <1>5. ASSUME Revoke PROVE StopInv'
    BY <1>5 DEF Revoke, session, gateway, world, history
  <1>6. ASSUME Cancel PROVE StopInv'
    BY <1>6 DEF Cancel, session, gateway, world, history
  <1>7. ASSUME FocusChanges PROVE StopInv'
    BY <1>7 DEF FocusChanges, session, gateway, world, history
  <1>8. ASSUME Tick PROVE StopInv'
    BY <1>8 DEF Tick, session, gateway, world, history
  <1>9. CASE UNCHANGED vars
    BY <1>9 DEF vars, session, gateway, world, history
  <1> QED BY <1>1, <1>2, <1>3, <1>4, <1>5, <1>6, <1>7, <1>8, <1>9 DEF Next, Releasing

LEMMA StopHolds == Spec => []StopInv
  <1>1. Init => StopInv
    BY DEF Init, StopInv, HeldIsLeased, ClosedIsReleased, RevokedIsReleased, RevokeInv
  <1> QED BY <1>1, StopNext, MotionTypeCorrect, PTL DEF Spec

\* Without a lease nothing is held, but for inputs whose up was refused.
THEOREM NothingHeldUnleased == Spec => []HeldIsLeased
  BY StopHolds, PTL DEF StopInv

\* After close, or after a revoke has ended, nothing is held and nothing is pressed
\* again.
THEOREM StopIsFinal == Spec => []StoppedIsReleased
  <1>1. StopInv => StoppedIsReleased
    BY DEF StopInv, StoppedIsReleased
  <1> QED BY <1>1, StopHolds, PTL

-----------------------------------------------------------------------------
(* The machine and the window agree.                                       *)

\* What the machine believes, what the session owns and what is held differ only
\* in inputs whose up was refused.
AgreeInv ==
  /\ machine \subseteq owned /\ owned \subseteq machine \cup refused
  /\ machine \ refused \subseteq down /\ down \subseteq machine \cup refused

LEMMA AgreeNext == TypeOK /\ AgreeInv /\ [Next]_vars => AgreeInv'
  <1> SUFFICES ASSUME TypeOK, AgreeInv, [Next]_vars PROVE AgreeInv'
    OBVIOUS
  <1>1. ASSUME FrameHeld PROVE AgreeInv'
    BY <1>1 DEF FrameHeld, Lifts, Presses, AgreeInv
  <1>2. ASSUME Releasing PROVE AgreeInv'
    BY <1>2, ReleasingReleases DEF AgreeInv
  <1>3. ASSUME Renew PROVE AgreeInv'
    BY <1>3 DEF Renew, AgreeInv, session, gateway, world, history
  <1>4. ASSUME GatewayFrame PROVE AgreeInv'
    BY <1>4 DEF GatewayFrame, AgreeInv, session, gateway, world, history
  <1>5. ASSUME Revoke PROVE AgreeInv'
    BY <1>5 DEF Revoke, AgreeInv, session, gateway, world, history
  <1>6. ASSUME Cancel PROVE AgreeInv'
    BY <1>6 DEF Cancel, AgreeInv, session, gateway, world, history
  <1>7. ASSUME FocusChanges PROVE AgreeInv'
    BY <1>7 DEF FocusChanges, AgreeInv, session, gateway, world, history
  <1>8. ASSUME Tick PROVE AgreeInv'
    BY <1>8 DEF Tick, AgreeInv, session, gateway, world, history
  <1>9. CASE UNCHANGED vars
    BY <1>9 DEF vars, AgreeInv, session, gateway, world, history
  <1> QED BY <1>1, <1>2, <1>3, <1>4, <1>5, <1>6, <1>7, <1>8, <1>9 DEF Next, Releasing

\* A frame that returns holds exactly the state it asked for, refused ups apart.
THEOREM FramesAreExact == Spec => FrameIsExact
  <1> DEFINE Exact ==
        (holding = "frame" /\ holding' = "none" /\ lease' # 0)
          => wanted \ refused' \subseteq down' /\ down' \subseteq wanted \cup refused'
  <1>1. Init => AgreeInv
    BY DEF Init, AgreeInv
  <1>2. TypeOK /\ AgreeInv /\ [Next]_vars => Exact
    <2> SUFFICES ASSUME TypeOK, AgreeInv, [Next]_vars,
                        holding = "frame", holding' = "none", lease' # 0
                 PROVE  wanted \ refused' \subseteq down' /\ down' \subseteq wanted \cup refused'
      OBVIOUS
    <2>1. FrameHeld
      BY ReleasingReleases DEF Next, Releasing, GatewayFrame, Renew, Revoke, Cancel, FocusChanges,
         Tick, vars, gateway
    <2>2. machine' = wanted
      BY <2>1 DEF FrameHeld
    <2> QED BY <2>2, AgreeNext DEF AgreeInv
  <1>3. TypeOK /\ AgreeInv /\ [Next]_vars => [Exact]_vars
    BY <1>2
  <1>4. Spec => [][Exact]_vars
    BY <1>1, <1>3, AgreeNext, MotionTypeCorrect, PTL DEF Spec
  <1> QED BY <1>4 DEF FrameIsExact
=============================================================================
