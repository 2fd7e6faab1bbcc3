--------------------------- MODULE SendInputSink ---------------------------
(***************************************************************************)
(* The keyboard sink of execution/windows_send_input.py: apply_bounded     *)
(* presses the controls of one primitive, holds them and lifts them, while *)
(* any thread may call release_all and one may close the sink.             *)
(*                                                                         *)
(* Threads.  Appliers call apply_bounded, Releasers call release_all, the  *)
(* Closer calls close.  One step is one critical section of the state lock *)
(* or one call to the backend; the submission lock, which spans several    *)
(* steps of a key-down, is the variable subLock.  The backend (SendInput   *)
(* and the window it is bound to) is the environment: a submission it does *)
(* not acknowledge with exactly 1 may or may not have moved the key.       *)
(***************************************************************************)
EXTENDS Integers, SequencesExt

CONSTANTS
  Keys,            \* the scan codes of the movement controls
  ControlChoices,  \* the control sequences primitives carry
  Appliers, Releasers, Closer,   \* the threads
  NoOne,           \* no thread, no generation, no key
  Hold, Slack,     \* hold_duration_ms and MIN_EXECUTION_SLACK_MS, in ticks
  Envelope,        \* max_execution_envelope_ms, in ticks
  MaxGeneration,   \* bound: release_all is called at most this often
  MaxTime,         \* bound: the clock stops here
  FocusReturns,    \* may the window get its focus back?
  BackendFails     \* may the backend fail to acknowledge a submission?

ASSUME SinkAssumption ==
  /\ ControlChoices \subseteq Seq(Keys) \ {<<>>}
  /\ Hold \in Nat \ {0} /\ Slack \in Nat \ {0}
  /\ Envelope \in Nat /\ Envelope >= Hold + Slack
  /\ MaxGeneration \in Nat /\ MaxTime \in Nat
  /\ FocusReturns \in BOOLEAN /\ BackendFails \in BOOLEAN
  /\ Closer \notin Appliers \cup Releasers /\ Appliers \cap Releasers = {}
  /\ NoOne \notin Keys \cup Appliers \cup Releasers \cup {Closer} \cup Nat

VARIABLES
  owned,       \* _owned_order (_owned is its set)
  releasing,   \* _releasing
  pending,     \* _pending_down: the generation of the key-down being submitted
  gen,         \* _release_generation
  activeGen,   \* _active_generation
  closed,      \* _closed
  receipt,     \* the native identity receipt is held
  applyLock,   \* the holder of _apply_lock
  subLock,     \* the holder of _submission_lock
  cancelled,   \* the cooperative cancellation token
  pc,          \* where each thread is
  why,         \* what the release a thread performs is for
  todo,        \* the controls an apply has still to press
  downAt,      \* first_down_at, or -1
  upAt,        \* up_started of the release in progress, or -1
  deadline,    \* budget.absolute_deadline_monotonic_ms
  claimed,     \* the keys a thread has claimed and not yet recorded as lifted
  lifted,      \* was the last key-up acknowledged?
  failures,    \* has the release met a failure?
  hot,         \* the bound window is in the foreground and alive
  now,         \* the monotonic clock
  down,        \* the keys physically held
  stolen,      \* history: another thread lifted a key of the apply in progress
  stale,       \* history: that apply began while an earlier release was lifting
  unlifted     \* history: some key-up was not acknowledged

shared == <<owned, releasing, pending, gen, activeGen, closed, receipt, applyLock, subLock>>
local == <<pc, why, todo, downAt, upAt, deadline, claimed, lifted, failures>>
world == <<cancelled, hot, now>>
history == <<stolen, stale, unlifted>>
vars == <<shared, local, world, down, history>>

Threads == Appliers \cup Releasers \cup {Closer}
Reasons == {"return", "unwind", "cleanup", "release", "close"}
Pcs == {"idle", "validate", "submit", "send", "sent", "check", "hold",
        "claim", "up", "record", "released", "commit"}
Unread == -1

Init ==
  /\ owned = <<>> /\ releasing = {} /\ pending = NoOne
  /\ gen = 0 /\ activeGen = NoOne /\ closed = FALSE /\ receipt = TRUE
  /\ applyLock = NoOne /\ subLock = NoOne
  /\ cancelled = FALSE /\ hot \in BOOLEAN /\ now = 0
  /\ pc = [t \in Threads |-> "idle"]
  /\ why = [t \in Threads |-> "release"]
  /\ todo = [t \in Threads |-> <<>>]
  /\ downAt = [t \in Threads |-> Unread]
  /\ upAt = [t \in Threads |-> Unread]
  /\ deadline = [t \in Threads |-> 0]
  /\ claimed = [t \in Threads |-> <<>>]
  /\ lifted = [t \in Threads |-> FALSE]
  /\ failures = [t \in Threads |-> FALSE]
  /\ down = {}
  /\ stolen = FALSE /\ stale = FALSE /\ unlifted = FALSE

\* A thread moves to a program point, and leaves every other thread where it is.
Goto(t, l) == pc' = [pc EXCEPT ![t] = l]

\* It enters _release_owned for a reason.
ReleaseFor(t, reason) ==
  /\ Goto(t, "claim")
  /\ why' = [why EXCEPT ![t] = reason]

-----------------------------------------------------------------------------
(* apply_bounded.                                                          *)

\* _generation_is_current_locked for an apply that registered generation g.
GenerationIsCurrent(g) ==
  ~closed /\ ~cancelled /\ activeGen = g /\ gen = g

\* _assert_execution_current around _assert_exact_hot. All but hot stay false
\* once they are false, so the three readings are one.
StillCurrent(a) ==
  GenerationIsCurrent(activeGen) /\ hot /\ now < deadline[a]

RoomToHold(a) == deadline[a] - now >= Hold + Slack

\* The apply lock is taken and the current release generation registered.
\* started is the time the gateway began the budget.
Begin(a) ==
  /\ pc[a] = "idle" /\ applyLock = NoOne
  /\ ~closed /\ activeGen = NoOne
  /\ now + Envelope <= MaxTime          \* bound: the budget ends before the clock stops
  /\ applyLock' = a
  /\ activeGen' = gen
  /\ \E controls \in ControlChoices : todo' = [todo EXCEPT ![a] = controls]
  /\ \E started \in 0..now : deadline' = [deadline EXCEPT ![a] = started + Envelope]
  /\ downAt' = [downAt EXCEPT ![a] = Unread]
  /\ Goto(a, "validate")
  /\ stolen' = FALSE /\ stale' = (\E t \in Threads : claimed[t] # <<>>)
  /\ UNCHANGED <<owned, releasing, pending, gen, closed, receipt, subLock, why, upAt,
                 claimed, lifted, failures, world, down, unlifted>>

OnlyApply == UNCHANGED <<todo, upAt, deadline, claimed, lifted, failures,
                         world, down, history>>

\* _validate_envelope and the first hot check: anything wrong raises.
Validate(a) ==
  /\ pc[a] = "validate"
  /\ IF StillCurrent(a) /\ RoomToHold(a)
     THEN Goto(a, "submit") /\ UNCHANGED why
     ELSE ReleaseFor(a, "cleanup")
  /\ UNCHANGED <<shared, downAt>>
  /\ OnlyApply

\* _press_scan_code up to the submission: the submission lock is taken, the
\* budget and the generation are checked once more under it.
Submit(a) ==
  /\ pc[a] = "submit" /\ subLock = NoOne
  /\ IF StillCurrent(a) /\ RoomToHold(a)
     THEN /\ subLock' = a /\ pending' = activeGen
          /\ Goto(a, "send") /\ UNCHANGED why
     ELSE /\ UNCHANGED <<subLock, pending>>
          /\ ReleaseFor(a, "cleanup")
  /\ UNCHANGED <<owned, releasing, gen, activeGen, closed, receipt, applyLock, downAt>>
  /\ OnlyApply

Own(k) == IF k \in Range(owned) THEN owned ELSE Append(owned, k)

\* Fault: only an acknowledged key-down is owned.
SendTrusting(a) ==
  /\ pc[a] = "send"
  /\ LET k == Head(todo[a])
     IN  \/ /\ down' = down \cup {k} /\ owned' = Own(k)
            /\ Goto(a, "sent") /\ UNCHANGED why
         \/ /\ BackendFails
            /\ down' \in {down, down \cup {k}} /\ owned' = owned
            /\ ReleaseFor(a, "unwind")
  /\ pending' = NoOne /\ subLock' = NoOne
  /\ UNCHANGED <<releasing, gen, activeGen, closed, receipt, applyLock, todo, downAt, upAt,
                 deadline, claimed, lifted, failures, world, history>>

\* The key-down, acknowledged or not, makes the key owned; then the submission
\* lock is let go.
Send(a) ==
  /\ pc[a] = "send"
  /\ LET k == Head(todo[a])
     IN  /\ owned' = Own(k)
         /\ \/ /\ down' = down \cup {k}
               /\ Goto(a, "sent") /\ UNCHANGED why
            \/ /\ BackendFails
               /\ down' \in {down, down \cup {k}}
               /\ ReleaseFor(a, "unwind")
  /\ pending' = NoOne /\ subLock' = NoOne
  /\ UNCHANGED <<releasing, gen, activeGen, closed, receipt, applyLock, todo, downAt, upAt,
                 deadline, claimed, lifted, failures, world, history>>

\* down_at is read; apply_bounded keeps the first.
ReadDownAt(a) ==
  /\ pc[a] = "sent"
  /\ downAt' = [downAt EXCEPT ![a] = IF @ = Unread THEN now ELSE @]
  /\ Goto(a, "check")
  /\ UNCHANGED <<shared, why>>
  /\ OnlyApply

\* After a key-down everything is checked again: unwind, go on with the next
\* control, or start to hold if the envelope still allows the whole hold.
CheckDown(a) ==
  /\ pc[a] = "check"
  /\ \/ /\ ~StillCurrent(a)
        /\ ReleaseFor(a, "unwind")
        /\ UNCHANGED todo
     \/ /\ StillCurrent(a) /\ Len(todo[a]) > 1
        /\ todo' = [todo EXCEPT ![a] = Tail(@)]
        /\ Goto(a, "submit") /\ UNCHANGED why
     \/ /\ StillCurrent(a) /\ Len(todo[a]) = 1
        /\ IF downAt[a] + Hold + Slack <= deadline[a]
           THEN Goto(a, "hold") /\ UNCHANGED why
           ELSE ReleaseFor(a, "cleanup")
        /\ UNCHANGED todo
  /\ UNCHANGED <<shared, downAt, upAt, deadline, claimed, lifted, failures,
                 world, down, history>>

\* Fault: a hold that waits for a lost target to come back.
HoldUntilPatient(a) ==
  /\ pc[a] = "hold" /\ hot
  /\ \/ ~StillCurrent(a) /\ ReleaseFor(a, "cleanup")
     \/ StillCurrent(a) /\ now >= downAt[a] + Hold /\ ReleaseFor(a, "return")
  /\ UNCHANGED <<shared, downAt>>
  /\ OnlyApply

\* _hold_until: poll until the hold is over or something went wrong.
HoldUntil(a) ==
  /\ pc[a] = "hold"
  /\ \/ ~StillCurrent(a) /\ ReleaseFor(a, "cleanup")
     \/ StillCurrent(a) /\ now >= downAt[a] + Hold /\ ReleaseFor(a, "return")
  /\ UNCHANGED <<shared, downAt>>
  /\ OnlyApply

-----------------------------------------------------------------------------
(* _release_owned, by whichever thread runs it.                            *)

Revokes(t) == why[t] \in {"release", "close"}

TakeOwned(t) ==
  /\ claimed' = [claimed EXCEPT ![t] = Reverse(owned)]
  /\ owned' = <<>>
  /\ releasing' = releasing \cup Range(owned)
  /\ failures' = [failures EXCEPT ![t] = FALSE]
  /\ upAt' = [upAt EXCEPT ![t] = Unread]
  /\ Goto(t, IF owned = <<>> THEN "released" ELSE "up")
  /\ UNCHANGED <<pending, activeGen, closed, receipt, applyLock, subLock, why, todo, downAt,
                 deadline, lifted, world, down, history>>

\* Faults: a revocation that does not wait for a key-down being submitted; a
\* release_all that revokes no generation.
ClaimAnyTime(t) ==
  /\ pc[t] = "claim"
  /\ gen' = IF Revokes(t) THEN gen + 1 ELSE gen
  /\ TakeOwned(t)

ClaimWithoutRevoking(t) ==
  /\ pc[t] = "claim"
  /\ Revokes(t) => subLock = NoOne
  /\ gen' = gen
  /\ TakeOwned(t)

\* _claim_owned: every owned key, newest first. A revocation waits for the
\* key-down being submitted and starts a new generation.
Claim(t) ==
  /\ pc[t] = "claim"
  /\ Revokes(t) => subLock = NoOne
  /\ gen' = IF Revokes(t) THEN gen + 1 ELSE gen
  /\ TakeOwned(t)

\* A failure met while releasing makes _release_owned raise. Only the release
\* of an apply that could still return goes another way for it.
Noted(t, failed) == why[t] = "return" /\ (failures[t] \/ failed)

\* The key-up of the next claimed key, with the hot check before it.
KeyUp(t) ==
  /\ pc[t] = "up"
  /\ LET k == Head(claimed[t])
     IN  /\ \/ down' = down \ {k} /\ lifted' = [lifted EXCEPT ![t] = TRUE] /\ UNCHANGED unlifted
            \/ /\ BackendFails
               /\ down' \in {down, down \ {k}}
               /\ lifted' = [lifted EXCEPT ![t] = FALSE] /\ unlifted' = TRUE
         /\ stolen' = (stolen \/ (applyLock \notin {NoOne, t} /\ k \in down \ down'))
  /\ upAt' = [upAt EXCEPT ![t] = IF @ = Unread /\ why[t] = "return" THEN now ELSE @]
  /\ failures' = [failures EXCEPT ![t] = Noted(t, ~hot)]
  /\ Goto(t, "record")
  /\ UNCHANGED <<shared, why, todo, downAt, deadline, claimed, world, stale>>

OnlyRecord == UNCHANGED <<pending, gen, activeGen, closed, receipt, applyLock, subLock, why,
                          todo, downAt, upAt, deadline, world, down, history>>

\* What is remembered of that key: a key whose key-up was not acknowledged is
\* owned again. The hot check after it is only evidence.
Record(t) ==
  /\ pc[t] = "record"
  /\ releasing' = releasing \ {Head(claimed[t])}
  /\ owned' = IF lifted[t] THEN owned ELSE Own(Head(claimed[t]))
  /\ claimed' = [claimed EXCEPT ![t] = Tail(@)]
  /\ failures' = [failures EXCEPT ![t] = Noted(t, ~lifted[t] \/ ~hot)]
  /\ lifted' = [lifted EXCEPT ![t] = FALSE]
  /\ Goto(t, IF Len(claimed[t]) > 1 THEN "up" ELSE "released")
  /\ OnlyRecord

-----------------------------------------------------------------------------
(* What each caller of _release_owned does next.                           *)

OnlyReturn == UNCHANGED <<owned, releasing, pending, gen, closed, subLock, claimed,
                          world, down, history>>

KeepLocals == UNCHANGED <<todo, downAt, upAt, deadline, lifted, failures>>

\* A call ends, returning or raising, and its locals with it.
Leave(t) ==
  /\ Goto(t, "idle")
  /\ why' = [why EXCEPT ![t] = "release"]
  /\ todo' = [todo EXCEPT ![t] = <<>>]
  /\ downAt' = [downAt EXCEPT ![t] = Unread]
  /\ upAt' = [upAt EXCEPT ![t] = Unread]
  /\ deadline' = [deadline EXCEPT ![t] = 0]
  /\ lifted' = [lifted EXCEPT ![t] = FALSE]
  /\ failures' = [failures EXCEPT ![t] = FALSE]

EndApply(a) ==
  /\ activeGen' = NoOne /\ applyLock' = NoOne
  /\ Leave(a)
  /\ UNCHANGED receipt

\* The keys are up again: measure the hold, or go to the exception handler.
HoldMeasured(a) ==
  /\ ~failures[a] /\ StillCurrent(a)
  /\ upAt[a] # Unread /\ upAt[a] - downAt[a] >= Hold
  /\ now <= deadline[a]

ReleasedForReturn(a) ==
  /\ pc[a] = "released" /\ why[a] = "return"
  /\ IF HoldMeasured(a)
     THEN Goto(a, "commit") /\ UNCHANGED why
     ELSE ReleaseFor(a, "cleanup")
  /\ UNCHANGED <<activeGen, applyLock, receipt>>
  /\ KeepLocals /\ OnlyReturn

\* The release inside _press_scan_code is followed by the handler's own.
ReleasedToUnwind(a) ==
  /\ pc[a] = "released" /\ why[a] = "unwind"
  /\ ReleaseFor(a, "cleanup")
  /\ UNCHANGED <<activeGen, applyLock, receipt>>
  /\ KeepLocals /\ OnlyReturn

\* The exception handler is through: the apply raises.
Raise(a) ==
  /\ pc[a] = "released" /\ why[a] = "cleanup"
  /\ EndApply(a)
  /\ OnlyReturn

\* The completion commit: release or cancellation may still win.
Commit(a) ==
  /\ pc[a] = "commit"
  /\ \/ GenerationIsCurrent(activeGen) /\ EndApply(a)
     \/ /\ ~GenerationIsCurrent(activeGen) /\ ReleaseFor(a, "cleanup")
        /\ UNCHANGED <<activeGen, applyLock, receipt>> /\ KeepLocals
  /\ OnlyReturn

ReleaseAll(r) ==
  /\ pc[r] = "idle" /\ gen < MaxGeneration
  /\ ReleaseFor(r, "release")
  /\ UNCHANGED <<activeGen, applyLock, receipt>>
  /\ KeepLocals /\ OnlyReturn

\* release_all returns, or raises if its release met a failure.
ReleaseAllEnds(r) ==
  /\ pc[r] = "released" /\ why[r] = "release"
  /\ Leave(r)
  /\ UNCHANGED <<activeGen, applyLock, receipt>>
  /\ OnlyReturn

\* close: once only; the keys first, then the identity receipt.
Close ==
  /\ pc[Closer] = "idle" /\ ~closed
  /\ closed' = TRUE
  /\ ReleaseFor(Closer, "close")
  /\ UNCHANGED <<owned, releasing, pending, gen, activeGen, receipt, applyLock, subLock, todo,
                 downAt, upAt, deadline, claimed, lifted, failures, world, down,
                 history>>

CloseReceipt ==
  /\ pc[Closer] = "released" /\ why[Closer] = "close"
  /\ receipt' \in {FALSE, BackendFails /\ receipt}
  /\ Leave(Closer)
  /\ UNCHANGED <<activeGen, applyLock>>
  /\ OnlyReturn

-----------------------------------------------------------------------------
(* The environment: the cancellation token, the window and the clock.      *)

Cancel ==
  /\ ~cancelled /\ cancelled' = TRUE
  /\ UNCHANGED <<shared, local, hot, now, down, history>>

FocusChanges ==
  /\ hot \/ FocusReturns
  /\ hot' = ~hot
  /\ UNCHANGED <<shared, local, cancelled, now, down, history>>

Tick ==
  /\ now < MaxTime /\ now' = now + 1
  /\ UNCHANGED <<shared, local, cancelled, hot, down, history>>

-----------------------------------------------------------------------------
ReleaseStep(t) == Claim(t) \/ KeyUp(t) \/ Record(t)

ApplyStep(a) ==
  \/ Validate(a) \/ Submit(a) \/ Send(a) \/ ReadDownAt(a) \/ CheckDown(a) \/ HoldUntil(a)
  \/ ReleasedForReturn(a) \/ ReleasedToUnwind(a) \/ Raise(a) \/ Commit(a)

Next ==
  \/ \E a \in Appliers : Begin(a) \/ ApplyStep(a)
  \/ \E r \in Releasers : ReleaseAll(r) \/ ReleaseAllEnds(r)
  \/ \E t \in Threads : ReleaseStep(t)
  \/ Close \/ CloseReceipt
  \/ Cancel \/ FocusChanges \/ Tick

Spec == Init /\ [][Next]_vars

\* A thread inside the sink keeps running (every wait it makes is timed) and
\* the clock goes on. The locks are held across finitely many of those steps.
Fairness ==
  /\ \A a \in Appliers : WF_vars(ApplyStep(a))
  /\ \A t \in Threads : WF_vars(ReleaseStep(t))
  /\ WF_vars(Tick)

FairSpec == Spec /\ Fairness

-----------------------------------------------------------------------------
(* Properties.                                                             *)

SharedTypes ==
  /\ owned \in Seq(Keys) /\ releasing \subseteq Keys
  /\ pending \in Nat \cup {NoOne} /\ activeGen \in Nat \cup {NoOne} /\ gen \in Nat
  /\ closed \in BOOLEAN /\ receipt \in BOOLEAN
  /\ applyLock \in Appliers \cup {NoOne} /\ subLock \in Appliers \cup {NoOne}

ControlTypes ==
  /\ pc \in [Threads -> Pcs] /\ why \in [Threads -> Reasons]
  /\ lifted \in [Threads -> BOOLEAN] /\ failures \in [Threads -> BOOLEAN]
  /\ todo \in [Threads -> Seq(Keys)] /\ claimed \in [Threads -> Seq(Keys)]

ClockTypes ==
  /\ downAt \in [Threads -> Nat \cup {Unread}] /\ upAt \in [Threads -> Nat \cup {Unread}]
  /\ deadline \in [Threads -> Nat] /\ now \in Nat

WorldTypes == down \subseteq Keys /\ hot \in BOOLEAN /\ cancelled \in BOOLEAN

\* The submission lock and the apply lock are held exactly where the code holds them.
LockDiscipline ==
  /\ \A a \in Appliers : pc[a] # "idle" <=> applyLock = a
  /\ \A a \in Appliers : pc[a] = "send" <=> subLock = a

\* A thread that is to press or to lift a key has one to press or to lift.
WorkRemains ==
  /\ \A t \in Threads :
       pc[t] \in {"validate", "submit", "send", "sent", "check"} => todo[t] # <<>>
  /\ \A t \in Threads : pc[t] \in {"up", "record"} <=> claimed[t] # <<>>

\* The types, the lock discipline and the work each program point stands for.
TypeOK ==
  SharedTypes /\ ControlTypes /\ ClockTypes /\ WorldTypes /\ LockDiscipline /\ WorkRemains

\* No key is ever held by the system that nobody remembers: it is owned, or
\* claimed by a thread that has still to lift it, whatever the backend
\* acknowledged and whoever released in between.
HeldIsAccounted ==
  down \subseteq Range(owned) \cup UNION {Range(claimed[t]) : t \in Threads}

\* When every call is over nothing is held and nothing is owned, unless a
\* key-up was not acknowledged.
NothingLeftHeld ==
  (\A t \in Threads : pc[t] = "idle") => unlifted \/ (down = {} /\ owned = <<>>)

\* A step that presses a key finds its generation current.
PressIsCurrent == ~(down' \subseteq down) => pending = gen

\* A key goes down only in the generation the sink is in: once release_all or
\* close has revoked an apply, no key-down of that apply reaches the window,
\* not even one already past its checks.
NoPressAfterRevocation == [][PressIsCurrent]_vars

ReturnIsHonest ==
  \A a \in Appliers :
    (pc[a] = "commit" /\ pc'[a] = "idle") => stale \/ (~stolen /\ down = {})

\* An apply that returns held its keys for the whole measured hold and left none
\* down, unless it began while an earlier release was still lifting keys.
ReturnedMeansHeld == [][ReturnIsHonest]_vars

\* close releases the keys before the receipt: a key that is down after it was
\* claimed by another thread, which has still to lift it.
ReceiptOutlivesKeys ==
  ~receipt => unlifted \/ down \subseteq UNION {Range(claimed[t]) : t \in Threads}

\* Every held key has somebody who will lift it, and close gives the receipt up
\* only for keys that are another thread's to lift.
KeysAreAccounted == HeldIsAccounted /\ ReceiptOutlivesKeys

\* A held key comes up again, unless its key-up is refused, in whatever order
\* the target loses focus, the token is cancelled and threads release.
KeyComesUp == \A k \in Keys : k \in down ~> (k \notin down \/ unlifted)

\* Every apply_bounded returns or raises.
ApplyEnds == \A a \in Appliers : pc[a] # "idle" ~> pc[a] = "idle"

\* The sink comes to rest whatever fails in it.
ComesToRest == KeyComesUp /\ ApplyEnds

-----------------------------------------------------------------------------
(* The port this sink implements.                                          *)

\* The threads inside the sink, and whether the apply among them is in the
\* generation of its registration.
InSink == {t \in Threads : pc[t] # "idle"}
Unrevoked == activeGen = gen

Port == INSTANCE InputSink WITH
  Controls <- Keys, Releasers <- Releasers \cup {Closer},
  held <- down, calls <- InSink, current <- Unrevoked, refused <- unlifted

\* windows_send_input.py keeps the promise of ports.InputSink: keys go down only
\* in an apply that was not revoked, and the last call to leave leaves none down.
ImplementsPort == Port!PortSpec
=============================================================================
