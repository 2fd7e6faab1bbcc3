-------------------------- MODULE ExecutionGateway --------------------------
(***************************************************************************)
(* The bounded execution gateway of execution/gateway.py: the single       *)
(* object through which a movement primitive reaches an input sink.        *)
(*                                                                         *)
(* Threads.  A caller runs execute or run_next and holds the execution     *)
(* lock until the call returns.  Any thread may enqueue.  Each accepted    *)
(* primitive is applied by a worker thread of its own, watched by its      *)
(* caller.  A stop is a thread that revokes authority: the operator's      *)
(* takeover, close, or the disarming of the runtime arm.                   *)
(*                                                                         *)
(* One step is one critical section of the gateway's lock, or one call to  *)
(* the sink made outside it.  The state epoch is kept as epochMoved: has   *)
(* it moved since the execution in flight took its snapshot?  All expiry   *)
(* times (primitive, pose, lease, arm, authorization) are one Horizon.     *)
(***************************************************************************)
EXTENDS Integers, Sequences, FiniteSets

CONSTANTS
  Primitives,       \* the movement primitives clients may submit
  SequenceOf,       \* [Primitives -> Nat]: the sequence number of each
  Honoured,         \* those whose binding, owner, mode, control and duration fit the lease
  FirstSequence,    \* lease.first_sequence
  MaxPrimitives,    \* lease.max_primitives
  MaxQueueDepth,    \* lease.max_queue_depth
  Callers,          \* the threads that call execute and run_next
  NoOne,            \* no caller, no primitive
  Hold, Slack,      \* hold_duration_ms and MIN_EXECUTION_SLACK_MS, in ticks
  Envelope,         \* max_execution_envelope_ms, in ticks
  Horizon,          \* the first tick at which some authority has expired
  MaxTime,          \* bound: the clock stops here
  ReleaseOutcomes,  \* the ways sink.release_all may end: TRUE returns, FALSE raises
  CooperativeSink   \* does the sink honour cancellation and revocation before a press?

ASSUME GatewayAssumption ==
  /\ SequenceOf \in [Primitives -> Nat]
  /\ Honoured \subseteq Primitives
  /\ FirstSequence \in Nat
  /\ MaxPrimitives \in Nat \ {0}
  /\ MaxQueueDepth \in Nat \ {0}
  /\ NoOne \notin Callers \cup Primitives
  /\ Hold \in Nat \ {0} /\ Slack \in Nat \ {0}
  /\ Envelope \in Nat /\ Envelope >= Hold + Slack
  /\ Horizon \in Nat /\ MaxTime \in Nat
  /\ ReleaseOutcomes \in SUBSET BOOLEAN /\ TRUE \in ReleaseOutcomes
  /\ CooperativeSink \in BOOLEAN

VARIABLES
  gstate,          \* _state
  epochMoved,      \* _state_epoch differs from the execution's snapshot
  queue,           \* _queue
  nextSequence,    \* _next_sequence
  seen,            \* _seen_primitive_ids
  cancelled,       \* _cancellation.is_cancelled
  armRevoked,      \* _runtime_arm_revoked
  active,          \* the primitive of _active_sink_invocation
  releaseFaulted,  \* _release_faulted
  subscribed,      \* _arm_subscription_valid
  execLock,        \* the holder of _execution_lock
  cpc,             \* where each caller is
  cprim,           \* the primitive of its call
  cfailure,        \* the failure status it is about to publish
  released,        \* did its release_all succeed?
  completedAt,     \* its clock reading after the release
  wpc,             \* where the worker of each primitive is
  deadline,        \* the absolute deadline of the primitive's budget
  finalRelease,    \* invocation.final_release_required
  outcome,         \* invocation.outcome
  startFailure,    \* invocation.start_failure
  stopPc,          \* where each stop thread is
  armActive,       \* the runtime arm's snapshot is active
  now,             \* the injected monotonic clock
  keyDown,         \* some control is physically held by the sink
  sinkCurrent,     \* no release_all since apply_bounded began
  applied,         \* history: the primitives handed to the sink, in order
  verdict          \* history: the status published for each execution

gate   == <<gstate, epochMoved, queue>>
ledger == <<nextSequence, seen>>
caller == <<execLock, cpc, cprim, cfailure, released, completedAt>>
worker == <<wpc, deadline, finalRelease, outcome, startFailure>>
sink   == <<keyDown, sinkCurrent>>
history == <<applied, verdict>>
vars == <<gate, ledger, cancelled, armRevoked, active, releaseFaulted, subscribed,
          caller, worker, stopPc, armActive, now, sink, history>>

READY == "READY"
FAULTED == "FAULTED"
MANUAL_TAKEOVER == "MANUAL_TAKEOVER"
CLOSED == "CLOSED"
States == {READY, FAULTED, MANUAL_TAKEOVER, CLOSED}
Stopped == {MANUAL_TAKEOVER, CLOSED}

Stops == {"takeover", "close", "disarm"}
Failures == {"REJECTED", "CANCELLED", "FAILED"}
Outcomes == {"COMPLETED", "CANCELLED", "EXCEPTION", "START_REJECTED"}
CallerPcs == {"idle", "expected", "cleared", "starting", "waitStart",
              "waitRejected", "waitApply", "release", "commit", "failing", "failRelease"}
WorkerLive == {"gate", "enter", "apply", "held", "leaving", "dereg"}
BadClock == MaxTime + 1              \* a reading the gateway refuses
Readings == {now, BadClock}
Unset == "unset"

Init ==
  /\ gstate = READY /\ epochMoved = FALSE /\ queue = <<>>
  /\ nextSequence = FirstSequence /\ seen = {}
  /\ cancelled = FALSE /\ armRevoked = FALSE /\ active = NoOne
  /\ releaseFaulted = FALSE /\ subscribed \in BOOLEAN
  /\ execLock = NoOne
  /\ cpc = [c \in Callers |-> "idle"]
  /\ cprim = [c \in Callers |-> NoOne]
  /\ cfailure = [c \in Callers |-> Unset]
  /\ released = [c \in Callers |-> FALSE]
  /\ completedAt = [c \in Callers |-> 0]
  /\ wpc = [p \in Primitives |-> "none"]
  /\ deadline = [p \in Primitives |-> 0]
  /\ finalRelease = [p \in Primitives |-> FALSE]
  /\ outcome = [p \in Primitives |-> Unset]
  /\ startFailure = [p \in Primitives |-> Unset]
  /\ stopPc = [s \in Stops |-> "idle"]
  /\ armActive = TRUE /\ now = 0
  /\ keyDown = FALSE /\ sinkCurrent = FALSE
  /\ applied = <<>>
  /\ verdict = [p \in Primitives |-> Unset]

-----------------------------------------------------------------------------
(* Failing closed and releasing.                                           *)

Faulted(s) == IF s \in Stopped THEN s ELSE FAULTED

\* Fault: a failed release that is only latched.
AfterReleaseIgnored(s, ok) == s

AfterRelease(s, ok) == IF ok \/ s = CLOSED THEN s ELSE FAULTED

\* _release_all: the sink drops every control, or raises and leaves them.
ReleaseSink(ok) ==
  /\ sinkCurrent' = FALSE
  /\ keyDown' = (keyDown /\ ~ok)
  /\ releaseFaulted' = (releaseFaulted \/ ~ok)

ReleaseAll(ok) ==
  /\ ReleaseSink(ok)
  /\ gstate' = AfterRelease(gstate, ok)
  /\ epochMoved' = (epochMoved \/ (~ok /\ gstate # CLOSED))
  /\ queue' = queue

\* The locked half of _fail_closed.
FailLocked ==
  /\ gstate' = Faulted(gstate)
  /\ epochMoved' = (epochMoved \/ gstate \notin Stopped)
  /\ queue' = <<>>

\* _fail_closed called with the lock already held: one critical section.
FailClosed(ok) ==
  /\ ReleaseSink(ok)
  /\ gstate' = AfterRelease(Faulted(gstate), ok)
  /\ epochMoved' = (epochMoved \/ gstate \notin Stopped \/ (~ok /\ gstate # CLOSED))
  /\ queue' = <<>>

Published(failure, ok) == IF ok THEN failure ELSE "FAILED"

-----------------------------------------------------------------------------
(* The gates.                                                              *)

\* _session_gate at time t: the failure status, or "OK".
SessionGate(t) ==
  CASE gstate \in Stopped -> "CANCELLED"
    [] gstate \notin Stopped /\ (armRevoked \/ gstate = FAULTED) -> "REJECTED"
    [] gstate = READY /\ ~armRevoked /\ ~subscribed -> "FAILED"
    [] OTHER -> IF t >= Horizon \/ ~armActive THEN "REJECTED" ELSE "OK"

\* Fault: a queue that accepts gaps.
EnqueueGateGaps(p, t) ==
  IF t = BadClock THEN "REJECTED"
  ELSE IF SessionGate(t) # "OK" THEN SessionGate(t)
  ELSE IF p \in Honoured \ seen /\ SequenceOf[p] >= nextSequence
       THEN "OK" ELSE "REJECTED"

\* What enqueue checks, in its order.
EnqueueGate(p, t) ==
  IF t = BadClock THEN "REJECTED"
  ELSE IF SessionGate(t) # "OK" THEN SessionGate(t)
  ELSE IF /\ p \in Honoured \ seen
          /\ SequenceOf[p] = nextSequence
          /\ Cardinality(seen) < MaxPrimitives
          /\ Len(queue) < MaxQueueDepth
       THEN "OK" ELSE "REJECTED"

\* What _run_next checks of the head before it registers the invocation.
\* poseOk stands for the static pose checks and the sink's declared contract.
RunGate(p, t, poseOk) ==
  IF t = BadClock THEN "REJECTED"
  ELSE IF SessionGate(t) # "OK" THEN SessionGate(t)
  ELSE IF p \notin Honoured \/ ~poseOk \/ t + Envelope > Horizon THEN "REJECTED"
  ELSE IF active # NoOne THEN "FAILED" ELSE "OK"

\* _cancellation_failure_locked
CancellationStatus ==
  CASE gstate \in Stopped -> "CANCELLED"
    [] gstate \notin Stopped /\ armRevoked -> "REJECTED"
    [] OTHER -> "CANCELLED"

\* _sink_start_gate_locked: the last check, in the worker, before apply.
StartGate(p, t) ==
  IF active # p THEN "FAILED"
  ELSE IF finalRelease[p] \/ cancelled \/ epochMoved \/ gstate # READY
       THEN IF cancelled \/ gstate \in Stopped \/ armRevoked
            THEN CancellationStatus ELSE "REJECTED"
  ELSE IF t = BadClock THEN "FAILED"
  ELSE IF SessionGate(t) # "OK" THEN SessionGate(t)
  ELSE IF \/ p \notin Honoured
          \/ deadline[p] - t < Hold + Slack
          \/ deadline[p] > Horizon
       THEN "REJECTED" ELSE "OK"

-----------------------------------------------------------------------------
(* enqueue, run_next, execute.                                             *)

Accept(p) ==
  /\ queue' = Append(queue, p)
  /\ seen' = seen \cup {p}
  /\ nextSequence' = nextSequence + 1

Enqueue(p) ==
  /\ \E t \in Readings :
       \/ /\ EnqueueGate(p, t) = "OK"
          /\ Accept(p)
          /\ UNCHANGED <<gstate, epochMoved, sink, releaseFaulted>>
       \/ /\ EnqueueGate(p, t) # "OK"
          /\ \E ok \in ReleaseOutcomes : FailClosed(ok)
          /\ UNCHANGED ledger
  /\ UNCHANGED <<cancelled, armRevoked, active, subscribed, caller, worker,
                 stopPc, armActive, now, history>>

Finish(c) ==
  /\ execLock' = NoOne
  /\ cpc' = [cpc EXCEPT ![c] = "idle"]
  /\ cprim' = [cprim EXCEPT ![c] = NoOne]
  /\ cfailure' = [cfailure EXCEPT ![c] = Unset]
  /\ released' = [released EXCEPT ![c] = FALSE]
  /\ completedAt' = [completedAt EXCEPT ![c] = 0]

\* Fault: a refusal that drops the head and goes on serving.
RefuseAndGoOn(c, p, failure) ==
  /\ queue' = Tail(queue)
  /\ verdict' = [verdict EXCEPT ![p] = failure]
  /\ Finish(c)
  /\ UNCHANGED <<gstate, epochMoved, sink, releaseFaulted, active, worker, applied>>

\* The locked part of _run_next on head p: refuse it, or register the
\* invocation and take p off the queue.
Refuse(c, p, failure) ==
  /\ \E ok \in ReleaseOutcomes :
       /\ FailClosed(ok)
       /\ verdict' = [verdict EXCEPT ![p] = Published(failure, ok)]
  /\ Finish(c)
  /\ UNCHANGED <<active, worker, applied>>

Register(c, p, t) ==
  /\ active' = p
  /\ queue' = Tail(queue)
  /\ epochMoved' = FALSE
  /\ execLock' = c
  /\ cpc' = [cpc EXCEPT ![c] = "starting"]
  /\ cprim' = [cprim EXCEPT ![c] = p]
  /\ deadline' = [deadline EXCEPT ![p] = t + Envelope]
  /\ finalRelease' = [finalRelease EXCEPT ![p] = FALSE]
  /\ UNCHANGED <<gstate, cfailure, released, completedAt, wpc, outcome,
                 startFailure, sink, releaseFaulted, history>>

RunHead(c, p) ==
  /\ \E t \in Readings, poseOk \in BOOLEAN :
       \/ RunGate(p, t, poseOk) = "OK" /\ Register(c, p, t)
       \/ RunGate(p, t, poseOk) # "OK" /\ Refuse(c, p, RunGate(p, t, poseOk))
  /\ UNCHANGED <<ledger, cancelled, armRevoked, subscribed, stopPc, armActive, now>>

RunNext(c) ==
  /\ execLock = NoOne /\ cpc[c] = "idle"
  /\ queue # <<>>
  /\ RunHead(c, Head(queue))

\* Fault: execute appends to whatever is queued.
ExecutableAlways == TRUE

\* execute wants the queue to itself.
Executable == queue = <<>>

Execute(c, p) ==
  /\ execLock = NoOne /\ cpc[c] = "idle"
  /\ \/ /\ ~Executable
        /\ \E ok \in ReleaseOutcomes : FailClosed(ok)
        /\ UNCHANGED <<ledger, caller>>
     \/ /\ Executable
        /\ \E t \in Readings :
             \/ /\ EnqueueGate(p, t) # "OK"
                /\ \E ok \in ReleaseOutcomes : FailClosed(ok)
                /\ UNCHANGED <<ledger, caller>>
             \/ /\ EnqueueGate(p, t) = "OK"
                /\ Accept(p)
                /\ execLock' = c
                /\ cpc' = [cpc EXCEPT ![c] = "expected"]
                /\ cprim' = [cprim EXCEPT ![c] = p]
                /\ UNCHANGED <<gstate, epochMoved, sink, releaseFaulted,
                               cfailure, released, completedAt>>
  /\ UNCHANGED <<cancelled, armRevoked, active, subscribed, worker, stopPc,
                 armActive, now, history>>

\* execute's second half: the lock was let go between enqueue and _run_next,
\* so the primitive may find its queue cleared. It never finds another one at
\* its head (ExecuteRunsItsOwn): the code's SEQUENCE_GAP there is defensive.
QueueCleared(c) ==
  /\ cpc[c] = "expected" /\ queue = <<>>
  /\ cpc' = [cpc EXCEPT ![c] = "cleared"]
  /\ cfailure' = cfailure
  /\ UNCHANGED <<gate, ledger, cancelled, armRevoked, active, releaseFaulted,
                 subscribed, execLock, cprim, released, completedAt, worker,
                 stopPc, armActive, now, sink, history>>

ClearedStatus(c) ==
  /\ cpc[c] = "cleared"
  /\ cfailure' = [cfailure EXCEPT ![c] =
                    IF gstate \in Stopped THEN "CANCELLED" ELSE "FAILED"]
  /\ cpc' = [cpc EXCEPT ![c] = "failing"]
  /\ UNCHANGED <<gate, ledger, cancelled, armRevoked, active, releaseFaulted,
                 subscribed, execLock, cprim, released, completedAt, worker,
                 stopPc, armActive, now, sink, history>>

RunExpected(c) ==
  /\ cpc[c] = "expected" /\ queue # <<>> /\ Head(queue) = cprim[c]
  /\ RunHead(c, cprim[c])

-----------------------------------------------------------------------------
(* _apply_with_watchdog, the caller's side.                                *)

OnlyCaller == UNCHANGED <<gate, ledger, armRevoked, releaseFaulted, subscribed,
                          execLock, cprim, released, completedAt, stopPc,
                          armActive, now, sink, history>>

\* Fault: giving up without asking the late worker for a final release.
AbandonQuietly(c, failure) ==
  /\ cancelled' = TRUE
  /\ cfailure' = [cfailure EXCEPT ![c] = failure]
  /\ cpc' = [cpc EXCEPT ![c] = "failing"]
  /\ UNCHANGED finalRelease

\* The caller gives up on the worker: final release asked for, cancellation set.
Abandon(c, failure) ==
  /\ finalRelease' = [finalRelease EXCEPT ![cprim[c]] = TRUE]
  /\ cancelled' = TRUE
  /\ cfailure' = [cfailure EXCEPT ![c] = failure]
  /\ cpc' = [cpc EXCEPT ![c] = "failing"]

StartWorker(c) ==
  /\ cpc[c] = "starting"
  /\ cpc' = [cpc EXCEPT ![c] = "waitStart"]
  /\ wpc' = [wpc EXCEPT ![cprim[c]] = "gate"]
  /\ UNCHANGED <<cancelled, active, cfailure, deadline, finalRelease, outcome, startFailure>>
  /\ OnlyCaller

\* before_sink_start or Thread.start raises.
StartRaises(c) ==
  /\ cpc[c] = "starting"
  /\ Abandon(c, "FAILED")
  /\ active' = IF active = cprim[c] THEN NoOne ELSE active
  /\ UNCHANGED <<wpc, deadline, outcome, startFailure>>
  /\ OnlyCaller

\* start_resolved was set by the worker's gate.
StartResolved(c) ==
  /\ cpc[c] = "waitStart"
  /\ startFailure[cprim[c]] # Unset
  /\ cpc' = [cpc EXCEPT ![c] = IF startFailure[cprim[c]] = "OK"
                               THEN "waitApply" ELSE "waitRejected"]
  /\ UNCHANGED <<cancelled, active, cfailure, worker>>
  /\ OnlyCaller

\* Faults: a timeout that forgets the worker; a watchdog that guards the start
\* only; one that trusts a rejected worker to end.
WatchdogForgets(c) ==
  /\ cpc[c] \in {"waitRejected", "waitApply"}
  /\ Abandon(c, "FAILED")
  /\ active' = NoOne
  /\ UNCHANGED <<wpc, deadline, outcome, startFailure>>
  /\ OnlyCaller

WatchdogAtStartOnly(c) ==
  /\ cpc[c] = "waitStart" /\ startFailure[cprim[c]] = Unset
  /\ Abandon(c, "FAILED")
  /\ UNCHANGED <<active, wpc, deadline, outcome, startFailure>>
  /\ OnlyCaller

WatchdogTrustsRejected(c) ==
  /\ cpc[c] # "waitRejected"
  /\ cpc[c] = "waitApply" \/ (cpc[c] = "waitStart" /\ startFailure[cprim[c]] = Unset)
  /\ Abandon(c, "FAILED")
  /\ UNCHANGED <<active, wpc, deadline, outcome, startFailure>>
  /\ OnlyCaller

\* Any of the three timed waits runs out, or the watchdog waiter raises.
WatchdogFires(c) ==
  /\ \/ cpc[c] = "waitStart" /\ startFailure[cprim[c]] = Unset
     \/ cpc[c] \in {"waitRejected", "waitApply"}
  /\ Abandon(c, "FAILED")
  /\ UNCHANGED <<active, wpc, deadline, outcome, startFailure>>
  /\ OnlyCaller

\* invocation.completion: what the caller does with the outcome.
Completion(c) ==
  LET p == cprim[c]
      failure == CASE outcome[p] = "START_REJECTED" -> startFailure[p]
                   [] outcome[p] = "CANCELLED" ->
                        IF cancelled THEN CancellationStatus ELSE "FAILED"
                   [] OTHER -> "FAILED"
  IN  /\ cpc[c] \in {"waitRejected", "waitApply"}
      /\ wpc[p] = "done"
      /\ IF outcome[p] = "COMPLETED"
         THEN /\ cpc' = [cpc EXCEPT ![c] = "release"]
              /\ UNCHANGED cfailure
         ELSE /\ cpc' = [cpc EXCEPT ![c] = "failing"]
              /\ cfailure' = [cfailure EXCEPT ![c] = failure]
      /\ UNCHANGED <<cancelled, active, worker>>
      /\ OnlyCaller

\* _fail_closed after an apply: the lock, then the sink without it.
Fail(c) ==
  /\ cpc[c] = "failing"
  /\ FailLocked
  /\ cpc' = [cpc EXCEPT ![c] = "failRelease"]
  /\ UNCHANGED <<ledger, cancelled, armRevoked, active, releaseFaulted, subscribed,
                 execLock, cprim, cfailure, released, completedAt, worker, stopPc,
                 armActive, now, sink, history>>

FailRelease(c) ==
  /\ cpc[c] = "failRelease"
  /\ \E ok \in ReleaseOutcomes :
       /\ ReleaseAll(ok)
       /\ verdict' = [verdict EXCEPT ![cprim[c]] = Published(cfailure[c], ok)]
  /\ Finish(c)
  /\ UNCHANGED <<ledger, cancelled, armRevoked, active, subscribed, worker, stopPc,
                 armActive, now, applied>>

\* The release that belongs to the execution envelope, then the clock.
ReleaseAfterApply(c) ==
  /\ cpc[c] = "release"
  /\ \E ok \in ReleaseOutcomes, t \in Readings :
       /\ ReleaseAll(ok)
       /\ released' = [released EXCEPT ![c] = ok]
       /\ completedAt' = [completedAt EXCEPT ![c] = t]
  /\ cpc' = [cpc EXCEPT ![c] = "commit"]
  /\ UNCHANGED <<ledger, cancelled, armRevoked, active, subscribed, execLock, cprim,
                 cfailure, worker, stopPc, armActive, now, history>>

\* Fault: a commit that looks at the clock and the gate but not at the stops.
CommitStatusLate(c) ==
  IF ~released[c] \/ completedAt[c] > deadline[cprim[c]] THEN "FAILED" ELSE "EXECUTED"

\* _commit_after_apply: the status it publishes.
CommitStatus(c) ==
  LET t == completedAt[c]
  IN  IF ~released[c] THEN "FAILED"
      ELSE IF cancelled \/ epochMoved \/ gstate # READY THEN CancellationStatus
      ELSE IF t = BadClock \/ t > deadline[cprim[c]] THEN "FAILED"
      ELSE IF SessionGate(t) # "OK" THEN SessionGate(t)
      ELSE "EXECUTED"

Commit(c) ==
  /\ cpc[c] = "commit"
  /\ verdict' = [verdict EXCEPT ![cprim[c]] = CommitStatus(c)]
  /\ \/ /\ \/ ~released[c]        \* a failed release faults even a stopped gateway
           \/ /\ ~(cancelled \/ epochMoved \/ gstate # READY)
              /\ CommitStatus(c) # "EXECUTED"
        /\ gstate' = FAULTED /\ epochMoved' = TRUE /\ queue' = <<>>
     \/ /\ released[c]
        /\ cancelled \/ epochMoved \/ gstate # READY \/ CommitStatus(c) = "EXECUTED"
        /\ UNCHANGED gate
  /\ Finish(c)
  /\ UNCHANGED <<ledger, cancelled, armRevoked, active, releaseFaulted, subscribed,
                 worker, stopPc, armActive, now, sink, applied>>

-----------------------------------------------------------------------------
(* The worker, and the sink's apply_bounded inside it.                     *)

OnlyWorker == UNCHANGED <<ledger, cancelled, armRevoked, subscribed, caller,
                          deadline, finalRelease, stopPc, armActive, now, verdict>>

WorkerGate(p) ==
  /\ wpc[p] = "gate"
  /\ \E t \in Readings :
       /\ startFailure' = [startFailure EXCEPT ![p] = StartGate(p, t)]
       /\ IF StartGate(p, t) = "OK"
          THEN wpc' = [wpc EXCEPT ![p] = "enter"] /\ UNCHANGED outcome
          ELSE /\ wpc' = [wpc EXCEPT ![p] = "leaving"]
               /\ outcome' = [outcome EXCEPT ![p] = "START_REJECTED"]
  /\ UNCHANGED <<gate, active, releaseFaulted, sink, applied>>
  /\ OnlyWorker

\* apply_bounded begins: it belongs to the sink's current release generation.
SinkEnter(p) ==
  /\ wpc[p] = "enter"
  /\ wpc' = [wpc EXCEPT ![p] = "apply"]
  /\ sinkCurrent' = TRUE
  /\ applied' = Append(applied, p)
  /\ UNCHANGED <<gate, active, releaseFaulted, keyDown, outcome, startFailure>>
  /\ OnlyWorker

SinkPress(p) ==
  /\ wpc[p] = "apply"
  /\ CooperativeSink => ~cancelled /\ sinkCurrent
  /\ keyDown' = TRUE
  /\ wpc' = [wpc EXCEPT ![p] = "held"]
  /\ UNCHANGED <<gate, active, releaseFaulted, sinkCurrent, outcome, startFailure, applied>>
  /\ OnlyWorker

\* apply_bounded ends. The sink is not trusted to have released its controls.
SinkExit(p) ==
  /\ wpc[p] \in {"apply", "held"}
  /\ \E o \in {"COMPLETED", "CANCELLED", "EXCEPTION"} :
       /\ o = "COMPLETED" => wpc[p] = "held"
       /\ outcome' = [outcome EXCEPT ![p] = o]
  /\ keyDown' \in {FALSE, keyDown}
  /\ wpc' = [wpc EXCEPT ![p] = "leaving"]
  /\ UNCHANGED <<gate, active, releaseFaulted, sinkCurrent, startFailure, applied>>
  /\ OnlyWorker

\* The worker's finally: the final release a stop or the watchdog asked for.
FinalRelease(p) ==
  /\ wpc[p] = "leaving"
  /\ wpc' = [wpc EXCEPT ![p] = "dereg"]
  /\ IF finalRelease[p]
     THEN \E ok \in ReleaseOutcomes : ReleaseAll(ok)
     ELSE UNCHANGED <<gate, sink, releaseFaulted>>
  /\ UNCHANGED <<active, outcome, startFailure, applied>>
  /\ OnlyWorker

Deregister(p) ==
  /\ wpc[p] = "dereg"
  /\ active' = IF active = p THEN NoOne ELSE active
  /\ wpc' = [wpc EXCEPT ![p] = "done"]
  /\ UNCHANGED <<gate, sink, releaseFaulted, outcome, startFailure, applied>>
  /\ OnlyWorker

-----------------------------------------------------------------------------
(* The stops, the arm and the clock.                                       *)

OnlyStop == UNCHANGED <<ledger, active, caller, wpc, deadline, outcome,
                        startFailure, now, history>>

\* Fault: a stop that asks for the final release but does not cancel.
CancelActiveLater ==
  /\ finalRelease' = [p \in Primitives |-> finalRelease[p] \/ p = active]
  /\ cancelled' = cancelled

\* What takeover, close and revocation share, under the lock.
CancelActive ==
  /\ finalRelease' = [p \in Primitives |-> finalRelease[p] \/ p = active]
  /\ cancelled' = TRUE

\* cancel_for_manual_takeover; close differs in winning over every state.
Takeover ==
  /\ stopPc["takeover"] \in {"idle", "returned", "failed"}
  /\ CancelActive
  /\ IF gstate # CLOSED
     THEN gstate' = MANUAL_TAKEOVER /\ epochMoved' = TRUE /\ queue' = <<>>
     ELSE UNCHANGED gate
  /\ subscribed' = FALSE
  /\ stopPc' = [stopPc EXCEPT !["takeover"] = "releasing"]
  /\ UNCHANGED <<armRevoked, releaseFaulted, armActive, sink>>
  /\ OnlyStop

Close ==
  /\ stopPc["close"] \in {"idle", "returned", "failed"}
  /\ CancelActive
  /\ gstate' = CLOSED /\ epochMoved' = TRUE /\ queue' = <<>>
  /\ subscribed' = FALSE
  /\ stopPc' = [stopPc EXCEPT !["close"] = "releasing"]
  /\ UNCHANGED <<armRevoked, releaseFaulted, armActive, sink>>
  /\ OnlyStop

\* InMemoryRuntimeArm.disarm: inactive first, then the subscribed callbacks.
Disarm ==
  /\ armActive
  /\ armActive' = FALSE
  /\ stopPc' = [stopPc EXCEPT !["disarm"] = IF subscribed THEN "notify" ELSE "unheard"]
  /\ UNCHANGED <<gate, cancelled, armRevoked, releaseFaulted, subscribed, finalRelease, sink>>
  /\ OnlyStop

\* _on_runtime_arm_revoked
Revoked ==
  /\ stopPc["disarm"] = "notify"
  /\ CancelActive
  /\ armRevoked' = TRUE
  /\ gstate' = Faulted(gstate) /\ epochMoved' = TRUE /\ queue' = <<>>
  /\ stopPc' = [stopPc EXCEPT !["disarm"] = "releasing"]
  /\ UNCHANGED <<releaseFaulted, subscribed, armActive, sink>>
  /\ OnlyStop

\* The immediate release of a stop, outside the lock.
StopRelease(s) ==
  /\ stopPc[s] = "releasing"
  /\ \E ok \in ReleaseOutcomes :
       /\ ReleaseAll(ok)
       /\ stopPc' = [stopPc EXCEPT ![s] = IF ok THEN "returned" ELSE "failed"]
  /\ UNCHANGED <<cancelled, armRevoked, subscribed, armActive, finalRelease>>
  /\ OnlyStop

Tick ==
  /\ now < MaxTime
  /\ now' = now + 1
  /\ UNCHANGED <<gate, ledger, cancelled, armRevoked, active, releaseFaulted,
                 subscribed, caller, worker, stopPc, armActive, sink, history>>

-----------------------------------------------------------------------------
CallerStep(c) ==
  \/ QueueCleared(c) \/ ClearedStatus(c) \/ RunExpected(c)
  \/ StartWorker(c) \/ StartRaises(c) \/ StartResolved(c)
  \/ WatchdogFires(c) \/ Completion(c) \/ Fail(c) \/ FailRelease(c)
  \/ ReleaseAfterApply(c) \/ Commit(c)

WorkerStep(p) ==
  \/ WorkerGate(p) \/ SinkEnter(p) \/ SinkPress(p) \/ SinkExit(p)
  \/ FinalRelease(p) \/ Deregister(p)

Next ==
  \/ \E p \in Primitives : Enqueue(p) \/ WorkerStep(p)
  \/ \E c \in Callers : RunNext(c) \/ CallerStep(c)
  \/ \E c \in Callers, p \in Primitives : Execute(c, p)
  \/ Takeover \/ Close \/ Disarm \/ Revoked \/ Tick
  \/ \E s \in Stops : StopRelease(s)

Spec == Init /\ [][Next]_vars

\* A caller inside the gateway keeps running and its timed waits end; a stop
\* that has begun ends. Nothing is assumed of the worker: the sink may hang.
Fairness ==
  /\ \A c \in Callers : WF_vars(CallerStep(c))
  /\ \A s \in Stops : WF_vars(StopRelease(s))

FairSpec == Spec /\ Fairness

-----------------------------------------------------------------------------
(* Properties.                                                             *)

\* Every variable has the values the code can give it; in particular no reason
\* code or state name is ever published where a status belongs.
GateTypes ==
  /\ gstate \in States
  /\ queue \in Seq(Primitives)
  /\ nextSequence \in Nat /\ seen \subseteq Primitives
  /\ active \in Primitives \cup {NoOne}

FlagTypes ==
  /\ epochMoved \in BOOLEAN /\ cancelled \in BOOLEAN /\ armRevoked \in BOOLEAN
  /\ releaseFaulted \in BOOLEAN /\ subscribed \in BOOLEAN /\ armActive \in BOOLEAN
  /\ keyDown \in BOOLEAN /\ sinkCurrent \in BOOLEAN

CallTypes ==
  /\ execLock \in Callers \cup {NoOne}
  /\ cpc \in [Callers -> CallerPcs]
  /\ cprim \in [Callers -> Primitives \cup {NoOne}]
  /\ cfailure \in [Callers -> Failures \cup {"OK", Unset}]
  /\ released \in [Callers -> BOOLEAN]
  /\ completedAt \in [Callers -> Nat]
  /\ verdict \in [Primitives -> Failures \cup {"EXECUTED", "OK", Unset}]
  /\ \A c \in Callers : cpc[c] # "idle" => cprim[c] \in Primitives

WorkerTypes ==
  /\ wpc \in [Primitives -> WorkerLive \cup {"none", "done"}]
  /\ deadline \in [Primitives -> Nat]
  /\ finalRelease \in [Primitives -> BOOLEAN]
  /\ outcome \in [Primitives -> Outcomes \cup {Unset}]
  /\ startFailure \in [Primitives -> Failures \cup {"OK", Unset}]
  /\ applied \in Seq(Primitives)

StopTypes ==
  /\ stopPc \in [Stops -> {"idle", "notify", "releasing", "returned", "failed", "unheard"}]
  /\ now \in Nat

TypeOK == GateTypes /\ FlagTypes /\ CallTypes /\ WorkerTypes /\ StopTypes

\* The gateway is strictly single-flight: at most one worker is between its
\* start and its end, whichever callers run, and the registered invocation is
\* that worker's; a second apply can never overlap the first, not even the
\* apply of a worker its caller abandoned.
SingleFlight ==
  \A p \in Primitives :
    wpc[p] \in WorkerLive =>
      active = p /\ \A q \in Primitives \ {p} : wpc[q] \notin WorkerLive

\* The sink is handed the primitives of the lease at most once each, without a
\* gap and in sequence order, never more than the lease's budget and never one
\* that does not fit the lease: replay, reordering and skipping are impossible
\* whoever enqueues and whoever runs.
InOrderOnce ==
  /\ Len(applied) <= MaxPrimitives
  /\ \A i \in 1..Len(applied) :
       applied[i] \in Honoured /\ SequenceOf[applied[i]] = FirstSequence + i - 1

\* execute answers for its own primitive: between its enqueue and its run,
\* with the lock let go, the head of the queue is cleared or stays its own,
\* whoever enqueues, fails or stops the gateway meanwhile.
ExecuteRunsItsOwn ==
  \A c \in Callers : cpc[c] = "expected" /\ queue # <<>> => Head(queue) = cprim[c]

Quiet ==
  /\ \A c \in Callers : cpc[c] \in {"idle", "expected"}
  /\ \A p \in Primitives : wpc[p] \notin WorkerLive
  /\ \A s \in Stops : stopPc[s] # "releasing"

\* Once every call, worker and stop is over, no control is left held unless a
\* failed release was latched: whatever the order of watchdog, takeover, close,
\* revocation and the worker's end, somebody's release_all came after the sink
\* had finished, though the sink itself is not trusted to release.
QuietMeansReleased == Quiet => ~keyDown \/ releaseFaulted

\* When a takeover, a close or a revocation has reported a successful release,
\* no control is held and none is pressed again.
StoppedMeansReleased ==
  \A s \in Stops : stopPc[s] = "returned" => ~keyDown

WithAuthority ==
  \A p \in Primitives :
    (verdict'[p] = "EXECUTED" /\ verdict[p] # "EXECUTED") =>
      /\ gstate = READY /\ ~cancelled /\ armActive
      /\ ~keyDown /\ ~releaseFaulted
      /\ wpc[p] = "done" /\ outcome[p] = "COMPLETED"
      /\ \E c \in Callers : /\ cprim[c] = p
                             /\ completedAt[c] <= deadline[p]
                             /\ deadline[p] <= Horizon

\* EXECUTED is published only by a gateway that is still the authority it was
\* when the execution was registered: still READY, not cancelled, armed, with
\* every control released and the whole envelope inside deadline and expiry.
ExecutedOnlyWithAuthority == [][WithAuthority]_vars

\* An execution is answered once: a published status never changes, so the
\* worker a caller abandoned cannot turn its failure into a success later.
AnsweredOnce ==
  [][\A p \in Primitives : verdict[p] # Unset => verdict'[p] = verdict[p]]_vars

\* Out of READY nothing is accepted or taken (a failed release may leave some
\* primitives in the queue) and no worker waiting at its gate gets into the sink.
StaysOut ==
  gstate # READY =>
    /\ gstate' # READY
    /\ queue' \in {queue, <<>>}
    /\ \A p \in Primitives : wpc[p] = "gate" => wpc'[p] # "enter"

\* A failed release is never hidden: it is latched and the gateway refuses work.
ReleaseFaultVisible ==
  releaseFaulted => gstate # READY

\* The gateway never recovers by itself: once it has left READY, for whatever
\* reason and on whatever thread, it stays out, and a step that meets a failed
\* release takes it out.
FaultsAreFinal == [][StaysOut /\ ReleaseFaultVisible']_vars

\* close is permanent: no other thread's failure path reopens the state.
ClosedIsTerminal == [][gstate = CLOSED => gstate' = CLOSED]_vars

\* A control the sink holds is let go (or its failed release is latched) even
\* when the sink hangs inside apply: the watchdog alone is enough.
KeyNeverStuck == keyDown ~> (~keyDown \/ releaseFaulted)

\* Every execute and run_next returns although the sink may hang for ever.
CallsReturn == \A c \in Callers : cpc[c] # "idle" ~> cpc[c] = "idle"

-----------------------------------------------------------------------------
(* The lease this gateway serves.                                          *)

Cleared == \E p \in Primitives : wpc[p] = "enter"

Lease == INSTANCE ExecutionLease WITH
  open <- gstate = READY, flight <- active, cleared <- Cleared,
  handed <- applied, answer <- verdict,
  Refusals <- Failures, Pending <- Unset

\* gateway.py serves its lease as ExecutionLease says, whoever calls, feeds,
\* stops or abandons it: in order, one primitive at a time, one result each, and
\* nothing more is taken once a primitive was not EXECUTED.
ImplementsLease == Lease!LeaseSpec
=============================================================================
