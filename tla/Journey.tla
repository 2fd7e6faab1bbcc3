------------------------------ MODULE Journey ------------------------------
(***************************************************************************)
(* A journey: the Control Center's side of it                              *)
(* (run_movement_engine_client.py: the window, the thread that prepares    *)
(* and launches, the thread that renews the motion arm), the supervisor it *)
(* launches (run_journey_combat_supervisor.py), and the navigation and     *)
(* combat children the supervisor runs one after the other, which obey the *)
(* control file (operator_control.py) and need a valid motion arm.         *)
(*                                                                         *)
(* A supervisor waits for its child, so one program counter stands for     *)
(* both.  A step ends where another process or thread can act before what  *)
(* was read is used.  What a child holds is what its session holds         *)
(* (ContinuousMotion, CombatEncounter): here only whose it is.             *)
(***************************************************************************)
EXTENDS Integers

CONSTANTS
  Legs,              \* destinations of the sequence
  MaximumCycles,     \* --maximum-navigation-cycles
  MaximumHandoffs,   \* --maximum-combat-handoffs
  MaxStarts          \* bound: clicks on start

ASSUME JourneyAssumption ==
  /\ Legs \in Nat \ {0} /\ MaximumCycles \in Nat \ {0}
  /\ MaximumHandoffs \in Nat /\ MaxStarts \in Nat

\* Each click on start is a journey: an event, two threads and a supervisor.
Journeys == 1..MaxStarts

VARIABLES
  state,     \* the window's state, or "closed"
  ack,       \* the permission checkbox
  starts,    \* the current journey: clicks on start
  process,   \* the journey whose supervisor the window knows, or 0
  permitted, \* the permission as each start read it
  stopEvent, \* each journey's motion_arm_renew_stop is set
  prep,      \* where each preparing thread is
  callback,  \* what it left for the window to run
  renewer,   \* where each renewing thread is
  control,   \* the command in the control file
  arm,       \* the motion arm file is valid
  at,        \* where each supervisor, or its child, is
  cycle, handoffs, leg,  \* its counters
  resume,    \* the cycle whose checkpoint the next child gets, or 0
  result,    \* the status its child reported
  held       \* what its living child holds: "no", "nav" or "combat"

window == <<state, ack, starts, process>>
threads == <<permitted, stopEvent, prep, callback, renewer>>
files == <<control, arm>>
counters == <<cycle, handoffs, leg, resume>>
supervisor == <<at, counters, result, held>>
vars == <<window, threads, files, supervisor>>

Navigating == {"preflight", "loop", "frame", "paused"}
Fighting == {"fight", "blow", "halted", "retreat"}
Alive(j) == at[j] # "off"
Moving(j) == held[j] \in {"nav", "combat"}
Running == process # 0 /\ Alive(process)

Init ==
  /\ state = "STOPPED" /\ ack = FALSE /\ starts = 0 /\ process = 0
  /\ permitted = [j \in Journeys |-> FALSE] /\ stopEvent = [j \in Journeys |-> FALSE]
  /\ prep = [j \in Journeys |-> "none"] /\ callback = [j \in Journeys |-> "none"]
  /\ renewer = [j \in Journeys |-> "none"]
  /\ control = "STOP" /\ arm = FALSE
  /\ at = [j \in Journeys |-> "off"]
  /\ cycle = [j \in Journeys |-> 1] /\ handoffs = [j \in Journeys |-> 0]
  /\ leg = [j \in Journeys |-> 1] /\ resume = [j \in Journeys |-> 0]
  /\ result = [j \in Journeys |-> "none"] /\ held = [j \in Journeys |-> "no"]

-----------------------------------------------------------------------------
(* The window.  The toolkit runs clicks, its timer and queued callbacks in   *)
(* any order.                                                              *)

Click == state # "closed"

\* The event of the current journey is set.
StopCurrent == stopEvent' = [j \in Journeys |-> stopEvent[j] \/ j = starts]

\* start: the event of the journey before is set, a thread prepares this one.
StartFrom(S) ==
  /\ Click /\ state \in S /\ ~Running /\ starts < MaxStarts
  /\ starts' = starts + 1 /\ state' = "STARTING" /\ control' = "RUN" /\ StopCurrent
  /\ permitted' = [permitted EXCEPT ![starts + 1] = ack]
  /\ prep' = [prep EXCEPT ![starts + 1] = "check"]
  /\ UNCHANGED <<ack, process, callback, renewer, arm, supervisor>>

\* Fault: a second click during the preparation starts another journey.
StartTwice == StartFrom({"STOPPED", "STARTING"})

Start == StartFrom({"STOPPED"})

PauseResume ==
  /\ Click
  /\ \/ state = "RUNNING" /\ control' = "PAUSE" /\ state' = "PAUSED"
     \/ state = "PAUSED" /\ control' = "RUN" /\ state' = "RUNNING"
  /\ UNCHANGED <<ack, starts, process, threads, arm, supervisor>>

Stop ==
  /\ Click /\ state \in {"RUNNING", "PAUSED"}
  /\ StopCurrent /\ control' = "STOP" /\ state' = "STOPPING"
  /\ UNCHANGED <<ack, starts, process, permitted, prep, callback, renewer, arm, supervisor>>

\* _continuous_motion_permission_changed, both ways.
Untick ==
  /\ Click /\ ack /\ ack' = FALSE /\ StopCurrent
  /\ control' = IF Running THEN "STOP" ELSE control
  /\ state' = IF Running THEN "STOPPING" ELSE state
  /\ UNCHANGED <<starts, process, permitted, prep, callback, renewer, arm, supervisor>>

Tick ==
  /\ Click /\ ~ack /\ ack' = TRUE
  /\ UNCHANGED <<state, starts, process, threads, files, supervisor>>

\* What a preparing thread queued: _set_running or _set_error.
Callback(j) ==
  /\ callback[j] # "none" /\ callback' = [callback EXCEPT ![j] = "none"]
  /\ \/ callback[j] = "running" /\ state' = "RUNNING" /\ UNCHANGED stopEvent
     \/ callback[j] = "error" /\ state' = "STOPPED" /\ StopCurrent
  /\ UNCHANGED <<ack, starts, process, permitted, prep, renewer, files, supervisor>>

\* The window's timer compares its state with the process.
Refresh ==
  /\ state # "closed"
  /\ \/ state = "STARTING" /\ Running /\ state' = "RUNNING" /\ UNCHANGED <<process, stopEvent>>
     \/ process # 0 /\ ~Running /\ state' = "STOPPED" /\ process' = 0 /\ StopCurrent
  /\ UNCHANGED <<ack, starts, permitted, prep, callback, renewer, files, supervisor>>

NoCallback == callback' = [j \in Journeys |-> "none"]

Close ==
  /\ state # "closed" /\ state' = "closed" /\ StopCurrent /\ NoCallback
  /\ control' = IF Running THEN "STOP" ELSE control
  /\ UNCHANGED <<ack, starts, process, permitted, prep, renewer, arm, supervisor>>

\* The process of the window ends, after it was closed or on its own, and its
\* threads with it, wherever they are.
Vanish ==
  /\ state' = "closed" /\ NoCallback
  /\ prep' = [j \in Journeys |-> "none"] /\ renewer' = [j \in Journeys |-> "none"]
  /\ UNCHANGED <<ack, starts, process, permitted, stopEvent, files, supervisor>>

Window ==
  \/ Start \/ PauseResume \/ Stop \/ Untick \/ Tick
  \/ (\E j \in Journeys : Callback(j)) \/ Refresh \/ Close \/ Vanish

-----------------------------------------------------------------------------
(* The threads of the Control Center.                                      *)

PrepGoto(j, l) == prep' = [prep EXCEPT ![j] = l]

\* What a thread leaves for the window, if there is one; it may be lost.
Leave(j, c) ==
  \E left \in {"none"} \cup (IF state = "closed" THEN {} ELSE {c}) :
    callback' = [callback EXCEPT ![j] = left]

GiveUp(j) == PrepGoto(j, "none") /\ Leave(j, "error") /\ UNCHANGED <<arm, process, renewer, at>>

Proceed(j, l) == PrepGoto(j, l) /\ UNCHANGED <<arm, process, renewer, at, callback>>

Wanted(j) == state = "STARTING" /\ j = starts /\ ~stopEvent[j]

\* _prepare_and_launch: nothing at all for a journey that is no longer wanted.
Check(j) ==
  /\ prep[j] = "check"
  /\ \/ ~Wanted(j) /\ Proceed(j, "none")
     \/ Wanted(j) /\ permitted[j] /\ Proceed(j, "prepare")
     \/ Wanted(j) /\ ~permitted[j] /\ GiveUp(j)

\* The window and the threads have caught up with the journeys before.
Settled(j) ==
  /\ process # 0 => Running
  /\ \A i \in Journeys : callback[i] = "none" /\ (i = j \/ prep[i] = "none")

\* The session is renewed, which may fail and takes the time to settle, and the
\* journey may be stopped.
Prepare(j) ==
  /\ prep[j] = "prepare"
  /\ \/ ~stopEvent[j] /\ Settled(j) /\ Proceed(j, "arm")
     \/ GiveUp(j)

\* The first arm.
IssueArm(j) ==
  /\ prep[j] = "arm"
  /\ \/ arm' = TRUE /\ PrepGoto(j, "launch") /\ UNCHANGED <<process, renewer, at, callback>>
     \/ GiveUp(j)

\* The supervisor is there before the renewing thread and the callback are: what
\* is raised in between leaves it alive, with or without that thread.
Launch(j) ==
  /\ prep[j] = "launch"
  /\ \/ /\ process' = j /\ at' = [at EXCEPT ![j] = "boot"] /\ PrepGoto(j, "none")
        /\ UNCHANGED arm
        /\ \/ /\ renewer' = [renewer EXCEPT ![j] = "wait"]
              /\ Leave(j, "running") \/ Leave(j, "error")
           \/ UNCHANGED renewer /\ Leave(j, "error")
     \/ GiveUp(j)

PrepStep(j) ==
  /\ Check(j) \/ Prepare(j) \/ IssueArm(j) \/ Launch(j)
  /\ UNCHANGED <<state, ack, starts, permitted, stopEvent, control, counters, result, held>>

\* _maintain_continuous_motion_arm: a renewal that fails ends it.
RenewUnless(j, over) ==
  /\ \/ /\ renewer[j] = "wait" /\ (over \/ ~Alive(j))
        /\ renewer' = [renewer EXCEPT ![j] = "none"] /\ UNCHANGED <<arm, stopEvent>>
     \/ /\ renewer[j] = "wait" /\ ~over /\ Alive(j)
        /\ renewer' = [renewer EXCEPT ![j] = "renew"] /\ UNCHANGED <<arm, stopEvent>>
     \/ /\ renewer[j] = "renew" /\ arm' = TRUE
        /\ renewer' = [renewer EXCEPT ![j] = "wait"] /\ UNCHANGED stopEvent
     \/ /\ renewer[j] = "renew" /\ stopEvent' = [stopEvent EXCEPT ![j] = TRUE]
        /\ renewer' = [renewer EXCEPT ![j] = "none"] /\ UNCHANGED arm
  /\ UNCHANGED <<window, permitted, prep, callback, control, supervisor>>

\* Fault: the renewing thread only watches the process.
RenewWhileAlive(j) == RenewUnless(j, FALSE)

Renew(j) == RenewUnless(j, stopEvent[j])

\* The arm is short-lived; what was held under it is let go with it.
Expire ==
  /\ arm /\ arm' = FALSE
  /\ held' = [j \in Journeys |-> IF held[j] = "nav" THEN "no" ELSE held[j]]
  /\ UNCHANGED <<window, threads, control, at, counters, result>>

Lapse == (\A j \in Journeys : prep[j] # "arm" /\ renewer[j] = "none") /\ Expire

-----------------------------------------------------------------------------
(* The supervisor and its children.                                        *)

Goto(s, l) == at' = [at EXCEPT ![s] = l]
Hold(s, h) == held' = [held EXCEPT ![s] = h]

\* The child is done: it let go of everything and reported r.
Report(s, r) ==
  /\ Goto(s, IF at[s] \in Navigating THEN "judge" ELSE "verdict")
  /\ result' = [result EXCEPT ![s] = r]
  /\ Hold(s, "no")

\* The process is gone, and its counters with it.
Exit(s) ==
  /\ Goto(s, "off")
  /\ cycle' = [cycle EXCEPT ![s] = 1] /\ handoffs' = [handoffs EXCEPT ![s] = 0]
  /\ leg' = [leg EXCEPT ![s] = 1] /\ resume' = [resume EXCEPT ![s] = 0]

\* The next cycle, if there is one.
NextCycle(s) ==
  IF cycle[s] = MaximumCycles
  THEN Goto(s, "end") /\ UNCHANGED cycle
  ELSE Goto(s, "preflight") /\ cycle' = [cycle EXCEPT ![s] = @ + 1]

\* Arguments are checked and the first record written, or the process exits.
Boot(s) ==
  /\ at[s] = "boot"
  /\ (Goto(s, "preflight") /\ UNCHANGED counters) \/ Exit(s)
  /\ UNCHANGED <<result, held>>

\* The child plans, then waits a bounded time for an arm, without a look at the
\* control file.
Preflight(s) ==
  /\ at[s] = "preflight"
  /\ \/ arm /\ Goto(s, "loop") /\ UNCHANGED <<result, held>>
     \/ ~arm /\ Report(s, "none")
     \/ Report(s, "FAILED")
  /\ UNCHANGED counters

\* checkpoint, of either child: on a stop or a pause the motion is let go first.
Checkpoint(s) ==
  /\ at[s] \in {"loop", "fight"}
  /\ \/ control = "STOP" /\ Report(s, "STOPPED")
     \/ /\ control = "PAUSE" /\ Goto(s, IF at[s] = "loop" THEN "paused" ELSE "halted")
        /\ Hold(s, "no") /\ UNCHANGED result
     \/ /\ control = "RUN" /\ Goto(s, IF at[s] = "loop" THEN "frame" ELSE "blow")
        /\ UNCHANGED <<held, result>>
  /\ UNCHANGED counters

\* The wait of a pause looks for each command.
Paused(s) ==
  /\ at[s] \in {"paused", "halted"}
  /\ \/ control = "STOP" /\ Report(s, "STOPPED")
     \/ /\ control = "RUN" /\ Goto(s, IF at[s] = "paused" THEN "loop" ELSE "fight")
        /\ UNCHANGED <<held, result>>
  /\ UNCHANGED counters

\* Fault: after a frame that steers, the next one follows without a checkpoint.
FrameGreedy(s) ==
  /\ at[s] = "frame"
  /\ \/ arm /\ Hold(s, "nav") /\ UNCHANGED <<at, result>>
     \/ ~arm /\ Report(s, "RUNTIME_ARM_EXPIRED")
  /\ UNCHANGED counters

\* Fault: the hand-over to the combat is reported with the character moving.
FrameHandsOver(s) ==
  /\ at[s] = "frame"
  /\ \/ arm /\ Hold(s, "nav") /\ Goto(s, "loop") /\ UNCHANGED result
     \/ /\ Goto(s, "judge") /\ result' = [result EXCEPT ![s] = "COMBAT_HANDOFF_REQUIRED"]
        /\ UNCHANGED held
  /\ UNCHANGED counters

\* One pass of the navigation loop.  Its own copy of the arm may run out before
\* the file does.
Frame(s) ==
  /\ at[s] = "frame"
  /\ \/ arm /\ Hold(s, "nav") /\ Goto(s, "loop") /\ UNCHANGED result
     \/ Hold(s, "no") /\ Goto(s, "loop") /\ UNCHANGED result
     \/ \E r \in {"ARRIVED", "COMBAT_HANDOFF_REQUIRED", "REPLAN", "RUNTIME_ARM_EXPIRED",
                  "STOPPED", "FAILED", "none"} : Report(s, r)
  /\ UNCHANGED counters

\* A combat child that starts in risky aggro walks back before anything else,
\* and looks at neither the control file nor the arm on the way.
Retreat(s) ==
  /\ at[s] = "retreat"
  /\ \/ \E h \in {"combat", "no"} : Hold(s, h) /\ UNCHANGED <<at, result>>
     \/ \E r \in {"ESCAPED_RISKY_AGGRO", "FAILED"} : Report(s, r)
  /\ UNCHANGED counters

\* One pass of the encounter; "none" is a child that emits no result.
Fight(s) ==
  /\ at[s] = "blow"
  /\ \/ \E h \in {"combat", "no"} : Hold(s, h) /\ Goto(s, "fight") /\ UNCHANGED result
     \/ \E r \in {"WON", "FAILED", "none"} : Report(s, r)
  /\ UNCHANGED counters

\* The child is killed at its time limit, or dies; nobody lets go of its keys.
Killed(s) ==
  /\ at[s] \in Navigating \cup Fighting
  /\ Report(s, "none") /\ UNCHANGED counters

\* The status is judged once.
Judged(s) == result' = [result EXCEPT ![s] = "none"] /\ UNCHANGED held

\* What follows a navigation child: journey_supervisor_action and the loop.  A
\* record that cannot be written ends the process, and so does the arrival.
Judge(s) ==
  /\ at[s] = "judge" /\ Judged(s)
  /\ \/ result[s] # "none" /\ Exit(s)
     \/ /\ result[s] = "ARRIVED" /\ leg[s] < Legs /\ NextCycle(s)
        /\ leg' = [leg EXCEPT ![s] = @ + 1] /\ resume' = [resume EXCEPT ![s] = 0]
        /\ UNCHANGED handoffs
     \/ /\ result[s] = "REPLAN" /\ NextCycle(s)
        /\ resume' = [resume EXCEPT ![s] = 0] /\ UNCHANGED <<handoffs, leg>>
     \/ /\ result[s] = "RUNTIME_ARM_EXPIRED" /\ NextCycle(s)
        /\ resume' = [resume EXCEPT ![s] = cycle[s]] /\ UNCHANGED <<handoffs, leg>>
     \/ /\ result[s] = "COMBAT_HANDOFF_REQUIRED" /\ handoffs[s] < MaximumHandoffs
        /\ Goto(s, "fight") \/ Goto(s, "retreat")
        /\ resume' = [resume EXCEPT ![s] = 0] /\ UNCHANGED <<handoffs, leg, cycle>>
     \/ /\ \/ result[s] \in {"STOPPED", "FAILED", "none"}
           \/ result[s] = "COMBAT_HANDOFF_REQUIRED" /\ handoffs[s] >= MaximumHandoffs
        /\ Goto(s, "end") /\ UNCHANGED counters

\* What follows a combat child: only a fight that was won, or escaped, goes on.
Verdict(s) ==
  /\ at[s] = "verdict" /\ Judged(s)
  /\ \/ result[s] = "none" /\ Goto(s, "end") /\ UNCHANGED counters
     \/ result[s] # "none" /\ Exit(s)
     \/ /\ result[s] # "none" /\ handoffs' = [handoffs EXCEPT ![s] = @ + 1]
        /\ \/ result[s] \in {"WON", "ESCAPED_RISKY_AGGRO"} /\ NextCycle(s)
           \/ Goto(s, "end") /\ UNCHANGED cycle
        /\ UNCHANGED <<leg, resume>>

\* The last record.
End(s) == at[s] = "end" /\ Exit(s) /\ UNCHANGED <<result, held>>

SupervisorStep(s) ==
  /\ Boot(s) \/ Preflight(s) \/ Checkpoint(s) \/ Paused(s) \/ Frame(s) \/ Retreat(s)
     \/ Fight(s) \/ Judge(s) \/ Verdict(s) \/ End(s)
  /\ UNCHANGED <<window, threads, files>>

Kill(s) == Killed(s) /\ UNCHANGED <<window, threads, files>>

\* The time limit of a child that does not steer, in a pause or in passes without
\* an arm, and that of a retreat.
Overdue(s) ==
  /\ \/ at[s] \in {"paused", "halted", "retreat"}
     \/ at[s] \in {"loop", "frame", "fight", "blow"} /\ ~arm
  /\ Kill(s)

Next ==
  \/ Window \/ Expire
  \/ \E j \in Journeys : PrepStep(j) \/ Renew(j) \/ SupervisorStep(j) \/ Kill(j)

\* The processes, threads and timers go on, and an arm that nobody renews runs
\* out.  Of the time limits only that of a child that does not steer and that of
\* a retreat are needed.
Fairness ==
  /\ WF_vars(Lapse) /\ WF_vars(Refresh)
  /\ WF_vars(\E j \in Journeys : PrepStep(j)) /\ WF_vars(\E j \in Journeys : Renew(j))
  /\ WF_vars(\E j \in Journeys : Callback(j))
  /\ WF_vars(\E s \in Journeys : SupervisorStep(s)) /\ WF_vars(\E s \in Journeys : Overdue(s))

Spec == Init /\ [][Next]_vars
FairSpec == Spec /\ Fairness

-----------------------------------------------------------------------------
(* Properties.                                                             *)

Statuses == {"none", "ARRIVED", "COMBAT_HANDOFF_REQUIRED", "REPLAN",
             "RUNTIME_ARM_EXPIRED", "STOPPED", "FAILED", "WON",
             "ESCAPED_RISKY_AGGRO"}

TypeOK ==
  /\ state \in {"STOPPED", "STARTING", "RUNNING", "PAUSED", "STOPPING", "closed"}
  /\ ack \in BOOLEAN /\ starts \in 0..MaxStarts /\ process \in 0..MaxStarts
  /\ permitted \in [Journeys -> BOOLEAN] /\ stopEvent \in [Journeys -> BOOLEAN]
  /\ prep \in [Journeys -> {"none", "check", "prepare", "arm", "launch"}]
  /\ callback \in [Journeys -> {"none", "running", "error"}]
  /\ renewer \in [Journeys -> {"none", "wait", "renew"}]
  /\ control \in {"RUN", "PAUSE", "STOP"} /\ arm \in BOOLEAN
  /\ at \in [Journeys -> {"off", "boot", "judge", "verdict", "end"} \cup Navigating \cup Fighting]
  /\ cycle \in [Journeys -> 1..MaximumCycles]
  /\ handoffs \in [Journeys -> 0..MaximumHandoffs]
  /\ leg \in [Journeys -> 1..Legs] /\ resume \in [Journeys -> 0..MaximumCycles]
  /\ result \in [Journeys -> Statuses] /\ held \in [Journeys -> {"no", "nav", "combat"}]

\* Two supervisors never share the control file and the client.
OneSupervisor == \A s, t \in Journeys : Alive(s) /\ Alive(t) => s = t

\* When the window says the journey is stopped and a supervisor is left, as a launch
\* that raises leaves one, the window knows it, so that no other starts beside it,
\* and it was told to stop, so that its arm is renewed no more.
StoppedMeansStopped ==
  \A s \in Journeys : state = "STOPPED" /\ Alive(s) =>
    process = s /\ stopEvent[s]

\* There is one journey at a time, the one the window speaks of.
SingleJourney == OneSupervisor /\ StoppedMeansStopped

\* A child only ever resumes from the checkpoint of the child before it.
CheckpointSingleUse ==
  \A s \in Journeys : at[s] \in Navigating => resume[s] \in {0, cycle[s] - 1}

\* Whoever waits, for an arm, for the operator or for the supervisor's verdict,
\* holds nothing, and the combat child starts with the walk let go.
WaitsStandStill ==
  \A s \in Journeys :
    /\ held[s] = "nav" => at[s] \in {"loop", "frame"}
    /\ held[s] = "combat" => at[s] \in {"fight", "blow", "retreat"}

\* A child starts with the checkpoint and the keys that are its own to have.
ChildrenInheritNothing == CheckpointSingleUse /\ WaitsStandStill

\* A stop or a pause in the control file is heeded, unless it is withdrawn.
CommandIsHeeded ==
  control # "RUN" /\ (\E s \in Journeys : Moving(s))
    ~> control = "RUN" \/ \A s \in Journeys : ~Moving(s)

\* A journey that is being stopped comes to its end, and the window shows it.
StopEnds == state = "STOPPING" /\ process # 0 ~> state \in {"STOPPED", "closed"}

\* What the operator commands happens, whatever the processes were in the middle of.
CommandsAreHeeded == CommandIsHeeded /\ StopEnds

\* When the permission stays withdrawn, the walking ends, however the click met
\* the preparation, a renewal or a change of child.
PermissionRunsOut == []<>ack \/ <>[](\A s \in Journeys : held[s] # "nav")

\* A journey does not outlive its window, which is closed once and for all.
WindowGoneEnds == []<>(state = "closed" => \A s \in Journeys : ~Alive(s))

\* No journey is launched after the permission was withdrawn.
LaunchNeedsPermission ==
  [][\A s \in Journeys : at[s] = "off" /\ at'[s] # "off" => ack]_vars
=============================================================================
