# Predator: a TLA+ model of the actuation path and of the processes that drive it

Predator is a Python program that observes a game client on Windows, decides
where to go or what to do, and sends input to the client's window. What it must
never do is leave a key held, press one after the operator took over, or act on
authority that is gone. The code that decides this, in
`src/src/perfect_assassin/execution/` and in the processes of
`src/integrations/windows-input/` that the operator starts and stops, is
multi-threaded and multi-process, full of timeouts and partial failures. This
project models it. All paths below are relative to the repository's root;
`PROJECT.json` says for every definition which lines it stands for.

## 1. Inventory

### What is modelled

| Component | State | Operations | What is hard | What makes it correct |
|---|---|---|---|---|
| **ExecutionGateway** `execution/gateway.py`, `ports.py` | session state, queue, sequence numbers, seen ids, cancellation, the active sink invocation, release fault | `enqueue`, `run_next`, `execute`, `cancel_for_manual_takeover`, `close`, arm revocation; a sink thread per primitive with a watchdog | callers, sink thread, watchdog and stops interleave; the sink may hang; every release may fail | single flight, order, one answer per primitive, no recovery from a failure, everything released when it is over |
| **WindowsSendInputSink** `execution/windows_send_input.py` | owned, pending and releasing keys, generations, three locks, identity receipt | `apply_bounded`, `release_all`, `close` | a key-down racing a release, ambiguous acknowledgements, overlapping releases | every held key has an owner, none is pressed after a revocation, every apply ends |
| **Mouse turn and combat sinks** `execution/windows_mouse_turn.py` | owned buttons, generations, two locks, the borrowed cursor | turns, clicks and keys through `apply_bounded`, `release_all`, `close` | the settle pause under the submission lock, a flag cleared before its button is up, the cursor on loan while anything may raise | the same port as the keyboard sink; the cursor comes back, and only with the button up; a turn is exact |
| **Continuous motion** `execution/windows_continuous_motion.py`, `continuous_motion_gateway.py`, `continuous_motion.py` | held controls, RMB, lease, authority, revocation | `apply_frame`, `renew_authority`, `revoke`, `release_all`, `close`; watchdog and mouse velocity threads | two locks, workers releasing between frames, frames failing midway | nothing held without a lease, after close or after a revoke; a frame leaves exactly its state held |
| **Combat gateway and encounter** `execution/combat_gateway.py`, `combat_motion_gateway.py`, `brain/combat.py` | the loop's memory between frames (locked and observed unit, pending blow, counters), the gate's counters, token and bound corpse, the motion held | `run` and its recovery, `execute`, `bind_defeated_target`, takeover, `close`; `update`, `release` of the motion | selections that change under a fight, kills inferred from what is no longer seen, a takeover during an action or a motion frame, releases that fail | one unit is attacked and only its corpse looted; nothing comes down after a takeover; everything is let go at the end |
| **Anti-AFK guard** `run_stay_online_guard.py`, `stay_online_control.py`, `adapter/afk_hud.py`, two scripts | the guard's latch and the session it is bound to; the record, the stop request and the opt-in on disk; the panel's revision and checkbox, its worker and two queues | the guard's loop, its pulse, its exits; ask, start, stop, poll, toggle, refresh; a Control Center that is closed and opened again | processes that crash between a mark, an input and a record; waits that are given up; answers older than the click | one jump in an AFK period, none over an obstacle, off means off and stays off, a stop obeyed, a click answered |
| **Journey control** `run_movement_engine_client.py`, `run_journey_combat_supervisor.py`, `operator_control.py`, the checkpoints of `run_navmesh_roaming.py` and `run_controlled_combat.py` | the window's state and checkbox, a stop event per journey, the control file, the motion arm's file, the supervisor's counters and checkpoint, what its child holds | start, pause, stop, permission and its withdrawal, close; the preparing and the renewing thread, the timer and the queued callback; navigation and combat children, their verdicts | three threads, a timer and two generations of processes that know each other through two files | one supervisor at a time, nothing held by whoever waits, commands heeded, no walking without permission, nothing outlives the window |

### What is around it

| Component | Nature |
|---|---|
| Exact target command, single forward pulse | a few lines under one lock; one straight line on one thread |
| Runtime arms, authorizations, contracts | validation of signed records; their expiry and revocation are in the models that meet them |
| Live loops `integrations/windows-input/*.py` | long scripts over screen capture; their checkpoints, results and what they hold are in `Journey` |
| Movement engine, navigation data | steering and planning in floating point, offline data sets |
| Brain, knowledge, pose, adapters, observer, capture | decision functions, catalogs, estimation, decoders |
| Telemetry, journal, replay, lab, scripts, addon, native tools, simulator | append-only log, offline analysis, other languages |

### How they interact

The **Control Center** is the operator's window. It writes a command (RUN, PAUSE,
STOP) and a motion arm that expires, launches a **journey supervisor**, and learns
of it through its exit only. The supervisor runs one child at a time: navigation
children walk, a combat child fights where one of them met a unit. A navigation
child reads the control file and the arm between two frames, a fight the control
file only, and the retreat with which a combat child may begin neither of them: it
ends by its own limits. The **anti-AFK guard** is
another process the same window starts and stops; it shares three files with it
and gives way to whoever drives the client.

Inside a child a **runtime arm** is handed to a gateway. A gateway takes a
primitive, checks session, authority, pose and time, and calls a **sink** through
the `InputSink` port (`apply_bounded`, `release_all`) on a thread of its own,
watched by the caller. Arm revocation and the operator's takeover call back into
the gateway from other threads. A sink talks to the window through a backend whose
every submission may be unacknowledged. The continuous motion gateway holds its own
lock around a session that two worker threads may release at any time. A combat
encounter is a single thread that reads frames, asks the policy for a decision,
steers through its motion gateway and acts through its gate; the operator's
takeover stops both from another thread, motion first.

`PROJECT.json` lists every component with its status, and under `hazards` what
can go wrong at which line, with the property that would notice.

## 2. Modules

| Module | Models | State and steps |
|---|---|---|
| `InputSink` | what the port of `ports.py` promises its callers | Abstract: the controls held, the calls inside the sink, whether the apply in it may still press. A press needs an unrevoked apply; the last call to return leaves nothing held, unless a key-up was refused. |
| `ExecutionLease` | what the gateway promises of one lease | Abstract: is the lease served, which primitive is in flight, what the sink was handed, which result each got. No thread, lock, queue or clock. A primitive is taken only when everything handed over before it was `EXECUTED`; any other result ends the service for good. |
| `SendInputSink` | `windows_send_input.py` | Threads of three kinds (appliers, releasers, one closer). One action per critical section of the state lock or per submission; `subLock` and `applyLock` are the other two locks. `down` is the physical state of the keys, which the code never sees. Implements `InputSink` (`Port`). |
| `MouseTurnSink` | `windows_mouse_turn.py` | `pc[a]` is where an apply is between validation and commit: placed, pressed, dragged out, back and across, released, cursor put back. `why[t]` says what a release is for (a return, an unwinding apply, a cleanup). The combat sink's keyboard half is `InputSink` over one control. Implements `InputSink` as a whole. |
| `ExecutionGateway` | `gateway.py`, the ports it uses | One action per critical section of `_lock` and per call into the sink. `cpc[c]` is where a caller is inside `_run_next` (and `execLock` is `_execution_lock`), `wpc[p]` where the sink thread of primitive `p` is inside `invoke_sink`, `stopPc[s]` where a takeover, close or disarm is. `verdict` is the published status, `applied` the order in which `apply` was called. The sink is its port only: it presses at most one control and lifts it. Implements `ExecutionLease` (`Lease`). |
| `ContinuousMotion` | `windows_continuous_motion.py` behind `continuous_motion_gateway.py` | Every operation of the session is one critical section, pauses included, so one action. `holding` says what the holder of the gateway's lock is doing, so that workers, `release_all` and `close` come between the gateway's check and the session's frame. |
| `CombatPolicy` | `decide` of `brain/combat.py` and the frames it reads | No state. `Frames` is the set of frames the code tells apart, `Decide` the policy on one of them. |
| `CombatEncounter` | `combat_gateway.py`, the motion gateway beside it, `checkpoint` of `operator_control.py` | Extends `CombatPolicy`. `stage` is where the thread of `run` is, `mem` the locals it keeps between two frames, `request` the action on its way through the gate. `LoopBody` is one turn of the loop: its disjuncts are the code's exits, in the code's order, each of which waits, fails, acts or hands over to recovery. The gate is cut at admission, input, release and commit; `stop` is the takeover thread. |
| `StayOnline` | the guard, its control and the two scripts | `gpc[g]` is where a guard process is (boot, look, recheck, mark, pulse, press, report), `wpc` where the Control Center's worker is in `set_enabled`. `file` is the record on disk, written as a whole. `Crash` ends a guard anywhere; `Reopen` ends the Control Center and opens another. `GoesAfk`, `Returns`, `Relog` and `Drive` are the world. |
| `Journey` | the Control Center's journey, its supervisor and its children | Each start is a journey `j` with an event, a preparing thread `prep[j]`, a renewing thread `renewer[j]` and a supervisor. A supervisor waits for its child, so `at[j]` is where either is. `held[j]` is whose keys are down; `control` and `arm` are the two files. |
| `MC*` | instances for TLC | |
| `SendInputSinkProofs`, `MouseTurnSinkProofs`, `ExecutionGatewayProofs`, `ExecutionGatewaySafety`, `ContinuousMotionProofs`, `CombatEncounterProofs`, `StayOnlineProofs`, `JourneyProofs` | theorems | |

The layers meet at promises. The two sinks implement `InputSink`;
`ExecutionGateway` relies on less (its sink may even press after a cancellation,
in `gateway_callers`), `CombatEncounter` on a sink that presses nothing once
cancelled, and `Journey` on a child that holds nothing once its session or its
encounter is over, which `ContinuousMotion` (`StoppedIsReleased`) and
`CombatEncounter` (`OverIsReleased`) show.

Definitions called a *Fault* in their comment are not part of any specification:
each is the variant of a definition that a plausible bug would be, and is used
to see that the properties notice it.

### What the models abstract

* Time is counted in ticks in the gateway, the keyboard sink and the motion
  session, where every deadline comparison of the code is kept. Elsewhere it is
  a choice: a wait may be over at any time.
  A clock that fails is a reading in the gateway (`BadClock`); in the keyboard sink
  and in the motion session the clock does not fail.
* Poses, identities and signatures are a Boolean each: the check passes or not.
* Result records are their status; wording, telemetry and reason codes are left
  out, except where the commit tells two reasons apart.
* `ExecutionGateway` merges a failing path's state change with the release it
  makes under the same lock, and keeps apart the releases made outside it.
* `SendInputSink` merges the two lock sections with which an apply begins (no
  other thread can tell them apart) and the last hot check with taking the
  submission lock; a focus lost after that check is a step of its own.
  `KeyboardInterrupt` and a failing waiter are left out.
* `MouseTurnSink` has no clock: deadline, token and focus may fail a check whenever
  they are asked. Distances are whether an excursion was taken back (`pitch`) and
  whether the drag across was made (`turned`). The gateway's single flight is its
  guard `Free`. The identity receipt is left out.
* `ContinuousMotion` abstracts mouse deltas, the cursor's placement and the
  age of a frame (any frame may be stale). The loading and validation of an
  authority record is the choice of its expiry.
* `CombatEncounter` has no clock: deadlines, a stale, repeated or malformed frame and
  an inactive arm can end the encounter at any frame (`Expire`) or refuse any action
  (`Refuse`). A pause of the operator and its resumption are one step. The motion
  gateway is whether inputs are held and whether it was cancelled; the session's lease
  only releases earlier. One `SeekBudget` stands for the budgets of both corpse
  searches. A frame's health is full, hurt, drained or dead; level and attackability
  are the unit's kind; bearing, range and abilities are what the frame `sees`. Any
  frame may follow any other: units come, go and return.
* `StayOnline` leaves out the window's focus, the renewal of the identity receipt
  and the wording of a status. A guard's record may fail to be written (a reader
  has the file open), a process id may be used again (`Launch` finds any record
  that names no living guard), and a click that is still queued when the window
  closes is lost. A record that the guard which follows cannot read is the choice of
  `Boot`, which then knows nothing of a jump made before: `jumps` is counted anew. A
  script goes on when its Control Center is closed: it has done its work, or died,
  before the next Control Center acts (`Reopen`), so that it does not come between the
  steps of the next one. The latch counts its samples up to one, the confirmation. One
  Control Center runs at a time, and nobody runs the start script by hand.
* `Journey` keeps of a child what it shares: when it looks at the control file and the
  arm, what it holds, and the status it reports. A child copies the arm when it starts
  and may find it expired earlier than the file (`Expire`). Clicks, the timer and
  queued callbacks come in any order, and a callback may be lost. One thing is assumed
  of time, `Settled`: a preparation, which runs four other programs before its last
  look at its event, outlasts what the journeys before left to do, their queued
  callbacks, the timer's next turn after their supervisor's exit and the end of their
  own preparation. Nothing in the code enforces it; it matters only after a launch
  that raised once its supervisor was there, since otherwise no start is accepted
  while anything of the kind is left. The gate of the map, which the preparing thread
  opens (`run_movement_engine_client.py:4062`) even after an untick closed it
  (`:3662`), is left out: what the untick has to stop is the walk. The hand-off to
  combat resumes navigation always (the Control Center passes the flag). The window
  passes `--maximum-combat-handoffs 0`, a supervisor started by hand uses 24: the
  instance has 1, so both sides of the limit are met. An unreadable control file acts
  as a stop. A child that is killed leaves no `held`: what Windows believes of its
  keys then is nobody's. A Control Center that is opened again is not modelled.

## 3. Runs

Each passing run is checked to the end by TLC; each property has a mutant of the
code (listed under `mutants`) that violates it in the same run.

| Run | Question | Instance |
|---|---|---|
| `gateway_callers` | Do two callers, a replayed sequence number, failing releases and a sink that presses after its cancellation break single flight, order, the finality of a fault, or the release when all is quiet? Is every step one of the abstract lease? Does `execute` run the primitive it was given, though it lets go of the lock between queueing and running it? | two symmetric callers, three primitives (one replayed), releases may fail, defective sink |
| `gateway_liveness` | Can a status EXECUTED be published without full authority, or a control be held after a stop returned? Does every call return, and every control come up, though the sink may hang? | one caller, two primitives, all three stops, releases may fail, the clock crosses the authority's horizon; fairness below |
| `sink_liveness` | Is a key ever forgotten, left down, pressed after a revocation, or let go before the hold is over? Does every apply end? Is the sink the port? | one key, one applier that applies repeatedly, one releaser, the closer, focus lost and regained, ambiguous backend; fairness below |
| `mouse` | The same of the mouse and combat sinks, and: does the cursor come back, and only with the button up; is a turn that returns exact? | turns, clicks and keys, one applier, one releaser or closer, refused submissions; fairness below |
| `motion` | Is something held without a lease, after close, after a revoke, or other than the frame asked for? Does it come up by itself? | three controls (one not allowed) and RMB, failing backend, lost focus, expiring and renewed authority; fairness below |
| `combat` | Whatever the frames show and whenever a takeover, a pause or a failed release comes: is a second unit attacked, approached or looted, does something stay held or come down after a takeover or the end, does recovery start while motion is held? | two symmetric units, every frame of `CombatPolicy`, the two ways the script runs an encounter and the bare one |
| `guard` | Through crashes, lost records, closed windows, clicks, sessions and AFK periods: one jump in a period, none over an obstacle, is off off and does it stay off, is a stop obeyed and a click answered? | one guard process at a time, two sessions of the client, one click between two openings, one uncollected result, every give-up of the scripts; fairness below |
| `journey` | Whatever the operator clicks and whenever a process ends: one supervisor known to its window, nothing inherited, commands heeded, walking that ends with the permission, nothing that outlives the window? | two journeys, two legs, three cycles, one hand-off; fairness below |
| `gateway_closed`, `combat_rebind`, `guard_duplicate`, `journey_permission` | Findings, section 5 | |

`TypeOK` of the modules is proved, for every value of the constants, where the
theorems below say so, and is not in the runs a second time.

**Why the bounds are enough.** A second primitive is needed for a queue and for
the successor of an abandoned one, a third for a replay while both are live;
nothing in the gateway compares more than two. A second caller is needed for
the execution lock, more are the same caller again. The clock ends after the
horizon and after the deadline of a primitive started at any time before: every
comparison has both outcomes. In the sinks a second apply is refused while one
holds the lock, so an instance with two appliers has the states of one; the
releaser, the closer and the apply's own cleanup give three overlapping
releases. Their keys are independent of each other, and the theorems hold for any
set. `MaxGeneration` bounds the calls of `release_all`; each call beyond the
bound repeats an interleaving already seen. The lease of a motion frame (2) ends
before, at and after the authority (3 or 4).

In `combat` two units are enough for every comparison the loop makes (the frame's
unit with the locked, observed, struck, remembered or bound one): a third unit
differs from the locked one as the second does. Every budget is 1, so that each
counter is below, at and past its limit. Four actions allow an attack, an
approach, the change of the selection that follows it, and the attack of the
second unit (`OneVictim` needs them all); or a cycle, an attack, a blow and a loot
click; or a kill, a click that misses, a second search and a second click
(`MaxLoots` is 2).

In `guard` a guard process ends and another follows it, in the same AFK period
or the next, and a start may be given up over each of them; the second session is
the one a guard is not bound to. Two processes at once, which a start that is
given up makes possible, are the instance of `guard_duplicate`, and the theorems hold
for any number. `OneJumpAlone` and `OffMeansOff` except no more than that case:
`unattended` says that a start ended before a record named its guard and that a
guard is still there, `beside` that another was started while it was. A result that is not
yet collected and one in the making let an answer be older than a click. In
`journey` the second journey is the one started while threads of the first still
run; three cycles over two legs reach a resumption, a hand-off in between, the
second leg and the end of the budget.

Deadlock is not checked where the system may stop: an encounter ends, a closed
sink is asked nothing more, a journey of a closed window is over, and the clicks
of an operator are bounded.

**Fairness.** `gateway_liveness` assumes that a caller inside the gateway and a
stop that has begun go on, and nothing of a thread inside the sink's `apply`: the
watchdog's wait is timed (`gateway.py:772`), which is what the property relies on.
`sink_liveness` and `mouse` assume that a thread inside the sink takes its next step
(every wait in it is timed; the locks are held over finitely many such steps), and
the former that the clock goes on; nothing is assumed of who calls. `motion` assumes
the watchdog thread and the clock only, nothing of any caller: the watchdog waits
on a condition with a timeout. `guard` assumes that a guard, the worker and the
window's timer take their next step (all three are loops with timed waits), and
nothing of the operator, of how long a script waits, of crashes or of the client;
`ClickIsAnswered` excepts a window that is closed again and again. `journey` assumes the
window's timer and queued callbacks, the preparing and renewing threads, a supervisor
and its child between two checkpoints, that an arm nobody renews runs out (`Lapse`),
and two limits on a child (`Overdue`): the subprocess timeout of one that does not
steer, and the frames and seconds of a retreat; nothing of clicks or of when the
window ends.

## 4. Theorems

Proved with TLAPS for every value of the constants, under the named assumptions
`GatewayAssumption`, `SinkAssumption`, `MouseAssumption`, `MotionAssumption`,
`EncounterAssumption`, `UnitsAssumption`, `StayOnlineAssumption` and
`JourneyAssumption`, which TLC evaluates on every run.

* **SendInputSink** – `SinkTypeCorrect`; `NoKeyForgotten` (`KeysAreAccounted`);
  `NothingStaysHeld` (`NothingLeftHeld`); `RevocationIsFinal`
  (`NoPressAfterRevocation`); `SinkImplementsPort` (`ImplementsPort`): each step is
  a step of `InputSink` or a stutter. The strengthening says who may own what: a
  pending key-down belongs to the holder of the submission lock and carries the
  current generation, and an idle apply lock means no apply has keys to release.
  `ReturnMeansHeld` (`ReturnedMeansHeld`): an apply that returns held its keys for the
  whole hold and left none down, unless an earlier release was still lifting keys when
  it began. It needs that whoever lifts keys beside an apply has revoked it first, so
  that an apply whose generation is still current has lost none. `NoCallCircles` is
  the safety half of `ComesToRest`: each step of a call lowers a lexicographic measure
  (the part of the call, the keys left in it, the points left of one key), for any
  set of keys, although a refused key is owned again, and no other thread raises it.
* **MouseTurnSink** – `MouseTypeCorrect`; `CursorReturns` (`CursorComesBack`);
  `CursorWaits` (`CursorWaitsForButton`); `TurnsAreExact` (`TurnIsExact`);
  `MouseImplementsPort` (`ImplementsPort`). The invariant has one part per thing on
  loan: which program points hold the cursor, which own a button, what a thread that
  took a button over has still to lift, how far a drag has gone, and that one call at
  most is past its admission. `CursorWaits` and `TurnsAreExact` excuse a button whose
  last release was refused for as long as it is still down (`stuck`), and nothing else
  of what came before; a turn is excused as a whole only if another thread's release
  was still lifting an input when it began. The refinement maps a submission that may
  press to `Press` in an unrevoked apply, and needs that between the check and the
  press the submission lock keeps every revocation out. `NoMouseCallCircles` is the
  safety half of `ComesToRest` here: each step of a call lowers the number of its
  steps left, 25 for a turn that was just registered, and no other thread raises it.
* **ExecutionGateway** – `TypeCorrect`; `OneFlight` (`SingleFlight`);
  `FaultsStay` (`FaultsAreFinal`); `RunsItsOwn` (`ExecuteRunsItsOwn`);
  `StopsRelease` (`StoppedMeansReleased`, for a sink that
  looks at its cancellation before it presses); `QuietIsReleased`
  (`QuietMeansReleased`); `AnswersOnce` (`AnsweredOnce`); `AppliedInOrder`
  (`InOrderOnce`); `ExecutedWithAuthority` (`ExecutedOnlyWithAuthority`).
  `SingleFlight` is not inductive:
  it needs which program points of a caller go with which points of its worker,
  and that `active` is cleared only by that worker. `ExecuteRunsItsOwn`
  needs that while a caller is between the halves of `execute` the queue is its
  own, or empty with the gateway out of `READY`. `StoppedMeansReleased` needs
  that a stop that is past its first step has set the token or revoked the arm,
  so that no press is possible between its release and its return.
  `QuietMeansReleased` needs that whoever may still press is followed by a release:
  its own final one, or that of the caller waiting for it. `AnsweredOnce` needs a
  ledger: what is queued or in a call is not answered yet, and the queue is the
  end of what was accepted, in sequence. `InOrderOnce` needs that in `READY`
  everything taken has reached the sink, but for the one primitive in flight: a
  call that ends without its apply leaves `READY` before it lets the lock go.
  `ExecutedOnlyWithAuthority` needs that a call past its apply has a worker that
  has ended, and that what it released stays released while the gateway is `READY`.
  `GatewayImplementsLease` (`ImplementsLease`) puts these together: each step of
  callers, workers, watchdog and stops is a step of `ExecutionLease` or a stutter. The
  lease is open while the gateway is `READY`, its flight is the registered invocation,
  and `cleared` says that its worker is between the gate and the sink. Beyond the
  invariants above this needs that an epoch that moved means the gateway left `READY`,
  that a cancelled `READY` gateway has a caller about to fail, that what a refused
  or failing call is going to publish is a failure, and that in `READY` everything
  handed over is `EXECUTED` or has a caller that has yet to answer. What a client may
  conclude is proved of the abstract lease and so of the gateway (`ServedInTurn`):
  only the last primitive the sink got can have failed. The refinement also says that
  an answer is final, which `AnswersOnce` proves on its own. `StopsLast`: a takeover
  gives way to a close only, and a close to nothing, unless a release raised and is
  latched. It needs that a commit whose release failed has latched the failure.
  `NoGatewayCallCircles` is the safety half of `CallsReturn`: no step of a call and
  none beside it leads back, and a call is over after eight steps of its own.
* **ContinuousMotion** – `MotionTypeCorrect`; `NothingHeldUnleased` (`HeldIsLeased`);
  `StopIsFinal` (`StoppedIsReleased`); `FramesAreExact` (`FrameIsExact`). The
  invariant relates what is down to what is owned, what the state machine believes
  to what is owned or refused, and a lease to an open session and an unexpired
  authority.
* **CombatEncounter** – `TypeCorrect` (`TypeOK`, every budget included);
  `NothingAfterTakeover` (`TakeoverStops`); `EndReleases` (`OverIsReleased`);
  `RecoveryIsStill` (`RecoveryStandsStill`); `AttacksOneUnit` (`OneVictim`);
  `StaysWithIt` (`FollowsItsVictim`), for any number of units, any options and
  budgets. A first lemma sorts the exits of the loop body into a few endings
  (fail, wait with a memory, act with a request, hand over), and the rest argues
  about those. `OneVictim` is not inductive: it needs that the locked unit is the
  victim, that a pending blow is at the locked unit, that a request that
  would attack, steer or replace names the locked unit once there is one, and
  that recovery is for the victim. `TakeoverStops` needs, for each step of the
  takeover, that its token stays set and what it released stays released, and that
  a key is down only between its press and its release; `RecoveryStandsStill` needs
  that a frame which ends a fight is not one motion follows. `BoundFightIsPatient`:
  bound to a unit, the loop waits for `MismatchBudget` frames in a row of the same other
  unit at most. It needs that a bound loop's count of them is not behind the row.
* **StayOnline** – `GuardTypeCorrect`; `BoxTellsTheTruth` (`BoxIsCurrent`);
  `DisableSticks` (`OptOutSticks`); `NeverJumpsOver` (`ObstaclesHold`); `OneJumpEach`
  (`OneJumpAlone`); `OffIsOff` (`OffMeansOff`), for any number of guards and with
  every give-up. `BoxIsCurrent` needs that what is collected under the panel's
  revision was found after its last command, and that the worker's tag never runs
  ahead of the panel. `OptOutSticks` needs that the opt-in file is gone, or the worker
  is about to remove it, from a disable's first step on. `OffMeansOff` needs that
  without an unattended guard there is one guard at most, and that the record names it
  unless the worker still waits for that. `OneJumpAlone` needs that without a guard
  beside another there is one at most, and that a period in which a jump was made is
  marked in that guard's latch or in the record the next guard will read.
* **Journey** – `JourneyTypeCorrect`; `OneJourneyAtATime` (`SingleJourney`);
  `ChildrenStartClean` (`ChildrenInheritNothing`). The invariant accounts for every
  thread: while any prepares there is no supervisor; one that was not told to stop
  prepares the current journey; past its last look at its event it is alone, and no
  callback is queued that could say `STOPPED` (this is where `Settled` is used); a
  callback that says so meets no supervisor but the one its own launch left; and a
  living supervisor is the one the window knows. A checkpoint is the last cycle's, or
  there is none. `NoJourneyUnasked`: nothing is prepared, launched, renewed or moved
  for a journey, and no arm is valid, without a click on start that found the
  permission ticked. It needs that journeys to come have nothing, and that those which
  were superseded are told to stop.

Only model-checked: the refuted properties of section 5 (`ClosedIsTerminal`,
`PatienceIsBounded`, `LaunchNeedsPermission`, and `OneJump` as it stands), of
which `StopsLast`, `BoundFightIsPatient`, `NoJourneyUnasked` and `OneJumpEach` prove
what does hold; and all liveness properties (`KeyNeverStuck`, `CallsReturn`,
`ComesToRest` of both sinks, `HeldComesUp`, `StopIsObeyed`, `ClickIsAnswered`,
`CommandsAreHeeded`, `PermissionRunsOut`, `WindowGoneEnds`). Liveness under fairness
and `ENABLED` are out of the prover's reach. Of the calls into the gateway and the
sinks the provable half is proved: a call never goes back, so only a thread that stops
for ever keeps it from ending, and that no thread is made to wait for ever stays
with TLC.

## 5. Where the code and its documents disagree

* `gateway_closed`: `docs/adr/0021-bounded-execution-gateway.md:46` and the
  docstring of `close` say a closed gateway stays `CLOSED`. `_commit_after_apply`
  (`gateway.py:631`) writes `FAULTED` whenever the release after an apply failed,
  so a `close` between that release and the commit is undone. No input follows
  (`FAULTED` refuses work too), but the session's last state is wrong. Nothing else
  undoes a close (`StopsLast`).
* `combat_rebind`: the comment at `combat_gateway.py:90-92` says that the same
  mismatch in three consecutive observations ends the waiting. Lines 1567-1568 reset
  the count on every frame before lines 1593-1600 compare it, so out of combat the
  loop waits for a unit that took the first one's place until the acquisition
  deadline. Once the fight is bound to a unit the comment is true
  (`BoundFightIsPatient`).
* `guard_duplicate`: `set_enabled` refuses to start a duplicate
  (`stay_online_control.py:66`) and the guard promises one attempt in an AFK episode
  (`afk_hud.py:49`, `run_stay_online_guard.py:313`). A start that is given up before
  the guard's first record leaves a guard no record names; the next enable starts
  another one and both jump. A disable in its place is confirmed without a stop
  request, since the status reads as off, and the guard goes on although the checkbox
  is cleared; `docs/adr/2026-09-07-cc-anti-afk-checkbox.md` has clearing it ask for a
  cooperative stop. Without such a guard both promises hold (`OneJumpEach`, `OffIsOff`).
* `journey_permission`: the permission's checkbox is to be an immediate stop switch
  (`run_movement_engine_client.py:3640`). Withdrawn while the first arm is being
  issued, it finds no process to stop, and the journey is launched; it walks until
  the arm runs out (`PermissionRunsOut` holds). Nobody walks who was never permitted
  to (`NoJourneyUnasked`).

Seen while modelling, in words only: `close` of the keyboard sink
(`windows_send_input.py:413`) gives the identity receipt back although keys claimed by
another thread's release are still down; `renew_authority_expiry` extends the lease of
what is held without a frame, so a caller that renews without steering keeps it down
until the authority ends; without recovery, a kill is claimed on a frame that shows
another unit (`combat_gateway.py:1362-1391`). In the Control Center a permission
withdrawn before the preparing thread's first look at its event leaves the window
`STARTING`; a process that ends before the window is told of it leaves it `RUNNING`
with no process, and a stop then leaves it `STOPPING` (which is why `StopEnds` speaks
of a known process); a stop or an untick between the launch and its callback is shown
as `RUNNING` once that callback runs, though the stop stands; an exception after
`Popen` (`:4211-4218`) shows `STOPPED` beside a living supervisor; a fight won in the
last cycle of the budget ends the journey on its navigation budget instead of walking
on. The journey and the combat tab can drive the client at once.

## 6. Not modelled

* Of the combat motion gateway, `replace_controller`, which the risky-aggro
  retreat calls before its first frame (`run_controlled_combat.py:856`), with no encounter
  running. What the retreat holds and that it heeds no command is in `Journey`.
* The pause hotkey's detector. What it calls, the takeover of both gateways
  (`run_controlled_combat.py:1541-1551`), is a thread of `CombatEncounter`; that of a
  walk ends its child (`Frame` reports `STOPPED`).
* Of the Control Center, everything but a journey's life and the guard's panel: maps,
  paths, recording, overlay, the combat tab, and a window that is opened again while
  an old supervisor waits.
* The single forward pulse and the exact target command have no interleaving of their
  own: what they share with other threads is the gateway's state, which is modelled.
* Runtime arms, authorizations and contracts are validation of records; the movement
  engine, planners and pose estimation are floating-point geometry whose states no
  finite set stands for; brain, knowledge, adapters, capture, telemetry, replay and
  lab are single-threaded functions, decoders and logs that actuate nothing; the
  addon, the native tools, the simulator and the scripts are other languages or
  offline tools. `PROJECT.json` gives the reason for each of them.
