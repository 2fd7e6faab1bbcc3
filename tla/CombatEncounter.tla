-------------------------- MODULE CombatEncounter --------------------------
(***************************************************************************)
(* One controlled encounter: the loop that turns frames into actions, the  *)
(* gate every action passes and the recovery after a kill (all of          *)
(* execution/combat_gateway.py), with the motion engine beside them and    *)
(* the takeover that stops both.                                           *)
(*                                                                         *)
(* The loop body between two frames touches nothing another thread sees,   *)
(* motion apart, and is one step. The gate is cut where a takeover can     *)
(* come between: admission, the last check, the input itself, the release, *)
(* the commit. The input sink keeps its promise: it presses nothing once   *)
(* it is cancelled. Deadlines, stale frames, an inactive arm and repeated  *)
(* frames can stop the encounter at any frame, so no clock is modelled.    *)
(*                                                                         *)
(* The lease of the motion session, which only releases earlier, is left   *)
(* out; a pause of the operator and its resumption are one step.           *)
(***************************************************************************)
EXTENDS CombatPolicy

CONSTANTS
  Options,          \* motion, recover, preserve and advance, as the caller may set them
  ReleaseFails,     \* may the backend fail to release?
  ChangeBudget,     \* TARGET_CHANGE_OBSERVATION_BUDGET
  LossBudget,       \* TRANSIENT_BEARING_LOSS_OBSERVATION_BUDGET
  DamageBudget,     \* DAMAGE_CONFIRMATION_OBSERVATION_BUDGET
  ClearBudget,      \* LETHAL_TARGET_CLEAR_SETTLE_OBSERVATION_BUDGET
  SettleBudget,     \* POST_DAMAGE_TARGET_SETTLE_OBSERVATION_BUDGET
  MismatchBudget,   \* UNEXPECTED_TARGET_MISMATCH_OBSERVATION_BUDGET
  SeekBudget,       \* frames to find the corpse again
  ConfirmBudget,    \* LOOT_CONFIRMATION_OBSERVATIONS_PER_ATTEMPT
  MaxCycles,        \* MAX_TARGET_CYCLES
  MaxActions, MaxApproaches, MaxTurns, MaxFacings,  \* the budgets of the arm
  MaxLoots          \* the points of the corpse search

Booleans(f, names) == DOMAIN f = names /\ \A n \in names : f[n] \in BOOLEAN

ASSUME EncounterAssumption ==
  /\ \A o \in Options : Booleans(o, {"motion", "recover", "preserve", "advance"})
  /\ ReleaseFails \in BOOLEAN
  /\ {ChangeBudget, LossBudget, DamageBudget, ClearBudget, SettleBudget, MismatchBudget,
      MaxCycles, MaxActions, MaxApproaches, MaxTurns, MaxFacings, MaxLoots} \subseteq Nat
  /\ {SeekBudget, ConfirmBudget} \subseteq Nat \ {0}

VARIABLES
  opt,        \* how the encounter was built
  stage,      \* where its thread is
  mem,        \* what the loop remembers between two frames
  request,    \* the action on its way through the gate, or the one in recovery
  used,       \* the gate's counters
  bound,      \* _defeated_target_identity
  closed, cancelled,           \* _closed and the cancellation token of the gate
  motionHeld, motionCancelled, \* the motion gateway: inputs held, its token
  stop,       \* where the takeover thread is
  keyDown,    \* the gate's sink holds an input
  seen,       \* frames of the present wait of the recovery
  outcome,    \* "none", "defeated" or "failed", and for whom
  subject,
  stuck,      \* history: some release failed
  witness,    \* history: the health in the frame that ended the fight
  waited,     \* history: frames in a row that waited for the same new unit
  victims     \* history: the units that were attacked

gate == <<used, bound, closed, cancelled, keyDown>>
motion == <<motionHeld, motionCancelled>>
result == <<outcome, subject, witness>>
vars == <<opt, stage, mem, request, gate, motion, stop, seen, result, stuck, waited, victims>>

NoBlow == [unit |-> NoUnit, kind |-> "none", health |-> Dead, seen |-> 0]
NoRequest == [action |-> "none", unit |-> NoUnit, health |-> Dead, sound |-> FALSE]

Blows == {"builder", "finisher", "lethal"}

\* The locals of run at its start. They are gone when it raises or returns.
NoMemory ==
  [target |-> NoUnit, health |-> Dead, progress |-> FALSE, settle |-> 0,
   observed |-> NoUnit, expected |-> FALSE, changes |-> 0, cycles |-> 0,
   visible |-> NoUnit, loss |-> 0, point |-> FALSE,
   stranger |-> NoUnit, strikes |-> 0, pending |-> NoBlow]

Init ==
  /\ opt \in Options
  /\ stage = "frame"
  /\ mem = NoMemory
  /\ request = NoRequest
  /\ used = [actions |-> 0, approaches |-> 0, turns |-> 0, facings |-> 0, loots |-> 0]
  /\ bound = NoUnit /\ closed = FALSE /\ cancelled = FALSE /\ keyDown = FALSE
  /\ motionHeld = FALSE /\ motionCancelled = FALSE
  /\ stop = "armed"
  /\ seen = 0 /\ outcome = "none" /\ subject = NoUnit
  /\ stuck = FALSE /\ waited = 0 /\ victims = {}
  /\ witness = Dead

-----------------------------------------------------------------------------
(* What the gate asks of an action and the frame it was decided on.        *)

\* Fault: any corpse will do.
AnyCorpse(f, unit) == Corpse(f) /\ f.kind # "player" /\ ~f.combat

\* The corpse recovery looks for.
ExactCorpse(f, unit) == Corpse(f) /\ f.unit = unit /\ f.kind # "player" /\ ~f.combat

\* The conditions of _execute_single_flight. corpse is the bound defeated unit;
\* the retreat the policy asks for has a control that is not allowed.
GateAccepts(action, f, corpse) ==
  /\ f.player = "well"
  /\ used.actions < MaxActions
  /\ CASE action = "select" -> ~f.combat
       [] action = "reselect" -> ~f.combat /\ ~(Corpse(f) /\ f.unit = corpse)
       [] action = "loot" -> ExactCorpse(f, corpse) /\ used.loots < MaxLoots
       [] action = "acquire" -> Empty(f)
       [] action \in {"click", "face"} -> Empty(f) /\ ~f.combat
       [] action = "scan" -> Empty(f) /\ ~f.combat /\ used.turns < MaxTurns
       [] action = "advance" -> Corpse(f) /\ f.kind # "player" /\ ~f.combat
       [] action = "cycle" -> /\ Live(f) /\ f.kind \in {"hostile", "risky"} /\ ~f.combat
                              /\ \/ used.approaches >= MaxApproaches
                                 \/ used.turns >= MaxTurns
                                 \/ f.kind = "risky"
       [] action = "approach" -> Live(f) /\ Fit(f) /\ used.approaches < MaxApproaches
       [] action = "search" -> Live(f) /\ Fit(f) /\ used.turns < MaxTurns
       [] action = "turn" -> Live(f) /\ Fit(f) /\ used.facings < MaxFacings
       [] action \in Abilities \cup {"orbit"} -> Live(f) /\ Fit(f)
       [] OTHER -> FALSE

Request(action, f, corpse) ==
  [action |-> action, unit |-> f.unit, health |-> f.health,
   sound |-> GateAccepts(action, f, corpse)]

-----------------------------------------------------------------------------
(* How a step of the encounter's thread ends.                              *)

\* Something raised: the locals are gone, and what is left is to close.
Fail ==
  /\ stage' = "closing" /\ outcome' = "failed"
  /\ mem' = NoMemory /\ request' = NoRequest /\ seen' = 0 /\ waited' = 0
  /\ UNCHANGED <<subject, witness>>

\* The loop goes on with the next frame.
Wait(m) ==
  /\ mem' = m /\ waited' = 0
  /\ UNCHANGED <<stage, request, seen, result>>

\* An action is handed to the gate.
Act(m, r) ==
  /\ mem' = m /\ request' = r /\ stage' = "admit" /\ seen' = 0 /\ waited' = 0
  /\ UNCHANGED result

\* _complete_with_recovery up to the binding of the defeated unit: the frame that
\* ended the fight decides whether the corpse has to be selected first. A frame in
\* combat gets no further than the binding: its request is not sound.
Defeat(f, unit) ==
  /\ subject' = unit /\ witness' = f.health
  /\ mem' = NoMemory /\ seen' = 0 /\ waited' = 0
  /\ IF opt.recover
     THEN /\ stage' = "bind" /\ outcome' = outcome
          /\ request' = Request(IF ExactCorpse(f, unit) THEN "loot" ELSE "select", f, unit)
     ELSE stage' = "closing" /\ outcome' = "defeated" /\ request' = NoRequest

-----------------------------------------------------------------------------
(* Motion follows the frame before anything else looks at it.              *)

\* motion_safe: the unit of the frame is the one the encounter is about.
AboutUnit(unit) ==
  /\ mem.target \in {NoUnit, unit}
  /\ mem.observed = NoUnit \/ (~mem.expected /\ mem.observed = unit)
  /\ mem.pending.unit \in {NoUnit, unit}

\* Fault: motion follows the dead as well.
MotionSafeDead(f) == Fit(f) /\ f.player = "well" /\ AboutUnit(f.unit)

MotionSafe(f) == Live(f) /\ Fit(f) /\ f.player = "well" /\ AboutUnit(f.unit)

\* Fault: an update that does not look at its token.
MotionFollowsAlways(f) ==
  CASE ~opt.motion -> UNCHANGED motionHeld
    [] opt.motion /\ MotionSafe(f) -> motionHeld' \in BOOLEAN
    [] OTHER -> motionHeld' = FALSE

\* A safe frame updates the motion, which may hold inputs or none; any other
\* releases it.
MotionFollows(f) ==
  CASE ~opt.motion -> UNCHANGED motionHeld
    [] opt.motion /\ MotionSafe(f) -> ~motionCancelled /\ motionHeld' \in BOOLEAN
    [] OTHER -> motionHeld' = FALSE

\* The release of the motion gateway; a backend that fails leaves the inputs held.
MotionReleaseFails ==
  /\ ReleaseFails /\ motionHeld
  /\ motionHeld' = TRUE /\ stuck' = TRUE

\* The update raises: cancelled, refused, or an obstacle that no motion passes.
MotionRaises ==
  /\ stage = "frame" /\ opt.motion
  /\ \/ /\ \E unit \in Units : AboutUnit(unit)
        /\ UNCHANGED stuck
        /\ motionHeld' \in (IF motionCancelled THEN {motionHeld, FALSE} ELSE BOOLEAN)
     \/ MotionReleaseFails
  /\ Fail
  /\ UNCHANGED <<opt, gate, motionCancelled, stop, victims>>

-----------------------------------------------------------------------------
(* The loop body, in the order of its questions about a frame f. spent says *)
(* that f shows the cost of a builder.                                      *)

Blow == mem.pending

BlowSeen(f, spent) ==
  f.unit = Blow.unit /\ (f.health < Blow.health \/ (Blow.kind = "builder" /\ spent))

\* The unit that was struck is not selected any more: a kill, a moment to wait
\* for the end of combat, or an error.
LikelyKill == Blow.kind = "lethal" \/ mem.progress

BlowGone(f) ==
  /\ Blow # NoBlow /\ f.unit # Blow.unit
  /\ LET kill == /\ Alive(f) /\ ~f.combat
                 /\ \/ opt.recover \/ Blow.kind = "lethal"
                    \/ Empty(f) /\ mem.progress
         settles == Empty(f) /\ Alive(f) /\ f.combat /\ LikelyKill /\ Blow.seen < ClearBudget
     IN  \/ kill /\ Defeat(f, Blow.unit)
         \/ settles /\ Wait([mem EXCEPT !.pending.seen = @ + 1])
         \/ ~kill /\ ~settles /\ Fail

\* The struck unit shows no damage: wait. Past the budget the blow may have missed,
\* if the fight is on, or it is an error. An auto-attack that is current counts as a
\* fight: it is when a frame offers a blow, is not when one offers the attack, and may
\* be in the others.
BlowUnseen(f, spent) ==
  /\ Blow # NoBlow /\ f.unit = Blow.unit /\ ~BlowSeen(f, spent)
  /\ IF Blow.seen < DamageBudget
     THEN Wait([mem EXCEPT !.pending.seen = @ + 1])
     ELSE \/ /\ f.combat \/ f.sees # "attack"
             /\ Wait([mem EXCEPT !.pending = NoBlow])
          \/ ~f.combat /\ f.sees \notin Blows /\ Fail

PastBlow(f, spent) == Blow = NoBlow \/ BlowSeen(f, spent)

\* Once damage was seen, the loop can wait for a kill to show.
CanSettle(m) == m.progress /\ m.settle < SettleBudget
Settle(m) == [m EXCEPT !.settle = @ + 1]

\* The locked unit is not selected any more, and nothing is.
Gone(f) == mem.target # NoUnit /\ Empty(f)

TargetGone(f) ==
  /\ Gone(f)
  /\ LET kill == ~f.combat /\ mem.progress /\ mem.health < Full
     IN  \/ kill /\ Defeat(f, mem.target)
         \/ ~kill /\ CanSettle(mem) /\ Wait(Settle(mem))
         \/ ~kill /\ ~CanSettle(mem) /\ Fail

\* The gate was asked for another unit, and it is not there yet.
Missing(f) == mem.expected /\ (Empty(f) \/ f.unit = mem.observed)

ChangeMissing(f) ==
  /\ ~Gone(f) /\ Missing(f)
  /\ IF mem.changes < ChangeBudget
     THEN Wait([mem EXCEPT !.pending = NoBlow, !.changes = @ + 1])
     ELSE Fail

\* What is remembered of a frame that answers for the blow and the change.
Changed(f) ==
  IF mem.expected
  THEN [mem EXCEPT !.pending = NoBlow, !.observed = f.unit, !.expected = FALSE, !.changes = 0]
  ELSE [mem EXCEPT !.pending = NoBlow]

Arrived(f) == ~Gone(f) /\ ~Missing(f)

\* One more frame in a row with this unit in place of the remembered one.
Strike(m, unit) ==
  [m EXCEPT !.stranger = unit, !.strikes = IF m.stranger = unit THEN @ + 1 ELSE 1]

\* Wait because of it; waited counts how often in a row.
WaitForStranger(m, unit) ==
  /\ mem' = m
  /\ waited' = IF mem.stranger # unit THEN 1
               ELSE IF waited > MismatchBudget THEN waited ELSE waited + 1
  /\ UNCHANGED <<stage, request, seen, result>>

\* Fault: a unit that was asked for is never strange.
StrangeUnlessAsked(f) == Live(f) /\ mem.target \notin {NoUnit, f.unit} /\ ~mem.expected

\* The fight is bound to another unit.
Strange(f) == Live(f) /\ mem.target \notin {NoUnit, f.unit}

StrangeUnit(f) ==
  /\ Strange(f)
  /\ LET m == Strike(Changed(f), f.unit)
     IN  IF m.strikes <= MismatchBudget THEN WaitForStranger(m, f.unit) ELSE Fail

\* Nothing was struck yet, and the unit is another than the one observed. A hostile
\* one is accepted at once when it started a fight, and otherwise once it is stable:
\* counted after the count was reset for a unit that is not strange.
Calm(f) == IF Live(f) THEN [Changed(f) EXCEPT !.stranger = NoUnit, !.strikes = 0]
           ELSE Changed(f)

Moved(f) == Live(f) /\ Changed(f).observed \notin {NoUnit, f.unit}
Reactive(f) == mem.target = NoUnit /\ f.combat /\ f.kind = "hostile"
Stable(f) == mem.target = NoUnit /\ ~f.combat /\ f.kind = "hostile"
Rebinding(f) == Stable(f) /\ Moved(f) /\ Strike(Calm(f), f.unit).strikes <= MismatchBudget

RebindWaits(f) ==
  /\ ~Strange(f) /\ Rebinding(f)
  /\ WaitForStranger(Strike(Calm(f), f.unit), f.unit)

RebindRefused(f) ==
  /\ ~Strange(f) /\ Moved(f) /\ ~Stable(f) /\ ~Reactive(f)
  /\ Fail

Known(f) ==
  /\ ~Strange(f) /\ ~Rebinding(f)
  /\ Moved(f) => Stable(f) \/ Reactive(f)

\* The unit observed, its health when it is the locked one, and its bearing.
Bound(f) ==
  CASE ~Live(f) -> [Calm(f) EXCEPT !.visible = NoUnit, !.loss = 0]
    [] Live(f) /\ Moved(f) -> [Calm(f) EXCEPT !.observed = f.unit, !.visible = NoUnit, !.loss = 0]
    [] OTHER -> [Calm(f) EXCEPT !.observed = f.unit]

Followed(f) ==
  IF Live(f) /\ f.unit = mem.target
  THEN [Bound(f) EXCEPT !.progress = @ \/ f.health < mem.health, !.health = f.health]
  ELSE Bound(f)

Tracked(f) ==
  IF Visible(f) /\ Live(f) THEN [Followed(f) EXCEPT !.visible = f.unit, !.loss = 0]
  ELSE Followed(f)

BriefLoss(f) ==
  Live(f) /\ f.sees = "lost" /\ Bound(f).visible = f.unit /\ Bound(f).loss < LossBudget

BearingLost(f) ==
  /\ BriefLoss(f)
  /\ Wait([Followed(f) EXCEPT !.loss = @ + 1])

-----------------------------------------------------------------------------
(* The decision and the limits the encounter puts on it.                   *)

\* A point that may be clicked is forgotten by any frame that does not show one.
Considered(f) == IF Empty(f) /\ f.sees = "point" THEN Tracked(f)
                 ELSE [Tracked(f) EXCEPT !.point = FALSE]

\* What the loop does itself when nothing is selected: turn to a candidate, click
\* it, or scan while there is none.
Seek(f) ==
  CASE f.sees = "edge" -> "face"
    [] f.sees = "point" -> "click"
    [] f.sees = "nothing" /\ used.turns < MaxTurns ->
         IF f.player = "well" /\ ~f.combat THEN "scan" ELSE "stop"
    [] OTHER -> "stop"

Proposal(f) ==
  CASE opt.advance /\ mem.target = NoUnit /\ Corpse(f) /\ ~f.combat -> "advance"
    [] Empty(f) /\ f.sees # "centred" -> Seek(f)
    [] OTHER -> Decide(f, opt.motion)

\* Try another unit, if this one was not asked for and cycles are left.
Another == IF opt.preserve \/ mem.cycles >= MaxCycles THEN "stop" ELSE "cycle"

SettleOrStop(f) == IF f.combat /\ CanSettle(Tracked(f)) THEN "settle" ELSE "stop"

Decision(f) ==
  LET a == Proposal(f)
  IN  CASE a = "reject" -> IF mem.target = NoUnit /\ ~f.combat THEN Another ELSE "stop"
        [] a = "approach" /\ used.approaches >= MaxApproaches -> Another
        [] a \in {"turn", "face"} /\ used.facings >= MaxFacings -> SettleOrStop(f)
        [] a = "search" /\ used.turns >= MaxTurns ->
             IF f.combat THEN SettleOrStop(f) ELSE Another
        [] OTHER -> a

\* The loop waits, stops, hands over to recovery or acts; d is the decision. A
\* click needs the same point in two frames.
DecideWaits(f, d) ==
  \/ d = "hold" /\ Wait(Considered(f))
  \/ d = "settle" /\ Wait(Settle(Considered(f)))
  \/ d = "click" /\ Wait([Considered(f) EXCEPT !.point = TRUE])

DecideStops(d) == d = "stop" /\ Fail

DecideDefeated(f, d) ==
  d = "defeated" /\ Defeat(f, IF mem.target = NoUnit THEN f.unit ELSE mem.target)

DecideActs(f, d) ==
  /\ d \notin {"hold", "settle", "stop", "defeated"}
  /\ d = "click" => mem.point
  /\ Act([Considered(f) EXCEPT !.point = FALSE], Request(d, f, bound))

Decided(f) ==
  /\ ~BriefLoss(f)
  /\ LET d == Decision(f)
     IN  DecideWaits(f, d) \/ DecideStops(d) \/ DecideDefeated(f, d) \/ DecideActs(f, d)

LoopBody ==
  /\ stage = "frame"
  /\ \E f \in Frames :
     \E spent \in (IF Blow.kind = "builder" /\ f.unit = Blow.unit THEN BOOLEAN ELSE {FALSE}) :
       /\ \/ BlowGone(f) \/ BlowUnseen(f, spent)
          \/ /\ PastBlow(f, spent)
             /\ \/ TargetGone(f) \/ ChangeMissing(f)
                \/ /\ Arrived(f)
                   /\ \/ StrangeUnit(f) \/ RebindWaits(f) \/ RebindRefused(f)
                      \/ Known(f) /\ (BearingLost(f) \/ Decided(f))
       /\ MotionFollows(f)
  /\ UNCHANGED <<opt, gate, motionCancelled, stop, stuck, victims>>

\* Deadlines, a source that does not advance, a malformed frame: at any frame.
Waits == {"frame", "restore", "confirm"}

Expire ==
  /\ stage \in Waits /\ Fail
  /\ UNCHANGED <<opt, gate, motion, stop, stuck, victims>>

\* The operator's checkpoint: RUN does nothing, PAUSE releases the motion and comes
\* back, STOP releases it and raises, and so does a release that fails.
Checkpoint ==
  /\ stage \in Waits
  /\ \/ /\ motionHeld' = FALSE /\ UNCHANGED stuck
        /\ \/ Fail
           \/ UNCHANGED <<stage, mem, request, seen, result, waited>>
     \/ opt.motion /\ MotionReleaseFails /\ Fail
  /\ UNCHANGED <<opt, gate, motionCancelled, stop, victims>>

-----------------------------------------------------------------------------
(* The gate: execute of CombatActionGateway.                               *)

OnlyGate == UNCHANGED <<opt, mem, motion, stop, seen, result, waited>>

\* The checks of the frame, the arm and the budgets, with the last look at the
\* state before the input. A refusal changes nothing in the gate.
Admit ==
  /\ stage = "admit" /\ ~closed /\ ~cancelled /\ request.sound
  /\ stage' = "apply"
  /\ OnlyGate /\ UNCHANGED <<request, gate, stuck, victims>>

Refuse ==
  /\ stage = "admit" /\ Fail
  /\ UNCHANGED <<opt, gate, motion, stop, stuck, victims>>

Attacks == Blows \cup {"attack"}

\* The sink presses nothing once it is cancelled.
Press ==
  /\ stage = "apply" /\ ~cancelled
  /\ stage' = "held" /\ keyDown' = TRUE
  /\ victims' = IF request.action \in Attacks THEN victims \cup {request.unit} ELSE victims
  /\ OnlyGate /\ UNCHANGED <<request, used, bound, closed, cancelled, stuck>>

\* apply_bounded returns and release_all follows; or the apply raised, and then
\* the release; or the release raises, which closes the gate.
Lift ==
  /\ stage = "held" /\ stage' = "commit" /\ keyDown' = FALSE
  /\ OnlyGate /\ UNCHANGED <<request, used, bound, closed, cancelled, stuck, victims>>

ApplyRaises ==
  /\ stage \in {"apply", "held"} /\ Fail /\ keyDown' = FALSE
  /\ UNCHANGED <<opt, used, bound, closed, cancelled, motion, stop, stuck, victims>>

ReleaseRaises ==
  /\ stage \in {"apply", "held"} /\ ReleaseFails /\ Fail
  /\ keyDown' \in {keyDown, FALSE} /\ stuck' = TRUE
  /\ closed' = TRUE /\ cancelled' = TRUE
  /\ UNCHANGED <<opt, used, bound, motion, stop, victims>>

\* A takeover, or an action that took longer than its envelope, is not counted.
Spoil ==
  /\ stage = "commit" /\ Fail
  /\ IF cancelled THEN UNCHANGED <<closed, cancelled>> ELSE closed' = TRUE /\ cancelled' = TRUE
  /\ UNCHANGED <<opt, used, bound, keyDown, motion, stop, stuck, victims>>

Selects == {"click", "acquire", "cycle", "advance"}

Counted(action) ==
  LET u == [used EXCEPT !.actions = @ + 1]
  IN  CASE action = "approach" -> [u EXCEPT !.approaches = @ + 1, !.turns = 0]
        [] action \in {"scan", "search"} -> [u EXCEPT !.turns = @ + 1, !.facings = 0]
        [] action \in {"turn", "face"} -> [u EXCEPT !.turns = 0, !.facings = @ + 1]
        [] action \in Selects -> [u EXCEPT !.approaches = 0, !.turns = 0, !.facings = 0]
        [] action = "loot" -> [u EXCEPT !.loots = @ + 1]
        [] OTHER -> u

\* What the loop remembers of an action that was executed.
Remembered(r) ==
  CASE r.action \in {"cycle", "advance"} ->
         [mem EXCEPT !.cycles = @ + 1, !.expected = TRUE, !.changes = 0,
                     !.visible = NoUnit, !.loss = 0]
    [] r.action \in {"click", "acquire"} -> [mem EXCEPT !.expected = TRUE, !.changes = 0]
    [] r.action = "attack" -> [mem EXCEPT !.target = r.unit, !.health = r.health]
    [] r.action \in Blows ->
         [mem EXCEPT !.target = r.unit, !.health = r.health,
            !.pending = [unit |-> r.unit, kind |-> r.action, health |-> r.health, seen |-> 0]]
    [] OTHER -> mem

Commit ==
  /\ stage = "commit" /\ ~closed /\ ~cancelled
  /\ used' = Counted(request.action) /\ mem' = Remembered(request)
  /\ stage' = CASE request.action \in {"select", "reselect"} -> "restore"
                [] request.action = "loot" -> "confirm"
                [] OTHER -> "frame"
  /\ request' = NoRequest
  /\ UNCHANGED <<opt, bound, closed, cancelled, keyDown, motion, stop, seen, result,
                 stuck, waited, victims>>

-----------------------------------------------------------------------------
(* Recovery: _complete_with_recovery from the binding on.                  *)

Bind ==
  /\ stage = "bind" /\ ~closed /\ ~cancelled /\ bound \in {NoUnit, subject}
  /\ bound' = subject /\ stage' = "admit"
  /\ OnlyGate /\ UNCHANGED <<request, used, closed, cancelled, keyDown, stuck, victims>>

BindRefused ==
  /\ stage = "bind" /\ (closed \/ cancelled) /\ Fail
  /\ UNCHANGED <<opt, gate, motion, stop, stuck, victims>>

OnlyRecovery == UNCHANGED <<opt, gate, motion, stop, stuck, victims>>

\* The next point of the corpse search, while one is left.
LootAgain(f) ==
  IF used.loots < MaxLoots THEN Act(mem, Request("loot", f, subject)) ELSE Fail

\* After last-hostile the exact corpse has to come back within some frames.
Restore ==
  /\ stage = "restore"
  /\ \E f \in Frames :
       IF ExactCorpse(f, subject) THEN LootAgain(f)
       ELSE IF seen + 1 < SeekBudget
            THEN seen' = seen + 1 /\ UNCHANGED <<stage, mem, request, result, waited>>
            ELSE Fail
  /\ OnlyRecovery

\* After a click LOOT_OPENED has to be seen. A miss that entered combat stops; one
\* that changed the selection asks for the corpse again, then the next point.
Confirm ==
  /\ stage = "confirm"
  /\ \/ /\ stage' = "closing" /\ outcome' = "defeated" /\ seen' = 0
        /\ UNCHANGED <<mem, request, subject, witness, waited>>
     \/ /\ seen + 1 < ConfirmBudget
        /\ seen' = seen + 1 /\ UNCHANGED <<stage, mem, request, result, waited>>
     \/ /\ seen + 1 >= ConfirmBudget
        /\ \E f \in Frames :
             \/ ExactCorpse(f, subject) /\ LootAgain(f)
             \/ ~ExactCorpse(f, subject) /\ f.combat /\ Fail
             \/ /\ ~ExactCorpse(f, subject) /\ ~f.combat
                /\ Act(mem, Request("reselect", f, subject))
  /\ OnlyRecovery

-----------------------------------------------------------------------------
(* The end of the encounter, and the takeover.                             *)

\* Fault: the motion is cancelled but not released.
CloseMotionQuietly ==
  /\ stage = "closing" /\ stage' = "closeGate"
  /\ motionCancelled' = (motionCancelled \/ opt.motion)
  /\ UNCHANGED <<motionHeld, stuck>>
  /\ UNCHANGED <<opt, mem, request, gate, stop, seen, result, waited, victims>>

\* motion.close, in the finally of run.
CloseMotion ==
  /\ stage = "closing" /\ stage' = "closeGate"
  /\ motionCancelled' = (motionCancelled \/ opt.motion)
  /\ \/ motionHeld' = FALSE /\ UNCHANGED stuck
     \/ MotionReleaseFails
  /\ UNCHANGED <<opt, mem, request, gate, stop, seen, result, waited, victims>>

\* gateway.close, which run reaches unless motion.close raised, and its caller in
\* any case. A gate that is closed already releases nothing.
CloseGate ==
  /\ stage = "closeGate" /\ stage' = "over"
  /\ closed' = TRUE /\ cancelled' = TRUE
  /\ \/ keyDown' = (closed /\ keyDown) /\ UNCHANGED stuck
     \/ ~closed /\ ReleaseFails /\ keyDown' = keyDown /\ stuck' = TRUE
  /\ UNCHANGED <<opt, mem, request, used, bound, motion, stop, seen, result, waited, victims>>

OnlyTakeover == UNCHANGED <<opt, stage, mem, request, used, bound, closed, seen, result,
                            waited, victims>>

\* cancel_for_manual_takeover of the motion, then of the gate whatever the first
\* did: its token, then the release of its sink.
TakeMotion ==
  /\ stop = "armed" /\ stage # "over" /\ stop' = "motion"
  /\ motionCancelled' = TRUE
  /\ \/ motionHeld' = FALSE /\ UNCHANGED stuck
     \/ MotionReleaseFails
  /\ UNCHANGED <<cancelled, keyDown>> /\ OnlyTakeover

TakeGate ==
  /\ stop = "motion" /\ stop' = "release" /\ cancelled' = TRUE
  /\ UNCHANGED <<motion, keyDown, stuck>> /\ OnlyTakeover

TakeRelease ==
  /\ stop = "release" /\ stop' = "done"
  /\ \/ keyDown' = FALSE /\ UNCHANGED stuck
     \/ ReleaseFails /\ keyDown' = keyDown /\ stuck' = TRUE
  /\ UNCHANGED <<motion, cancelled>> /\ OnlyTakeover

Takeover == TakeMotion \/ TakeGate \/ TakeRelease

Gate == Admit \/ Refuse \/ Press \/ Lift \/ ApplyRaises \/ ReleaseRaises \/ Spoil \/ Commit
Recovery == Bind \/ BindRefused \/ Restore \/ Confirm

Next == LoopBody \/ MotionRaises \/ Expire \/ Checkpoint \/ Gate \/ Recovery \/ CloseMotion \/ CloseGate \/ Takeover

Spec == Init /\ [][Next]_vars

-----------------------------------------------------------------------------
(* Properties.                                                             *)

Selected == Units \cup {NoUnit}
Healths == {Full, Hurt, Drained, Dead}
Recoveries == {"select", "reselect", "loot"}
Actions == Attacks \cup Selects \cup Recoveries \cup
  {"none", "approach", "search", "turn", "orbit", "face", "scan", "retreat"}
Through == {"admit", "apply", "held", "commit"}

Memories ==
  [target : Selected, health : Healths, progress : BOOLEAN, settle : 0..SettleBudget,
   observed : Selected, expected : BOOLEAN, changes : 0..ChangeBudget, cycles : Nat,
   visible : Selected, loss : 0..LossBudget, point : BOOLEAN,
   stranger : Selected, strikes : 0..MismatchBudget,
   pending : [unit : Selected, kind : Blows \cup {"none"}, health : Healths,
              seen : 0..(DamageBudget + ClearBudget)]]

Requests == [action : Actions, unit : Selected, health : Healths, sound : BOOLEAN]

Counters ==
  [actions : 0..MaxActions, approaches : 0..MaxApproaches, turns : 0..MaxTurns,
   facings : 0..MaxFacings, loots : 0..MaxLoots]

\* Every variable has its type, and every budget of the loop and of the arm is kept:
\* the counters of combat_gateway.py:261-265 and 1216-1232 never pass their limits.
TypeOK ==
  /\ opt \in Options
  /\ stage \in Waits \cup Through \cup {"bind", "closing", "closeGate", "over"}
  /\ mem \in Memories /\ request \in Requests /\ used \in Counters
  /\ bound \in Selected /\ closed \in BOOLEAN /\ cancelled \in BOOLEAN
  /\ motionHeld \in BOOLEAN /\ motionCancelled \in BOOLEAN
  /\ stop \in {"armed", "motion", "release", "done"} /\ keyDown \in BOOLEAN
  /\ seen \in 0..(SeekBudget + ConfirmBudget)
  /\ outcome \in {"none", "defeated", "failed"} /\ subject \in Selected
  /\ stuck \in BOOLEAN /\ witness \in Healths
  /\ waited \in 0..(MismatchBudget + 1) /\ victims \subseteq Units

\* An encounter attacks one unit at most, whatever is selected in its place, asked
\* for by a cycle or offered by the client while it runs.
OneVictim == \A v, w \in victims : v = w

\* Once a unit was attacked, no input steers to, attacks, replaces or loots another.
\* Only the search for the last defeated unit may start from a frame of another.
FollowsItsVictim ==
  stage = "held" /\ request.action \notin {"select", "reselect"} /\ request.unit # NoUnit
    => victims \subseteq {request.unit}

\* When the takeover is done nothing is held and nothing comes down any more, in the
\* middle of an action or of a frame of motion, unless the backend failed to release.
TakeoverStops == stop = "done" /\ (keyDown \/ motionHeld) => stuck

\* An encounter that is over left a closed gate and nothing held, however it ended,
\* unless the backend failed to release.
OverIsReleased ==
  stage = "over" => /\ closed /\ cancelled /\ (opt.motion => motionCancelled)
                    /\ keyDown \/ motionHeld => stuck

\* Recovery clicks while no motion input is held: every frame that ends a fight made
\* the motion let go first. A unit without health that is not marked dead is the one
\* exception: motion still follows it when the policy calls it defeated.
RecoveryStandsStill ==
  stage \in {"bind", "restore", "confirm"} \/ (stage \in Through /\ request.action \in Recoveries)
    => ~motionHeld \/ witness = Drained

\* A unit that takes the place of another is waited for MismatchBudget frames in a row
\* at most before it is accepted or the encounter fails: three consecutive
\* observations, says the comment at combat_gateway.py:88-92.
PatienceIsBounded == waited <= MismatchBudget
=============================================================================
