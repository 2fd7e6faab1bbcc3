--------------------------- MODULE MouseTurnSink ---------------------------
(***************************************************************************)
(* The mouse sink of execution/windows_mouse_turn.py and the combat sink   *)
(* that puts it beside the keyboard.  A turn presses the turn-mode button, *)
(* drags out, back and across, and releases it; a click holds the          *)
(* turn-mode or the select-mode button over a point.  Both borrow the      *)
(* operator's cursor.  Any thread may call release_all meanwhile.          *)
(*                                                                         *)
(* One step is one critical section of the state lock or one call to the   *)
(* backend; the submission lock spans several and is subLock.  Time, the   *)
(* cancellation token and the focus of the window are choices: a wait may  *)
(* be over at any time, and any check may fail at any time, after which    *)
(* the apply makes no further check.  The keyboard sink is the port        *)
(* InputSink over one control.                                             *)
(***************************************************************************)
EXTENDS Integers, FiniteSets

CONSTANTS
  Kinds,           \* the primitives asked for: "turn", "interact", "select", "key"
  Appliers, Releasers,   \* the threads
  NoOne,           \* no thread, no generation, no button
  MaxGeneration,   \* bound: release_all begins at most while gen is below this
  BackendFails     \* may the backend fail to acknowledge a submission?

Buttons == {"turnMode", "selectMode"}
Inputs == Buttons \cup {"keyboard"}

ASSUME MouseAssumption ==
  /\ Kinds \subseteq {"turn", "interact", "select", "key"}
  /\ MaxGeneration \in Nat /\ BackendFails \in BOOLEAN
  /\ Appliers \cap Releasers = {}
  /\ NoOne \notin Appliers \cup Releasers \cup Nat \cup Inputs

VARIABLES
  owned,      \* the inputs remembered as held: _turn_mode_owned, _select_mode_owned
  gen,        \* _release_generation
  activeGen,  \* _active_generation
  keyLive,    \* the keyboard sink has an apply that was not revoked
  closed,     \* the sinks whose _closed is set, of "mouse" and "keyboard"
  applyLock,  \* the holder of _apply_lock
  subLock,    \* the holder of _submission_lock
  pc,         \* where each thread is
  why,        \* what the release a thread performs is for
  kind,       \* the primitive of an apply; "release" or "close"
  lifting,    \* the input a thread has taken over and not yet lifted
  placed,     \* cursor_placement is not None
  down,       \* the inputs physically held
  cursor,     \* the cursor is where the operator left it
  pitch,      \* excursions of the turn's drag that were not taken back
  turned,     \* history: the drag across was made with the button down
  stale,      \* history: the apply began while an earlier release was lifting
  unlifted,   \* history: a release was refused
  stuck,      \* history: the inputs their last release left held
  unrestored  \* history: the cursor could not be put back

locks == <<applyLock, subLock>>
sink == <<owned, gen, activeGen, keyLive, closed>>
local == <<pc, why, kind, lifting, placed>>
mouse == <<down, cursor, pitch, turned>>
history == <<stale, unlifted, stuck, unrestored>>
vars == <<sink, locks, local, mouse, history>>

Threads == Appliers \cup Releasers

Init ==
  /\ owned = {} /\ gen = 0 /\ activeGen = NoOne /\ keyLive = FALSE /\ closed = {}
  /\ applyLock = NoOne /\ subLock = NoOne
  /\ pc = [t \in Threads |-> "idle"]
  /\ why = [t \in Threads |-> "cleanup"]
  /\ kind = [t \in Threads |-> "turn"]
  /\ lifting = [t \in Threads |-> NoOne]
  /\ placed = [t \in Threads |-> FALSE]
  /\ down = {} /\ cursor = TRUE /\ pitch = 0 /\ turned = FALSE
  /\ stale = FALSE /\ unlifted = FALSE /\ stuck = {} /\ unrestored = FALSE

Goto(t, l) == pc' = [pc EXCEPT ![t] = l]

ReleaseFor(t, reason) ==
  /\ Goto(t, "claim")
  /\ why' = [why EXCEPT ![t] = reason]

\* Every submission is acknowledged with exactly 1, or it is not.
Acknowledgements == IF BackendFails THEN BOOLEAN ELSE {TRUE}

\* What a submission that sets a variable to new may leave, when old is there.
Leaves(ack, new, old) == IF ack THEN {new} ELSE {new, old}

-----------------------------------------------------------------------------
(* apply_bounded and _apply_visible_click.                                 *)

ButtonOf(a) == IF kind[a] = "select" THEN "selectMode" ELSE "turnMode"

\* What _is_current_locked reads of the sink. The rest of _assert_current and
\* _assert_exact_hot (token, deadline, focus) may fail whenever they are asked.
Unrevoked == "mouse" \notin closed /\ activeGen = gen

\* The gateway applies one primitive at a time (SingleFlight of ExecutionGateway).
Free == \A b \in Appliers : pc[b] = "idle"

\* A turn or click is admitted: the locks are taken without waiting, or it raises.
Begin(a) ==
  /\ Free /\ applyLock = NoOne
  /\ "mouse" \notin closed /\ activeGen = NoOne
  /\ \E k \in Kinds \ {"key"} : kind' = [kind EXCEPT ![a] = k]
  /\ applyLock' = a /\ activeGen' = gen
  /\ Goto(a, "validate")
  /\ turned' = FALSE /\ pitch' = 0
  /\ stale' = (\E t \in Threads : lifting[t] # NoOne)
  /\ UNCHANGED <<owned, gen, keyLive, closed, subLock, why, lifting, placed,
                 down, cursor, unlifted, stuck, unrestored>>

\* A check between two backend calls goes on or to the exception handler. A wait
\* repeats it until its time is over, which here may be at once.
Check(a, at, next) ==
  /\ pc[a] = at
  /\ \/ Unrevoked /\ Goto(a, next) /\ UNCHANGED why
     \/ ReleaseFor(a, "cleanup")
  /\ UNCHANGED <<sink, locks, kind, lifting, placed, mouse, history>>

\* _validate and the hot check may raise; then the cursor is borrowed.
Validate(a) ==
  /\ pc[a] = "validate"
  /\ \/ /\ ReleaseFor(a, "cleanup")
        /\ UNCHANGED <<placed, cursor>>
     \/ /\ Unrevoked
        /\ placed' = [placed EXCEPT ![a] = TRUE] /\ cursor' = FALSE
        /\ Goto(a, "submit") /\ UNCHANGED why
  /\ UNCHANGED <<sink, locks, kind, lifting, down, pitch, turned, history>>

\* _turn_mode_down or _select_mode_down up to its submission. The envelope may
\* have become too short for the hold before the deadline is reached.
Submit(a) ==
  /\ pc[a] = "submit" /\ subLock = NoOne
  /\ \/ /\ ReleaseFor(a, "cleanup") /\ UNCHANGED subLock
     \/ /\ Unrevoked /\ subLock' = a
        /\ Goto(a, "press") /\ UNCHANGED why
  /\ UNCHANGED <<sink, applyLock, kind, lifting, placed, mouse, history>>

\* Acknowledged or not, the button is owned from now on. The release that
\* follows a refused press is made with the submission lock still held.
Press(a) ==
  /\ pc[a] = "press"
  /\ \E ack \in Acknowledgements :
       /\ down' \in Leaves(ack, down \cup {ButtonOf(a)}, down)
       /\ owned' = owned \cup {ButtonOf(a)}
       /\ IF ack
          THEN subLock' = NoOne /\ Goto(a, "pressed") /\ UNCHANGED why
          ELSE UNCHANGED subLock /\ ReleaseFor(a, "unwind")
  /\ UNCHANGED <<gen, activeGen, keyLive, closed, applyLock, kind, lifting, placed, cursor, pitch,
                 turned, history>>

\* After the press a turn waits for its settle time, a click for its whole hold.
Pressed(a) == kind[a] = "turn" /\ Check(a, "pressed", "drag")

-----------------------------------------------------------------------------
(* _relative_move: out, a pause the window can see, back and across, all   *)
(* under the submission lock.                                              *)

\* Fault: a drag that fails keeps the submission lock.
DraggedLocked(a, ack, next) ==
  IF ack
  THEN /\ Goto(a, next) /\ UNCHANGED why
       /\ subLock' = IF next = "moved" THEN NoOne ELSE a
  ELSE ReleaseFor(a, "cleanup") /\ subLock' = a

\* What one submission of the drag leads to: the next point, or the handler.
Dragged(a, ack, next) ==
  IF ack
  THEN /\ Goto(a, next) /\ UNCHANGED why
       /\ subLock' = IF next = "moved" THEN NoOne ELSE a
  ELSE ReleaseFor(a, "cleanup") /\ subLock' = NoOne

OnlyDrag == UNCHANGED <<sink, applyLock, kind, lifting, placed, down, cursor, history>>

Excursion(a) ==
  /\ pc[a] = "drag" /\ subLock = NoOne
  /\ \/ ReleaseFor(a, "cleanup") /\ UNCHANGED <<subLock, pitch>>
     \/ /\ Unrevoked
        /\ \E ack \in Acknowledgements :
             pitch' \in Leaves(ack, pitch + 1, pitch) /\ Dragged(a, ack, "pause")
  /\ UNCHANGED turned
  /\ OnlyDrag

\* The pause may end at a failed check; the excursion is then not taken back.
Pause(a) ==
  /\ pc[a] = "pause"
  /\ \/ Unrevoked /\ Dragged(a, TRUE, "back")
     \/ Dragged(a, FALSE, "back")
  /\ UNCHANGED <<pitch, turned>>
  /\ OnlyDrag

\* Fault: the drag goes across without coming back.
BackForgotten(a) ==
  /\ pc[a] = "back"
  /\ \E ack \in Acknowledgements : UNCHANGED pitch /\ Dragged(a, ack, "across")
  /\ UNCHANGED turned
  /\ OnlyDrag

Back(a) ==
  /\ pc[a] = "back"
  /\ \E ack \in Acknowledgements :
       pitch' \in Leaves(ack, pitch - 1, pitch) /\ Dragged(a, ack, "across")
  /\ UNCHANGED turned
  /\ OnlyDrag

Across(a) ==
  /\ pc[a] = "across"
  /\ \E ack \in Acknowledgements :
       turned' \in Leaves(ack, "turnMode" \in down, turned) /\ Dragged(a, ack, "moved")
  /\ UNCHANGED pitch
  /\ OnlyDrag

\* Fault: the cursor goes back before the button is released.
HoldPutsBack(a) ==
  /\ pc[a] = IF kind[a] = "turn" THEN "moved" ELSE "pressed"
  /\ \/ Unrevoked /\ ReleaseFor(a, "return") /\ cursor' = TRUE
     \/ ReleaseFor(a, "cleanup") /\ UNCHANGED cursor
  /\ UNCHANGED <<sink, locks, kind, lifting, placed, down, pitch, turned, history>>

\* The hold of the turn or click is over, or it failed: either way a release.
Hold(a) ==
  /\ pc[a] = IF kind[a] = "turn" THEN "moved" ELSE "pressed"
  /\ \/ Unrevoked /\ ReleaseFor(a, "return")
     \/ ReleaseFor(a, "cleanup")
  /\ UNCHANGED <<sink, locks, kind, lifting, placed, mouse, history>>

-----------------------------------------------------------------------------
(* _release_turn_mode and _release_select_mode, by whichever thread; the   *)
(* keyboard's release_all is the last part of the combat sink's.           *)

\* What the thread is to lift: its own button, or the stage of its release_all.
Target(t) ==
  IF why[t] \in Inputs THEN why[t]
  ELSE IF kind[t] = "key" THEN "keyboard" ELSE ButtonOf(t)

Revokes(t) == why[t] \in Buttons

ClaimWhen(t, free) ==
  /\ pc[t] = "claim" /\ free
  /\ gen' = IF Revokes(t) THEN gen + 1 ELSE gen
  /\ keyLive' = (keyLive /\ why[t] # "keyboard")
  /\ closed' = IF kind[t] = "close" /\ why[t] = "keyboard" THEN closed \cup {"keyboard"} ELSE closed
  /\ owned' = owned \ {Target(t)}
  /\ IF Target(t) \in owned
     THEN Goto(t, "up") /\ lifting' = [lifting EXCEPT ![t] = Target(t)]
     ELSE Goto(t, "released") /\ UNCHANGED lifting
  /\ UNCHANGED <<activeGen, locks, why, kind, placed, mouse, history>>

\* Fault: a release_all that revokes a press on its way.
ClaimAnyTime(t) == ClaimWhen(t, TRUE)

\* The button's flag is cleared before its up is sent. release_all waits for the
\* submission lock and starts a new generation, once per button.
Claim(t) == ClaimWhen(t, Revokes(t) => subLock = NoOne)

Up(t) ==
  /\ pc[t] = "up"
  /\ \E ack \in Acknowledgements :
       /\ down' \in Leaves(ack, down \ {lifting[t]}, down)
       /\ Goto(t, IF ack THEN "released" ELSE "refused")
       /\ lifting' = IF ack THEN [lifting EXCEPT ![t] = NoOne] ELSE lifting
       /\ unlifted' = (unlifted \/ ~ack)
       /\ stuck' = (stuck \ {lifting[t]}) \cup (down' \cap {lifting[t]})
  /\ UNCHANGED <<sink, locks, why, kind, placed, cursor, pitch, turned, stale,
                 unrestored>>

\* The next part of a release_all: both buttons, then the keyboard, whatever failed.
NextStage(t) ==
  IF why[t] = "turnMode" THEN "selectMode" ELSE "keyboard"

\* A refused release makes the button owned again, and raises.
AfterRelease(t) ==
  /\ pc[t] \in {"released", "refused"}
  /\ owned' = owned \cup IF pc[t] = "refused" THEN {lifting[t]} ELSE {}
  /\ lifting' = [lifting EXCEPT ![t] = NoOne]
  /\ subLock' = IF why[t] = "unwind" THEN NoOne ELSE subLock
  /\ \/ /\ why[t] = "keyboard" /\ Goto(t, "idle") /\ UNCHANGED why
     \/ /\ why[t] \in Buttons /\ ReleaseFor(t, NextStage(t))
     \/ /\ why[t] = "return" /\ pc[t] = "released" /\ Goto(t, "settleUp") /\ UNCHANGED why
     \/ /\ why[t] = "return" /\ pc[t] = "refused" /\ ReleaseFor(t, "cleanup")
     \/ /\ why[t] = "unwind" /\ ReleaseFor(t, "cleanup")
     \/ /\ why[t] = "cleanup" /\ Goto(t, "raise") /\ UNCHANGED why
  /\ UNCHANGED <<gen, activeGen, keyLive, closed, applyLock, kind, placed, mouse, history>>

-----------------------------------------------------------------------------
(* The end of an apply.                                                    *)

SettleUp(a) ==
  /\ kind[a] # "key"
  /\ Check(a, "settleUp", "putBack")

Leave(a) ==
  /\ Goto(a, "idle")
  /\ activeGen' = NoOne /\ applyLock' = NoOne
  /\ kind' = [kind EXCEPT ![a] = "turn"]
  /\ why' = [why EXCEPT ![a] = "cleanup"]
  /\ placed' = [placed EXCEPT ![a] = FALSE]
  /\ UNCHANGED <<owned, gen, closed, subLock, lifting, down, pitch, turned,
                 stale, unlifted, stuck>>

\* The cursor is put back after the client consumed the button's release.
PutBack(a) ==
  /\ pc[a] = "putBack"
  /\ \E ack \in Acknowledgements :
       /\ cursor' \in Leaves(ack, TRUE, cursor)
       /\ placed' = [placed EXCEPT ![a] = ~ack]
       /\ IF ack THEN Goto(a, "commit") /\ UNCHANGED why ELSE ReleaseFor(a, "cleanup")
  /\ UNCHANGED <<sink, locks, kind, lifting, down, pitch, turned, history>>

Commit(a) ==
  /\ pc[a] = "commit"
  /\ \/ Unrevoked /\ Leave(a) /\ UNCHANGED <<keyLive, cursor, unrestored>>
     \/ /\ ReleaseFor(a, "cleanup")
        /\ UNCHANGED <<sink, locks, kind, lifting, placed, mouse, history>>

\* Fault: the handler puts the cursor back only if its release succeeded.
RaiseTidy(a) ==
  /\ pc[a] = "raise" /\ kind[a] # "key"
  /\ \E ack \in Acknowledgements :
       /\ cursor' \in IF placed[a] /\ ButtonOf(a) \notin owned
                     THEN Leaves(ack, TRUE, cursor) ELSE {cursor}
       /\ unrestored' = (unrestored \/ (placed[a] /\ ~ack))
  /\ UNCHANGED keyLive
  /\ Leave(a)

\* The end of the exception handler: the cursor goes back even if the release
\* was refused, then the apply is over and raises.
Raise(a) ==
  /\ pc[a] = "raise" /\ kind[a] # "key"
  /\ \E ack \in Acknowledgements :
       /\ cursor' \in IF placed[a] THEN Leaves(ack, TRUE, cursor) ELSE {cursor}
       /\ unrestored' = (unrestored \/ (placed[a] /\ ~ack))
  /\ UNCHANGED keyLive
  /\ Leave(a)

-----------------------------------------------------------------------------
(* The combat sink: other controls go to the keyboard sink, whose promise  *)
(* is the port's.                                                          *)

KeyBegin(a) ==
  /\ Free
  /\ "key" \in Kinds /\ "keyboard" \notin closed
  /\ kind' = [kind EXCEPT ![a] = "key"]
  /\ keyLive' = TRUE
  /\ Goto(a, "key")
  /\ UNCHANGED <<owned, gen, activeGen, closed, locks, why, lifting, placed, mouse, stale,
                 unlifted, stuck, unrestored>>

KeyPress(a) ==
  /\ pc[a] = "key"
  /\ \/ /\ keyLive /\ owned' = owned \cup {"keyboard"}
        /\ \E ack \in Acknowledgements :
             /\ down' \in Leaves(ack, down \cup {"keyboard"}, down)
             /\ ReleaseFor(a, IF ack THEN "return" ELSE "cleanup")
     \/ ReleaseFor(a, "cleanup") /\ UNCHANGED <<owned, down>>
  /\ UNCHANGED <<gen, activeGen, keyLive, closed, locks, kind, lifting, placed, cursor, pitch,
                 turned, history>>

KeyEnds(a) ==
  /\ pc[a] \in {"settleUp", "raise"} /\ kind[a] = "key"
  /\ keyLive' = FALSE
  /\ UNCHANGED <<cursor, unrestored>>
  /\ Leave(a)

\* release_all of the combat sink: mouse, then keyboard.
ReleaseAll(r) ==
  /\ pc[r] = "idle" /\ gen < MaxGeneration
  /\ kind' = [kind EXCEPT ![r] = "release"]
  /\ ReleaseFor(r, "turnMode")
  /\ UNCHANGED <<sink, locks, lifting, placed, mouse, history>>

\* close of the combat sink; a second close finds the mouse sink closed.
Close(r) ==
  /\ pc[r] = "idle" /\ "mouse" \notin closed
  /\ closed' = closed \cup {"mouse"}
  /\ kind' = [kind EXCEPT ![r] = "close"]
  /\ ReleaseFor(r, "turnMode")
  /\ UNCHANGED <<owned, gen, activeGen, keyLive, locks, lifting, placed, mouse, history>>

-----------------------------------------------------------------------------
ApplyStep(a) ==
  \/ Validate(a) \/ Submit(a) \/ Press(a) \/ Pressed(a)
  \/ Excursion(a) \/ Pause(a) \/ Back(a) \/ Across(a) \/ Hold(a)
  \/ SettleUp(a) \/ PutBack(a) \/ Commit(a) \/ Raise(a)
  \/ KeyPress(a) \/ KeyEnds(a)

ReleaseStep(t) == Claim(t) \/ Up(t) \/ AfterRelease(t)

Next ==
  \/ \E a \in Appliers : Begin(a) \/ KeyBegin(a) \/ ApplyStep(a)
  \/ \E r \in Releasers : ReleaseAll(r) \/ Close(r)
  \/ \E t \in Threads : ReleaseStep(t)

Spec == Init /\ [][Next]_vars

\* A thread inside the sink goes on: every wait in it is timed, and the submission
\* lock is held over finitely many such steps.
Fairness ==
  /\ \A a \in Appliers : WF_vars(ApplyStep(a))
  /\ \A t \in Threads : WF_vars(ReleaseStep(t))

FairSpec == Spec /\ Fairness

-----------------------------------------------------------------------------
(* Properties.                                                             *)

Pcs == {"idle", "validate", "submit", "press", "pressed", "drag", "pause", "back",
        "across", "moved", "claim", "up", "released", "refused", "settleUp", "putBack",
        "commit", "raise", "key"}

\* Types, and which program points hold which lock and have registered.
TypeOK ==
  /\ owned \subseteq Inputs /\ down \subseteq Inputs /\ stuck \subseteq Inputs
  /\ closed \subseteq {"mouse", "keyboard"}
  /\ gen \in Nat /\ activeGen \in Nat \cup {NoOne}
  /\ pc \in [Threads -> Pcs]
  /\ why \in [Threads -> Inputs \cup {"return", "unwind", "cleanup"}]
  /\ kind \in [Threads -> Kinds \cup {"turn", "release", "close"}]
  /\ lifting \in [Threads -> Inputs \cup {NoOne}] /\ placed \in [Threads -> BOOLEAN]
  /\ applyLock \in Appliers \cup {NoOne} /\ subLock \in Appliers \cup {NoOne}
  /\ {keyLive, cursor, turned, stale, unlifted, unrestored} \subseteq BOOLEAN /\ pitch \in Int
  /\ \A a \in Appliers :
       /\ applyLock = a <=> pc[a] # "idle" /\ kind[a] # "key"
       /\ applyLock = NoOne => activeGen = NoOne
       /\ subLock = a <=>
            \/ pc[a] \in {"press", "pause", "back", "across"}
            \/ (why[a] = "unwind" /\ pc[a] \in {"claim", "up", "released", "refused"})

\* No button or key is held by the system that nobody remembers: it is owned, or
\* a thread that cleared its flag has still to lift it.
HeldIsAccounted ==
  down \subseteq owned \cup {lifting[t] : t \in Threads}

\* The cursor is the operator's again when no call is in the sink, whichever of the
\* submissions, releases and checks of a turn or click failed.
CursorComesBack ==
  (\A t \in Threads : pc[t] = "idle") => cursor \/ unrestored

\* A turn or click that returns has released its own button, and leaves the other
\* one down only if that button's last release, in an earlier call, failed; a
\* turn was dragged across with the button down and took its vertical excursion
\* back. Excepted is an apply that began while another thread's release was still
\* lifting an input: that release may lift a button the apply presses meanwhile.
TurnIsExact ==
  [][\A a \in Appliers :
       (pc[a] = "commit" /\ pc'[a] = "idle") =>
         \/ stale
         \/ /\ down \cap Buttons \subseteq stuck \ {ButtonOf(a)}
            /\ kind[a] = "turn" => turned /\ pitch = 0]_vars

PutBackWaits ==
  cursor' /\ ~cursor =>
    down \cap Buttons \subseteq stuck \/ \E r \in Releasers : lifting[r] # NoOne

\* The cursor is not moved back with a button down, which the client would take
\* for one more drag, unless that button's release failed or another thread
\* has one on its way.
CursorWaitsForButton == [][PutBackWaits]_vars

\* Whatever is held comes up again, unless its own release fails.
ButtonComesUp == \A i \in Inputs : i \in down ~> (i \notin down \/ i \in stuck)

\* Every apply returns or raises, release_all and close notwithstanding.
ApplyEnds == \A a \in Appliers : pc[a] # "idle" ~> pc[a] = "idle"

\* The sink comes to rest whatever fails in it.
ComesToRest == ButtonComesUp /\ ApplyEnds

-----------------------------------------------------------------------------
(* The port this sink implements.                                          *)

InSink == {t \in Threads : pc[t] # "idle"}
CurrentApply == keyLive \/ activeGen = gen

Port == INSTANCE InputSink WITH
  Controls <- Inputs,
  held <- down, calls <- InSink, current <- CurrentApply, refused <- unlifted

\* windows_mouse_turn.py keeps the promise of ports.InputSink, with both of its
\* buttons and with the keyboard beside it.
ImplementsPort == Port!PortSpec
=============================================================================
