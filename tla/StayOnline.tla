----------------------------- MODULE StayOnline -----------------------------
(***************************************************************************)
(* Anti-AFK: the guard process of run_stay_online_guard.py with its latch  *)
(* (adapter/afk_hud.py), the files it shares with the Control Center, the  *)
(* Control Center's worker thread and panel (stay_online_control.py) and   *)
(* the two scripts through which the worker starts and stops the guard.    *)
(*                                                                         *)
(* A guard is one process: it may crash at any step, and a write of its    *)
(* record may fail, because a reader has the file open.  A step ends where *)
(* another process can act before what was read is used.  Time is a        *)
(* choice: a script may be killed or give up its wait whenever it runs, and *)
(* the guard may reach its limit.                                          *)
(***************************************************************************)
EXTENDS Integers, Sequences, FiniteSets

CONSTANTS
  Guards, NoGuard,  \* the guard processes (bound: as many at once); none
  MaxToggles,       \* bound: clicks on the checkbox between two openings
  MaxEpisodes,      \* bound: times the client becomes AFK
  MaxClients,       \* bound: sessions of the client
  MaxResults        \* bound: results not yet collected, beyond which none is polled

ASSUME StayOnlineAssumption ==
  /\ NoGuard \notin Guards
  /\ MaxToggles \in Nat /\ MaxEpisodes \in Nat /\ MaxResults \in Nat
  /\ MaxClients \in Nat \ {0}

VARIABLES
  movement,  \* a process that drives the client is alive
  client,    \* the session of the client
  afk,       \* the client is AFK
  episodes,  \* times it became AFK
  file,      \* state.json
  stopFile,  \* stop.request exists
  optIn,     \* enabled.json exists
  gpc,       \* where each guard is
  target,    \* the session each guard is bound to
  handled, afkSamples, clearSamples,  \* each guard's AfkEpisodeLatch
  wpc,       \* where the worker, or the script it waits for, is
  want,      \* the command in hand
  tag,       \* the worker's revision
  fresh,     \* history: the command in hand has been carried out
  revision,  \* the panel's revision
  box,       \* the checkbox is [on, enabled], heard: what it shows was found since
  commands,  \* the queue of <<revision, on>>
  results,   \* the queue of [revision, running, available, fresh]
  jumps,     \* history: jumps since the client last became AFK (see Boot)
  overruled, \* history: what stood against the jump since it was marked
  optedOut,  \* history: the last command begun was to disable
  confirmedOff, \* history: that command succeeded, and the worker started none since
  unattended, \* history: a start ended with its guard unnamed, and there still is one
  beside     \* history: a guard came beside an unattended one, in this AFK period or
             \* before it, and some guard was left when it began

game == <<movement, client, afk, episodes>>
disk == <<file, stopFile, optIn>>
latch == <<handled, afkSamples, clearSamples>>
guard == <<gpc, target, latch>>
worker == <<wpc, want, tag, fresh>>
attendance == <<unattended, beside>>
panel == <<revision, box, commands>>
history == <<jumps, overruled, optedOut, confirmedOff, attendance>>
vars == <<game, disk, guard, worker, panel, results, history>>

Obstacles == {"movement", "stop"}

Init ==
  /\ movement = FALSE /\ client = 1 /\ afk = FALSE /\ episodes = 0
  /\ file = [status |-> "none", by |-> NoGuard, client |-> 0, handled |-> FALSE]
  /\ stopFile = FALSE /\ optIn = FALSE
  /\ gpc = [g \in Guards |-> "off"]
  /\ target = [g \in Guards |-> 1]
  /\ handled = [g \in Guards |-> FALSE]
  /\ afkSamples = [g \in Guards |-> 0]
  /\ clearSamples = [g \in Guards |-> 0]
  /\ wpc = "poll" /\ want = FALSE /\ tag = 0 /\ fresh = TRUE
  /\ revision = 0 /\ box = [on |-> FALSE, enabled |-> FALSE, heard |-> FALSE]
  /\ commands = <<>> /\ results = <<>>
  /\ jumps = 0 /\ overruled = [g \in Guards |-> {}]
  /\ optedOut = FALSE /\ confirmedOff = FALSE
  /\ unattended = FALSE /\ beside = FALSE

-----------------------------------------------------------------------------
(* The guard.                                                              *)

Goto(g, l) == gpc' = [gpc EXCEPT ![g] = l]

Active(g) == gpc[g] # "off"

Others(g) == {h \in Guards \ {g} : Active(h)}

\* publish: the record replaces the old one as a whole.
Record(g, s) == [status |-> s, by |-> g, client |-> target[g], handled |-> handled[g]]

\* The process exits: its memory goes with it, and the record f it leaves behind
\* names no process any more (a later one is told from it by its creation time).
Exit(g, f) ==
  /\ Goto(g, "off")
  /\ file' = [f EXCEPT !.by = IF @ = g THEN NoGuard ELSE @]
  /\ target' = [target EXCEPT ![g] = 1]
  /\ handled' = [handled EXCEPT ![g] = FALSE]
  /\ afkSamples' = [afkSamples EXCEPT ![g] = 0]
  /\ clearSamples' = [clearSamples EXCEPT ![g] = 0]
  /\ overruled' = [overruled EXCEPT ![g] = {}]
  /\ unattended' = (unattended /\ Others(g) # {})

\* Fault: a guard starts with an empty latch.
BootForgetful(g) ==
  /\ gpc[g] = "boot" /\ Goto(g, "look") /\ handled' = [handled EXCEPT ![g] = FALSE]
  /\ UNCHANGED <<game, disk, target, afkSamples, clearSamples, worker, panel, results, history>>

\* run up to its loop: an episode this client's record calls handled stays so,
\* unless the record cannot be read; the jumps are then counted anew.
Boot(g) ==
  /\ gpc[g] = "boot" /\ Goto(g, "look")
  /\ LET known == file.client = target[g] /\ file.handled
     IN  \/ handled' = [handled EXCEPT ![g] = known] /\ UNCHANGED jumps
         \/ known /\ handled' = [handled EXCEPT ![g] = FALSE] /\ jumps' = 0
  /\ UNCHANGED <<game, disk, target, afkSamples, clearSamples, worker, panel, results,
                 overruled, optedOut, confirmedOff, attendance>>

\* The samples observe keeps when a packet says nothing.
Forget(g) ==
  /\ afkSamples' = [afkSamples EXCEPT ![g] = 0]
  /\ clearSamples' = [clearSamples EXCEPT ![g] = 0]
  /\ UNCHANGED handled

\* Fault: a busy turn goes on without a look at the stop request.
LookBusyFirst(g) ==
  /\ gpc[g] = "look"
  /\ \/ ~movement /\ Goto(g, "end") /\ UNCHANGED latch
     \/ target[g] = client /\ movement /\ Goto(g, "tail") /\ Forget(g)
     \/ ~stopFile /\ target[g] = client /\ ~movement /\ Goto(g, "sample") /\ UNCHANGED latch
  /\ UNCHANGED <<game, disk, target, worker, panel, results, history>>

\* The head of the loop: over, no client, or busy, when nothing is sampled.
Look(g) ==
  /\ gpc[g] = "look"
  /\ \/ Goto(g, "end") /\ UNCHANGED latch
     \/ ~stopFile /\ target[g] # client /\ Goto(g, "end") /\ UNCHANGED latch
     \/ ~stopFile /\ target[g] = client /\ movement /\ Goto(g, "tail") /\ Forget(g)
     \/ ~stopFile /\ target[g] = client /\ ~movement /\ Goto(g, "sample") /\ UNCHANGED latch
  /\ UNCHANGED <<game, disk, target, worker, panel, results, history>>

\* AfkEpisodeLatch.observe of a new packet that shows the character in the world. Of
\* a count only whether there was a sample before is ever asked: it stops at one.
Observe(g, eligible) ==
  IF afk
  THEN /\ clearSamples' = [clearSamples EXCEPT ![g] = 0]
       /\ afkSamples' = [afkSamples EXCEPT ![g] = IF eligible THEN 1 ELSE 0]
       /\ UNCHANGED handled
  ELSE /\ afkSamples' = [afkSamples EXCEPT ![g] = 0]
       /\ clearSamples' = [clearSamples EXCEPT ![g] = 1]
       /\ handled' = [handled EXCEPT ![g] = @ /\ clearSamples[g] = 0]

\* One observation: none (a capture error, a character not in the world), a
\* packet seen before, or a new one.
Sample(g) ==
  /\ gpc[g] = "sample"
  /\ \/ Forget(g) /\ Goto(g, "tail")
     \/ UNCHANGED latch /\ Goto(g, "tail")
     \/ /\ target[g] = client
        /\ \E eligible \in BOOLEAN :
             /\ Observe(g, eligible)
             /\ Goto(g, IF afk /\ eligible /\ ~handled[g] /\ afkSamples[g] >= 1
                        THEN "recheck" ELSE "tail")
  /\ UNCHANGED <<game, disk, target, worker, panel, results, history>>

\* The second look at the movement and the stop, and mark_attempted.
Recheck(g) ==
  /\ gpc[g] = "recheck"
  /\ IF movement \/ stopFile
     THEN Goto(g, "tail") /\ UNCHANGED handled
     ELSE Goto(g, "mark") /\ handled' = [handled EXCEPT ![g] = TRUE]
  /\ UNCHANGED <<game, disk, target, afkSamples, clearSamples, worker, panel, results, history>>

\* The mark is made durable before the input.
Mark(g) ==
  /\ gpc[g] = "mark"
  /\ \/ /\ file' = Record(g, "RUNNING") /\ Goto(g, "pulse")
        /\ overruled' = [overruled EXCEPT ![g] =
             {o \in Obstacles : (o = "movement" /\ movement) \/ (o = "stop" /\ stopFile)}]
     \/ Goto(g, "fail") /\ UNCHANGED <<file, overruled>>
  /\ UNCHANGED <<game, stopFile, optIn, target, latch, worker, panel, results,
                 jumps, optedOut, confirmedOff, attendance>>

\* Fault: the pulse does not ask again whether it is interrupted.
PulseUninterruptible(g) ==
  /\ gpc[g] = "pulse"
  /\ Goto(g, "fail") \/ (target[g] = client /\ Goto(g, "press"))
  /\ UNCHANGED <<game, disk, target, latch, worker, panel, results, history>>

\* _execute_pulse up to the press: the focus or the realm may fail.
Pulse(g) ==
  /\ gpc[g] = "pulse"
  /\ \/ Goto(g, "fail")
     \/ ~movement /\ ~stopFile /\ target[g] = client /\ Goto(g, "press")
  /\ UNCHANGED <<game, disk, target, latch, worker, panel, results, history>>

\* apply_bounded: it presses and returns, presses and raises, or raises.
Press(g) ==
  /\ gpc[g] = "press"
  /\ \/ target[g] = client /\ jumps' = jumps + 1 /\ \E l \in {"tail", "fail"} : Goto(g, l)
     \/ Goto(g, "fail") /\ UNCHANGED jumps
  /\ overruled' = [overruled EXCEPT ![g] = {}]
  /\ UNCHANGED <<game, disk, target, latch, worker, panel, results,
                 optedOut, confirmedOff, attendance>>

\* The record at the end of a turn: written, or a reader has the file open.
Report(g) ==
  /\ gpc[g] = "tail"
  /\ \/ file' = Record(g, "RUNNING") /\ Goto(g, "look")
     \/ Goto(g, "fail") /\ UNCHANGED file
  /\ UNCHANGED <<game, stopFile, optIn, target, latch, worker, panel, results, history>>

\* The last record, of a stop, a limit, a client that is gone; or it fails.
End(g) ==
  /\ gpc[g] = "end"
  /\ \/ Exit(g, Record(g, "ended"))
     \/ Goto(g, "fail") /\ UNCHANGED <<file, target, latch, overruled, unattended>>
  /\ UNCHANGED <<game, stopFile, optIn, worker, panel, results, jumps, optedOut, confirmedOff, beside>>

\* The fail-closed handler: its record is written or not, the process exits.
Fail(g) ==
  /\ gpc[g] = "fail"
  /\ Exit(g, Record(g, "ended")) \/ Exit(g, file)
  /\ UNCHANGED <<game, stopFile, optIn, worker, panel, results, jumps, optedOut, confirmedOff, beside>>

Crash(g) ==
  /\ gpc[g] # "off" /\ Exit(g, file)
  /\ UNCHANGED <<game, stopFile, optIn, worker, panel, results, jumps, optedOut, confirmedOff, beside>>

GuardStep(g) ==
  \/ Boot(g) \/ Look(g) \/ Sample(g) \/ Recheck(g) \/ Mark(g)
  \/ Pulse(g) \/ Press(g) \/ Report(g) \/ End(g) \/ Fail(g)

-----------------------------------------------------------------------------
(* The worker of the Control Center.                                       *)

Working(at, next) == wpc = at /\ wpc' = next

\* status: the record says RUNNING and its very process lives; a reader may also
\* find the file, or the process, closed to it.
Running == file.status = "RUNNING" /\ file.by \in Guards /\ Active(file.by)

\* Fault: the opt-in goes only when there is no guard to stop.
AskKeeps ==
  /\ wpc = "ask" /\ fresh' = TRUE
  /\ optIn' = (optIn /\ (want \/ Running)) /\ optedOut' = (~want \/ (optedOut /\ tag = 0))
  /\ confirmedOff' = (confirmedOff \/ (~want /\ ~Running))
  /\ wpc' = IF want = Running THEN "poll" ELSE IF want THEN "launch" ELSE "halt"
  /\ UNCHANGED <<game, file, stopFile, guard, want, tag, panel, results, jumps, overruled, attendance>>

\* Fault: a status that could not be found out counts as off.
AskCredulous ==
  /\ wpc = "ask" /\ fresh' = TRUE
  /\ optIn' = (optIn /\ want) /\ optedOut' = (~want \/ (optedOut /\ tag = 0))
  /\ \E running \in {Running, FALSE} :
       /\ confirmedOff' = (confirmedOff \/ (~want /\ ~running))
       /\ wpc' = IF want = running THEN "poll" ELSE IF want THEN "launch" ELSE "halt"
  /\ UNCHANGED <<game, file, stopFile, guard, want, tag, panel, results, jumps, overruled, attendance>>

\* set_enabled up to its script: an unknown status does nothing at all, and a
\* disable removes the opt-in first.
Ask ==
  /\ wpc = "ask" /\ fresh' = TRUE
  /\ \/ wpc' = "poll" /\ UNCHANGED <<optIn, optedOut, confirmedOff>>
     \/ /\ optIn' = (optIn /\ want)
        /\ optedOut' = (~want \/ (optedOut /\ tag = 0))
        /\ confirmedOff' = (confirmedOff \/ (~want /\ ~Running))
        /\ wpc' = CASE Running /\ ~want -> "halt"
                    [] ~Running /\ want -> "launch"
                    [] Running /\ want -> "save"
                    [] ~Running /\ ~want -> "poll"
  /\ UNCHANGED <<game, file, stopFile, guard, want, tag, panel, results, jumps, overruled, attendance>>

\* A process that is not there yet.
Free == CHOOSE g \in Guards : ~Active(g)

\* A guard the record does not name.
Unnamed(g) == Active(g) /\ ~(file.status = "RUNNING" /\ file.by = g)

\* Start-LabStayOnlineGuard.ps1 up to its wait. A process under the recorded pid
\* counts as the guard, whatever it is; else the stop request goes,
Withdraw ==
  /\ ~Running /\ stopFile' = FALSE
  /\ overruled' = [g \in Guards |-> overruled[g] \ {"stop"}]

\* and a new process comes.
Spawn ==
  /\ Withdraw /\ \E g \in Guards : ~Active(g)
  /\ Goto(Free, "boot") /\ target' = [target EXCEPT ![Free] = client]
  /\ UNCHANGED latch

\* The worker's script may be killed, or fail, wherever it is.
Launch ==
  /\ wpc = "launch"
  /\ \/ wpc' = "poll" /\ UNCHANGED <<stopFile, overruled, guard, confirmedOff, beside>>
     \/ /\ file.status = "RUNNING" /\ wpc' = "confirm"
        /\ UNCHANGED <<stopFile, overruled, guard, confirmedOff, beside>>
     \/ wpc' = "poll" /\ Withdraw /\ UNCHANGED <<guard, confirmedOff, beside>>
     \/ /\ wpc' = "await" /\ Spawn /\ confirmedOff' = FALSE
        /\ beside' = (beside \/ (unattended /\ \E g \in Guards : Active(g)))
  /\ UNCHANGED <<game, file, optIn, want, tag, fresh, panel, results,
                 jumps, optedOut, unattended>>

\* The wait for the first record ends with one that names a living process; or the
\* new process exited, or ten seconds are over, or the worker's twenty.
Await ==
  /\ \/ file.status = "RUNNING" /\ Working("await", "confirm")
     \/ Working("await", "poll")
  /\ unattended' = (unattended \/ \E g \in Guards : Unnamed(g))
  /\ UNCHANGED <<game, disk, guard, want, tag, fresh, panel, results,
                 jumps, overruled, optedOut, confirmedOff, beside>>

\* Stop-LabStayOnlineGuard.ps1: the request, then ten seconds for the exit.
Halt ==
  /\ \/ Working("halt", "drain") /\ stopFile' = TRUE
     \/ Working("halt", "poll") /\ UNCHANGED stopFile
  /\ UNCHANGED <<game, file, optIn, guard, want, tag, fresh, panel, results, history>>

Drain ==
  /\ \/ ~Running /\ Working("drain", "confirm")
     \/ Working("drain", "poll")
  /\ UNCHANGED <<game, disk, guard, want, tag, fresh, panel, results, history>>

\* The second look at the status.
Confirm ==
  /\ wpc = "confirm"
  /\ wpc' \in {"poll"} \cup (IF want /\ Running THEN {"save"} ELSE {})
  /\ confirmedOff' \in {confirmedOff, confirmedOff \/ (~want /\ ~Running)}
  /\ UNCHANGED <<game, disk, guard, want, tag, fresh, panel, results,
                 jumps, overruled, optedOut, attendance>>

Save ==
  /\ Working("save", "poll")
  /\ optIn' \in {TRUE, optIn}
  /\ UNCHANGED <<game, file, stopFile, guard, want, tag, fresh, panel, results, history>>

\* The status the panel will show, with the number of the last command taken; fresh
\* (history) when no click was outstanding.
Poll ==
  /\ Working("poll", "get") /\ Len(results) < MaxResults
  /\ \E ok \in BOOLEAN : results' = Append(results,
       [revision |-> tag, running |-> ok /\ Running, available |-> ok,
        fresh |-> fresh /\ commands = <<>>])
  /\ UNCHANGED <<game, disk, guard, want, tag, fresh, panel, history>>

\* Fault: the results go on carrying the number of an earlier command.
GetUntagged ==
  /\ \/ commands # <<>> /\ Working("get", "ask") /\ want' = Head(commands)[2]
        /\ commands' = Tail(commands) /\ fresh' = FALSE /\ UNCHANGED tag
     \/ commands = <<>> /\ Working("get", "poll") /\ want' = FALSE /\ UNCHANGED <<tag, commands, fresh>>
  /\ UNCHANGED <<game, disk, guard, revision, box, results, history>>

\* The next command, or a second without one.
Get ==
  /\ \/ /\ commands # <<>> /\ Working("get", "ask")
        /\ tag' = Head(commands)[1] /\ want' = Head(commands)[2]
        /\ commands' = Tail(commands) /\ fresh' = FALSE
     \/ commands = <<>> /\ Working("get", "poll") /\ want' = FALSE /\ UNCHANGED <<tag, commands, fresh>>
  /\ UNCHANGED <<game, disk, guard, revision, box, results, history>>

WorkerStep ==
  \/ Ask \/ Launch \/ Await \/ Halt \/ Drain \/ Confirm \/ Save \/ Poll \/ Get

-----------------------------------------------------------------------------
(* The panel, on the thread of the window.                                 *)

\* _toggle: what was polled before the click is dropped.
Toggle ==
  /\ box.enabled /\ revision < MaxToggles
  /\ results' = <<>> /\ revision' = revision + 1
  /\ box' = [on |-> ~box.on, enabled |-> FALSE, heard |-> FALSE]
  /\ commands' = Append(commands, <<revision + 1, ~box.on>>)
  /\ UNCHANGED <<game, disk, guard, worker, history>>

\* Fault: a result counts whatever command it followed.
CurrentTrusting(i) == i \in DOMAIN results

Current(i) == i \in DOMAIN results /\ results[i].revision = revision

\* refresh: of the results collected, the newest with the panel's revision.
Refresh ==
  /\ results # <<>> /\ results' = <<>>
  /\ \/ (\A i \in DOMAIN results : ~Current(i)) /\ UNCHANGED box
     \/ \E i \in DOMAIN results :
          /\ Current(i) /\ \A k \in DOMAIN results : Current(k) => k <= i
          /\ box' = [on |-> results[i].running, enabled |-> results[i].available,
                     heard |-> results[i].fresh]
  /\ UNCHANGED <<game, disk, guard, worker, revision, commands, history>>

\* The Control Center is closed, its worker dies where it is, and it is opened
\* again: the opt-in is applied once. A script under way has died by then, or has
\* done its work; nobody has waited for the guard it started.
Reopen ==
  /\ \/ wpc \notin {"launch", "halt", "await"} /\ UNCHANGED <<stopFile, overruled, guard, attendance>>
     \/ /\ wpc = "await" /\ UNCHANGED <<stopFile, overruled, guard, beside>>
        /\ unattended' = (unattended \/ \E g \in Guards : Unnamed(g))
     \/ wpc = "halt" /\ stopFile' \in {stopFile, TRUE} /\ UNCHANGED <<overruled, guard, attendance>>
     \/ wpc = "launch" /\ UNCHANGED <<stopFile, overruled, guard, attendance>>
     \/ wpc = "launch" /\ Withdraw /\ UNCHANGED <<guard, attendance>>
     \/ /\ wpc = "launch" /\ Spawn
        /\ unattended' = TRUE /\ beside' = (beside \/ \E g \in Guards : Active(g))
  /\ wpc' = IF optIn THEN "ask" ELSE "poll"
  /\ want' = optIn /\ tag' = 0 /\ fresh' = ~optIn
  /\ revision' = 0 /\ box' = [on |-> FALSE, enabled |-> FALSE, heard |-> FALSE]
  /\ commands' = <<>> /\ results' = <<>>
  /\ UNCHANGED <<game, file, optIn, jumps, optedOut, confirmedOff>>

-----------------------------------------------------------------------------
(* The game.                                                               *)

\* A process that drives the client comes or goes.
Drive ==
  /\ movement' = ~movement
  /\ overruled' = [g \in Guards |-> overruled[g] \ {"movement"}]
  /\ UNCHANGED <<client, afk, episodes, disk, guard, worker, panel, results,
                 jumps, optedOut, confirmedOff, attendance>>

\* A new AFK period is no concern of guards that are gone.
NewPeriod ==
  /\ jumps' = 0
  /\ beside' = (beside /\ \E g \in Guards : Active(g))

\* The character becomes AFK, or stops being AFK.
GoesAfk ==
  /\ ~afk /\ episodes < MaxEpisodes
  /\ afk' = TRUE /\ episodes' = episodes + 1 /\ NewPeriod
  /\ UNCHANGED <<movement, client, disk, guard, worker, panel, results,
                 overruled, optedOut, confirmedOff, unattended>>

Returns ==
  /\ afk /\ afk' = FALSE
  /\ UNCHANGED <<movement, client, episodes, disk, guard, worker, panel, results, history>>

\* The client ends, and another session of it begins.
Relog ==
  /\ client < MaxClients /\ client' = client + 1 /\ afk' = FALSE /\ NewPeriod
  /\ UNCHANGED <<movement, episodes, disk, guard, worker, panel, results,
                 overruled, optedOut, confirmedOff, unattended>>

Game == Drive \/ GoesAfk \/ Returns \/ Relog

Next ==
  \/ \E g \in Guards : GuardStep(g) \/ Crash(g)
  \/ WorkerStep \/ Toggle \/ Refresh \/ Reopen \/ Game

\* Each process goes on: the guard, the worker, and the window's timer.
Fairness ==
  /\ \A g \in Guards : WF_vars(GuardStep(g))
  /\ WF_vars(WorkerStep)
  /\ WF_vars(Refresh)

Spec == Init /\ [][Next]_vars
FairSpec == Spec /\ Fairness

-----------------------------------------------------------------------------
(* Properties.                                                             *)

TypeOK ==
  /\ movement \in BOOLEAN /\ client \in 1..MaxClients /\ afk \in BOOLEAN
  /\ episodes \in 0..MaxEpisodes
  /\ file \in [status : {"none", "RUNNING", "ended"}, by : Guards \cup {NoGuard},
               client : 0..MaxClients, handled : BOOLEAN]
  /\ stopFile \in BOOLEAN /\ optIn \in BOOLEAN
  /\ gpc \in [Guards -> {"off", "boot", "look", "sample", "recheck", "mark", "pulse",
                         "press", "tail", "end", "fail"}]
  /\ target \in [Guards -> 1..MaxClients] /\ handled \in [Guards -> BOOLEAN]
  /\ afkSamples \in [Guards -> 0..1] /\ clearSamples \in [Guards -> 0..1]
  /\ wpc \in {"ask", "launch", "await", "halt", "drain", "confirm", "save", "poll", "get"}
  /\ want \in BOOLEAN /\ tag \in 0..MaxToggles /\ fresh \in BOOLEAN
  /\ revision \in 0..MaxToggles
  /\ box \in [on : BOOLEAN, enabled : BOOLEAN, heard : BOOLEAN]
  /\ commands \in Seq((1..MaxToggles) \X BOOLEAN)
  /\ results \in Seq([revision : 0..MaxToggles, running : BOOLEAN,
                      available : BOOLEAN, fresh : BOOLEAN])
  /\ jumps \in Nat /\ overruled \in [Guards -> SUBSET Obstacles]
  /\ {optedOut, confirmedOff, unattended, beside} \subseteq BOOLEAN

\* The client gets at most one jump in each period it is AFK, whatever crashes,
\* fails to be written or is started again in between, while the record can be read.
OneJump == jumps <= 1

\* It does, but for a guard that was started beside an unattended one: one whose
\* start was given up, or outlived its Control Center, before a record named it.
OneJumpAlone == jumps <= 1 \/ beside

\* What drove the client, or asked for a stop, when the jump was marked, and has
\* done so ever since, is never jumped over.
ObstaclesHold == [][\A g \in Guards : jumps' > jumps /\ gpc[g] = "press" => overruled[g] = {}]_vars

\* Once a disable was confirmed no guard is at work until the worker starts one, but
\* for an unattended one and those beside it.
OffMeansOff == confirmedOff => unattended \/ \A g \in Guards : ~Active(g)

\* Once a disable was begun the worker starts no guard, not even the worker of a
\* Control Center that is opened later, before the operator asks for one.
OptOutSticks == [][\A g \in Guards : ~Active(g) /\ Active(g)' => ~optedOut]_vars

\* A checkbox that can be clicked shows what was found after its last command.
BoxIsCurrent == box.enabled => box.heard

\* A stop request ends the guards, unless it is withdrawn: it never stands for ever
\* beside a guard.
StopIsObeyed == []<>(stopFile => \A g \in Guards : ~Active(g))

\* The panel always hears, at last, what became of its last command, unless the
\* Control Center is closed again and again.
ClickIsAnswered == []<><<Reopen>>_vars \/ []<>box.heard
=============================================================================
