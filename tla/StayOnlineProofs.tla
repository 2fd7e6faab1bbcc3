-------------------------- MODULE StayOnlineProofs --------------------------
(***************************************************************************)
(* Theorems about StayOnline, for any number of guards, clicks, AFK        *)
(* periods, sessions and results: the types, the opt-out, the checkbox,    *)
(* the obstacles, one jump but for a guard started beside an unattended    *)
(* one, and a true confirmation but for an unattended guard.               *)
(***************************************************************************)
EXTENDS StayOnline, TLAPS

\* What the game, the guards, the worker and the panel keep of the types.
Clock ==
  /\ client \in 1..MaxClients /\ episodes \in 0..MaxEpisodes
  /\ target \in [Guards -> 1..MaxClients] /\ jumps \in Nat

Places ==
  /\ gpc \in [Guards -> {"off", "boot", "look", "sample", "recheck", "mark", "pulse",
                         "press", "tail", "end", "fail"}]
  /\ wpc \in {"ask", "launch", "await", "halt", "drain", "confirm", "save", "poll", "get"}
  /\ overruled \in [Guards -> SUBSET Obstacles]

Samples == afkSamples \in [Guards -> 0..1] /\ clearSamples \in [Guards -> 0..1]

Disk ==
  file \in [status : {"none", "RUNNING", "ended"}, by : Guards \cup {NoGuard},
            client : 0..MaxClients, handled : BOOLEAN]

Marks == handled \in [Guards -> BOOLEAN]

Flags ==
  /\ movement \in BOOLEAN /\ afk \in BOOLEAN /\ stopFile \in BOOLEAN /\ optIn \in BOOLEAN
  /\ want \in BOOLEAN /\ fresh \in BOOLEAN /\ optedOut \in BOOLEAN /\ confirmedOff \in BOOLEAN
  /\ unattended \in BOOLEAN /\ beside \in BOOLEAN

Queues ==
  /\ tag \in 0..MaxToggles /\ revision \in 0..MaxToggles
  /\ commands \in Seq((1..MaxToggles) \X BOOLEAN)
  /\ results \in Seq([revision : 0..MaxToggles, running : BOOLEAN,
                      available : BOOLEAN, fresh : BOOLEAN])
  /\ box \in [on : BOOLEAN, enabled : BOOLEAN, heard : BOOLEAN]

\* A command that starts a guard was asked for after the last disable began.
Asked ==
  /\ optIn => ~optedOut
  /\ wpc \in {"launch", "await", "save"} => want
  /\ wpc \in {"halt", "drain"} => ~want
  /\ wpc \in {"launch", "await", "confirm", "save"} /\ want => ~optedOut
  /\ wpc = "ask" /\ tag = 0 => want /\ ~optedOut

\* At most one click waits, and what is polled meanwhile carries an older number.
Heard ==
  /\ tag <= revision
  /\ commands # <<>> => Len(commands) = 1 /\ commands[1][1] = revision /\ tag < revision
  /\ box.enabled => box.heard /\ commands = <<>>
  /\ \A i \in DOMAIN results :
       results[i].revision = revision => results[i].fresh /\ commands = <<>>
  /\ ~fresh => wpc = "ask"

\* What overrules a jump still stands, and nothing overrules one that is made.
Standing ==
  /\ \A g \in Guards : "movement" \in overruled[g] => movement
  /\ \A g \in Guards : "stop" \in overruled[g] => stopFile
  /\ \A g \in Guards : gpc[g] = "press" => overruled[g] = {}

\* Unless one was left unattended there is one guard, and but for its first steps its
\* record says so; and unless one came beside it, an unattended guard is alone.
Single ==
  /\ ~beside \/ ~unattended => \A g, h \in Guards : Active(g) /\ Active(h) => g = h
  /\ ~unattended /\ wpc # "await" =>
       \A g \in Guards : Active(g) => file.status = "RUNNING" /\ file.by = g
  /\ file.by \in Guards => Active(file.by)

\* An attempt is marked in memory, then on disk, before the key, and once the
\* client has jumped in this AFK period its guard, or the next, knows.
Attempt ==
  /\ \A g \in Guards : gpc[g] \in {"mark", "pulse", "press"} => handled[g]
  /\ ~beside => \A g \in Guards :
       gpc[g] \in {"pulse", "press"} => file.client = target[g] /\ file.handled

Known == ~beside =>
  /\ \A g \in Guards :
       gpc[g] \in {"recheck", "mark", "pulse", "press"} /\ target[g] = client => jumps = 0
  /\ jumps > 0 => \A g \in Guards : Active(g) => target[g] = client
  /\ jumps > 0 /\ afk => file.client = client /\ file.handled
  /\ jumps > 0 /\ afk => \A g \in Guards : gpc[g] \notin {"off", "boot"} => handled[g]

\* What a script does to the stop request: nothing, withdraws it, or makes it.
Swept ==
  \/ UNCHANGED <<stopFile, overruled>>
  \/ stopFile' = FALSE /\ overruled' = [g \in Guards |-> overruled[g] \ {"stop"}]
  \/ stopFile' = TRUE /\ UNCHANGED overruled

Comes(f) ==
  /\ ~Active(f) /\ Goto(f, "boot") /\ target' = [target EXCEPT ![f] = client]
  /\ UNCHANGED latch

Spawned == ~Running /\ Swept /\ \E f \in Guards : Comes(f)

LEMMA SpawnPicks == Spawn => Spawned
  <1> SUFFICES ASSUME Spawn PROVE Spawned
    OBVIOUS
  <1>1. Free \in Guards /\ ~Active(Free)
    BY DEF Free, Spawn
  <1> QED BY <1>1 DEF Spawn, Spawned, Withdraw, Swept, Comes

\* The guard that exits is unattended no more, and no other is when none is left.
LEMMA ExitLeaves ==
  ASSUME NEW g \in Guards, NEW f, Exit(g, f), Places
  PROVE  /\ \A h \in Guards : gpc'[h] = IF h = g THEN "off" ELSE gpc[h]
         /\ unattended' \in BOOLEAN /\ (unattended' => unattended)
         /\ unattended => unattended' \/ \A h \in Guards : gpc'[h] = "off"
         /\ file' = [f EXCEPT !.by = IF @ = g THEN NoGuard ELSE @]
  <1>1. \A h \in Guards : gpc'[h] = IF h = g THEN "off" ELSE gpc[h]
    BY DEF Exit, Goto, Places
  <1>2. unattended' = (unattended /\ Others(g) # {})
    BY DEF Exit
  <1>3. Others(g) = {} => \A h \in Guards : gpc'[h] = "off"
    BY <1>1 DEF Others, Active
  <1> QED BY <1>1, <1>2, <1>3 DEF Exit

\* A launch leaves the guards alone, or one comes.
LEMMA LaunchPicks ==
  ASSUME Launch
  PROVE  /\ wpc = "launch" /\ Swept
         /\ UNCHANGED <<game, file, optIn, want, tag, fresh, panel, results, jumps, optedOut,
                        unattended>>
         /\ \/ wpc' \in {"poll", "confirm"} /\ UNCHANGED <<guard, confirmedOff, beside>>
            \/ /\ wpc' = "await" /\ Spawned /\ confirmedOff' = FALSE
               /\ beside' = (beside \/ (unattended /\ \E g \in Guards : Active(g)))
  <1>1. CASE wpc' = "await" /\ Spawn
    BY <1>1, SpawnPicks DEF Launch, Spawned
  <1>2. CASE ~(wpc' = "await" /\ Spawn)
    BY <1>2 DEF Launch, Swept, Withdraw
  <1> QED BY <1>1, <1>2

\* So does a new Control Center, by a script of the one before.
LEMMA ReopenPicks ==
  ASSUME Reopen
  PROVE  /\ wpc' = (IF optIn THEN "ask" ELSE "poll") /\ Swept
         /\ want' = optIn /\ tag' = 0 /\ fresh' = ~optIn
         /\ revision' = 0 /\ box' = [on |-> FALSE, enabled |-> FALSE, heard |-> FALSE]
         /\ commands' = <<>> /\ results' = <<>>
         /\ UNCHANGED <<game, file, optIn, jumps, optedOut, confirmedOff>>
         /\ \/ /\ UNCHANGED <<guard, beside>>
               /\ unattended' = IF wpc = "await"
                                THEN unattended \/ \E g \in Guards : Unnamed(g) ELSE unattended
            \/ /\ wpc = "launch" /\ Spawned /\ unattended' = TRUE
               /\ beside' = (beside \/ \E g \in Guards : Active(g))
  <1>1. CASE wpc = "launch" /\ Spawn /\ unattended' = TRUE
             /\ beside' = (beside \/ \E g \in Guards : Active(g))
    BY <1>1, SpawnPicks DEF Reopen, Spawned
  <1>2. CASE ~(wpc = "launch" /\ Spawn /\ unattended' = TRUE
               /\ beside' = (beside \/ \E g \in Guards : Active(g)))
    BY <1>2 DEF Reopen, Swept, Withdraw, attendance
  <1> QED BY <1>1, <1>2

-----------------------------------------------------------------------------
(* Types.                                                                  *)

Results == [revision : 0..MaxToggles, running : BOOLEAN, available : BOOLEAN, fresh : BOOLEAN]

Orders == (1..MaxToggles) \X BOOLEAN

LEMMA FirstAndRest ==
  ASSUME NEW S, NEW q \in Seq(S), q # <<>>
  PROVE  Head(q) \in S /\ Tail(q) \in Seq(S) /\ Head(q) = q[1] /\ Len(q) \in Nat \ {0}
         /\ Len(Tail(q)) = Len(q) - 1
  OBVIOUS

LEMMA Elements ==
  ASSUME NEW S, NEW q \in Seq(S)
  PROVE  /\ DOMAIN q = 1..Len(q) /\ Len(q) \in Nat
         /\ \A i \in DOMAIN q : q[i] \in S
  OBVIOUS

LEMMA OrderParts ==
  ASSUME NEW c \in Orders
  PROVE  c[1] \in 1..MaxToggles /\ c[2] \in BOOLEAN
  BY DEF Orders

LEMMA PlacesStep == Places /\ [Next]_vars => Places'
  <1> SUFFICES ASSUME Places, [Next]_vars PROVE Places'
    OBVIOUS
  <1>1. ASSUME NEW g \in Guards, Boot(g) PROVE Places'
    BY <1>1 DEF Places, Obstacles, Boot, Goto, game, worker, history
  <1>2. ASSUME NEW g \in Guards, Look(g) PROVE Places'
    BY <1>2 DEF Places, Obstacles, Look, Goto, game, worker, history
  <1>3. ASSUME NEW g \in Guards, Sample(g) PROVE Places'
    BY <1>3 DEF Places, Obstacles, Sample, Goto, game, worker, history
  <1>4. ASSUME NEW g \in Guards, Recheck(g) PROVE Places'
    BY <1>4 DEF Places, Obstacles, Recheck, Goto, game, worker, history
  <1>5. ASSUME NEW g \in Guards, Mark(g) PROVE Places'
    BY <1>5 DEF Places, Obstacles, Mark, Goto, game, worker
  <1>6. ASSUME NEW g \in Guards, Pulse(g) PROVE Places'
    BY <1>6 DEF Places, Obstacles, Pulse, Goto, game, worker, history
  <1>7. ASSUME NEW g \in Guards, Press(g) PROVE Places'
    BY <1>7 DEF Places, Obstacles, Press, Goto, game, worker
  <1>8. ASSUME NEW g \in Guards, Report(g) PROVE Places'
    BY <1>8 DEF Places, Obstacles, Report, Goto, game, worker, history
  <1>9. ASSUME NEW g \in Guards, End(g) PROVE Places'
    BY <1>9 DEF Places, Obstacles, End, Goto, Exit, game, worker
  <1>10. ASSUME NEW g \in Guards, Fail(g) PROVE Places'
    BY <1>10 DEF Places, Obstacles, Fail, Exit, Goto, game, worker
  <1>11. ASSUME NEW g \in Guards, Crash(g) PROVE Places'
    BY <1>11 DEF Places, Obstacles, Crash, Exit, Goto, game, worker
  <1>12. ASSUME Ask PROVE Places'
    BY <1>12 DEF Places, Obstacles, Ask, game, guard
  <1>13. ASSUME Launch PROVE Places'
    <2>1. overruled' \in [Guards -> SUBSET Obstacles]
      BY <1>13, LaunchPicks DEF Swept, Places
    <2>2. gpc' = gpc \/ \E f \in Guards : gpc' = [gpc EXCEPT ![f] = "boot"]
      BY <1>13, LaunchPicks DEF Spawned, Comes, Goto, guard
    <2>3. wpc' \in {"confirm", "await", "poll"}
      BY <1>13, LaunchPicks
    <2> QED BY <2>1, <2>2, <2>3 DEF Places
  <1>14. ASSUME Await PROVE Places'
    BY <1>14 DEF Places, Obstacles, Await, Working, game, guard, history
  <1>15. ASSUME Halt PROVE Places'
    BY <1>15 DEF Places, Obstacles, Halt, Working, game, guard, history
  <1>16. ASSUME Drain PROVE Places'
    BY <1>16 DEF Places, Obstacles, Drain, Working, game, guard, history
  <1>17. ASSUME Confirm PROVE Places'
    BY <1>17 DEF Places, Obstacles, Confirm, game, guard
  <1>18. ASSUME Save PROVE Places'
    BY <1>18 DEF Places, Obstacles, Save, Working, game, guard, history
  <1>19. ASSUME Poll PROVE Places'
    BY <1>19 DEF Places, Obstacles, Poll, Working, game, guard, history
  <1>20. ASSUME Get PROVE Places'
    BY <1>20 DEF Places, Obstacles, Get, Working, game, guard, history
  <1>21. ASSUME Toggle PROVE Places'
    BY <1>21 DEF Places, Obstacles, Toggle, game, guard, worker, history
  <1>22. ASSUME Refresh PROVE Places'
    BY <1>22 DEF Places, Obstacles, Refresh, game, guard, worker, history
  <1>23. ASSUME Reopen PROVE Places'
    <2>1. overruled' \in [Guards -> SUBSET Obstacles]
      BY <1>23, ReopenPicks DEF Swept, Places
    <2>2. gpc' = gpc \/ \E f \in Guards : gpc' = [gpc EXCEPT ![f] = "boot"]
      BY <1>23, ReopenPicks DEF Spawned, Comes, Goto, guard
    <2>3. wpc' \in {"ask", "poll"}
      BY <1>23, ReopenPicks
    <2> QED BY <2>1, <2>2, <2>3 DEF Places
  <1>24. ASSUME Drive PROVE Places'
    BY <1>24 DEF Places, Obstacles, Drive, guard, worker
  <1>25. ASSUME GoesAfk PROVE Places'
    BY <1>25 DEF Places, Obstacles, GoesAfk, guard, worker
  <1>26. ASSUME Returns PROVE Places'
    BY <1>26 DEF Places, Obstacles, Returns, guard, worker, history
  <1>27. ASSUME Relog PROVE Places'
    BY <1>27 DEF Places, Obstacles, Relog, guard, worker
  <1>28. CASE UNCHANGED vars
    BY <1>28 DEF Places, Obstacles, vars, game, guard, worker, history
  <1> QED
    BY <1>1, <1>2, <1>3, <1>4, <1>5, <1>6, <1>7, <1>8, <1>9, <1>10, <1>11, <1>12, <1>13,
       <1>14, <1>15, <1>16, <1>17, <1>18, <1>19, <1>20, <1>21, <1>22, <1>23, <1>24, <1>25,
       <1>26, <1>27, <1>28
    DEF Next, GuardStep, WorkerStep, Game

LEMMA ClockStep == Clock /\ [Next]_vars => Clock'
  <1> SUFFICES ASSUME Clock, [Next]_vars PROVE Clock'
    OBVIOUS
  <1>0. MaxClients \in Nat \ {0} /\ MaxEpisodes \in Nat
    BY StayOnlineAssumption DEF StayOnlineAssumption
  <1>1. ASSUME NEW g \in Guards, Boot(g) PROVE Clock'
    BY <1>0, <1>1 DEF Clock, Boot, game, history
  <1>2. ASSUME NEW g \in Guards, Look(g) PROVE Clock'
    BY <1>0, <1>2 DEF Clock, Look, game, history
  <1>3. ASSUME NEW g \in Guards, Sample(g) PROVE Clock'
    BY <1>0, <1>3 DEF Clock, Sample, game, history
  <1>4. ASSUME NEW g \in Guards, Recheck(g) PROVE Clock'
    BY <1>0, <1>4 DEF Clock, Recheck, game, history
  <1>5. ASSUME NEW g \in Guards, Mark(g) PROVE Clock'
    BY <1>0, <1>5 DEF Clock, Mark, Record, game
  <1>6. ASSUME NEW g \in Guards, Pulse(g) PROVE Clock'
    BY <1>0, <1>6 DEF Clock, Pulse, game, history
  <1>7. ASSUME NEW g \in Guards, Press(g) PROVE Clock'
    BY <1>0, <1>7 DEF Clock, Press, game
  <1>8. ASSUME NEW g \in Guards, Report(g) PROVE Clock'
    BY <1>0, <1>8 DEF Clock, Report, Record, game, history
  <1>9. ASSUME NEW g \in Guards, End(g) PROVE Clock'
    BY <1>0, <1>9 DEF Clock, End, Record, Exit, game
  <1>10. ASSUME NEW g \in Guards, Fail(g) PROVE Clock'
    BY <1>0, <1>10 DEF Clock, Fail, Record, Exit, game
  <1>11. ASSUME NEW g \in Guards, Crash(g) PROVE Clock'
    BY <1>0, <1>11 DEF Clock, Crash, Exit, game
  <1>12. ASSUME Ask PROVE Clock'
    BY <1>0, <1>12 DEF Clock, Ask, game, guard
  <1>13. ASSUME Launch PROVE Clock'
    BY <1>0, <1>13, LaunchPicks DEF Clock, Spawned, Comes, game, guard
  <1>14. ASSUME Await PROVE Clock'
    BY <1>0, <1>14 DEF Clock, Await, game, guard, history
  <1>15. ASSUME Halt PROVE Clock'
    BY <1>0, <1>15 DEF Clock, Halt, game, guard, history
  <1>16. ASSUME Drain PROVE Clock'
    BY <1>0, <1>16 DEF Clock, Drain, game, guard, history
  <1>17. ASSUME Confirm PROVE Clock'
    BY <1>0, <1>17 DEF Clock, Confirm, game, guard
  <1>18. ASSUME Save PROVE Clock'
    BY <1>0, <1>18 DEF Clock, Save, game, guard, history
  <1>19. ASSUME Poll PROVE Clock'
    BY <1>0, <1>19 DEF Clock, Poll, game, guard, history
  <1>20. ASSUME Get PROVE Clock'
    BY <1>0, <1>20 DEF Clock, Get, game, guard, history
  <1>21. ASSUME Toggle PROVE Clock'
    BY <1>0, <1>21 DEF Clock, Toggle, game, guard, history
  <1>22. ASSUME Refresh PROVE Clock'
    BY <1>0, <1>22 DEF Clock, Refresh, game, guard, history
  <1>23. ASSUME Reopen PROVE Clock'
    BY <1>0, <1>23, ReopenPicks DEF Clock, Spawned, Comes, game, guard
  <1>24. ASSUME Drive PROVE Clock'
    BY <1>0, <1>24 DEF Clock, Drive, guard
  <1>25. ASSUME GoesAfk PROVE Clock'
    BY <1>0, <1>25 DEF Clock, GoesAfk, guard, NewPeriod
  <1>26. ASSUME Returns PROVE Clock'
    BY <1>0, <1>26 DEF Clock, Returns, guard, history
  <1>27. ASSUME Relog PROVE Clock'
    BY <1>0, <1>27 DEF Clock, Relog, guard, NewPeriod
  <1>28. CASE UNCHANGED vars
    BY <1>28 DEF Clock, vars, game, guard, history
  <1> QED
    BY <1>1, <1>2, <1>3, <1>4, <1>5, <1>6, <1>7, <1>8, <1>9, <1>10, <1>11, <1>12, <1>13,
       <1>14, <1>15, <1>16, <1>17, <1>18, <1>19, <1>20, <1>21, <1>22, <1>23, <1>24, <1>25,
       <1>26, <1>27, <1>28
    DEF Next, GuardStep, WorkerStep, Game

LEMMA SamplesStep == Samples /\ [Next]_vars => Samples'
  <1> SUFFICES ASSUME Samples, [Next]_vars PROVE Samples'
    OBVIOUS
  <1>1. ASSUME NEW g \in Guards, Boot(g) PROVE Samples'
    BY <1>1 DEF Samples, Boot
  <1>2. ASSUME NEW g \in Guards, Look(g) PROVE Samples'
    BY <1>2 DEF Samples, Look, Forget, latch
  <1>3. ASSUME NEW g \in Guards, Sample(g) PROVE Samples'
    BY <1>3 DEF Samples, Sample, Forget, Observe, latch
  <1>4. ASSUME NEW g \in Guards, Recheck(g) PROVE Samples'
    BY <1>4 DEF Samples, Recheck
  <1>5. ASSUME NEW g \in Guards, Mark(g) PROVE Samples'
    BY <1>5 DEF Samples, Mark, latch
  <1>6. ASSUME NEW g \in Guards, Pulse(g) PROVE Samples'
    BY <1>6 DEF Samples, Pulse, latch
  <1>7. ASSUME NEW g \in Guards, Press(g) PROVE Samples'
    BY <1>7 DEF Samples, Press, latch
  <1>8. ASSUME NEW g \in Guards, Report(g) PROVE Samples'
    BY <1>8 DEF Samples, Report, latch, history
  <1>9. ASSUME NEW g \in Guards, End(g) PROVE Samples'
    BY <1>9 DEF Samples, End, Exit, latch
  <1>10. ASSUME NEW g \in Guards, Fail(g) PROVE Samples'
    BY <1>10 DEF Samples, Fail, Exit
  <1>11. ASSUME NEW g \in Guards, Crash(g) PROVE Samples'
    BY <1>11 DEF Samples, Crash, Exit
  <1>12. ASSUME Ask PROVE Samples'
    BY <1>12 DEF Samples, Ask, latch, guard
  <1>13. ASSUME Launch PROVE Samples'
    BY <1>13, LaunchPicks DEF Samples, Spawned, Comes, latch, guard
  <1>14. ASSUME Await PROVE Samples'
    BY <1>14 DEF Samples, Await, latch, guard
  <1>15. ASSUME Halt PROVE Samples'
    BY <1>15 DEF Samples, Halt, latch, guard
  <1>16. ASSUME Drain PROVE Samples'
    BY <1>16 DEF Samples, Drain, latch, guard
  <1>17. ASSUME Confirm PROVE Samples'
    BY <1>17 DEF Samples, Confirm, latch, guard
  <1>18. ASSUME Save PROVE Samples'
    BY <1>18 DEF Samples, Save, latch, guard
  <1>19. ASSUME Poll PROVE Samples'
    BY <1>19 DEF Samples, Poll, latch, guard
  <1>20. ASSUME Get PROVE Samples'
    BY <1>20 DEF Samples, Get, latch, guard
  <1>21. ASSUME Toggle PROVE Samples'
    BY <1>21 DEF Samples, Toggle, latch, guard
  <1>22. ASSUME Refresh PROVE Samples'
    BY <1>22 DEF Samples, Refresh, latch, guard
  <1>23. ASSUME Reopen PROVE Samples'
    BY <1>23, ReopenPicks DEF Samples, Spawned, Comes, latch, guard
  <1>24. ASSUME Drive PROVE Samples'
    BY <1>24 DEF Samples, Drive, latch, guard
  <1>25. ASSUME GoesAfk PROVE Samples'
    BY <1>25 DEF Samples, GoesAfk, latch, guard
  <1>26. ASSUME Returns PROVE Samples'
    BY <1>26 DEF Samples, Returns, latch, guard
  <1>27. ASSUME Relog PROVE Samples'
    BY <1>27 DEF Samples, Relog, latch, guard
  <1>28. CASE UNCHANGED vars
    BY <1>28 DEF Samples, vars, latch, guard
  <1> QED
    BY <1>1, <1>2, <1>3, <1>4, <1>5, <1>6, <1>7, <1>8, <1>9, <1>10, <1>11, <1>12, <1>13,
       <1>14, <1>15, <1>16, <1>17, <1>18, <1>19, <1>20, <1>21, <1>22, <1>23, <1>24, <1>25,
       <1>26, <1>27, <1>28
    DEF Next, GuardStep, WorkerStep, Game

LEMMA MarksStep == Disk /\ Marks /\ [Next]_vars => Marks'
  <1> SUFFICES ASSUME Disk, Marks, [Next]_vars PROVE Marks'
    OBVIOUS
  <1>1. ASSUME NEW g \in Guards, Boot(g) PROVE Marks'
    BY <1>1 DEF Marks, Disk, Boot
  <1>2. ASSUME NEW g \in Guards, Look(g) PROVE Marks'
    BY <1>2 DEF Marks, Disk, Look, Forget, latch
  <1>3. ASSUME NEW g \in Guards, Sample(g) PROVE Marks'
    BY <1>3 DEF Marks, Disk, Sample, Forget, Observe, latch
  <1>4. ASSUME NEW g \in Guards, Recheck(g) PROVE Marks'
    BY <1>4 DEF Marks, Disk, Recheck
  <1>5. ASSUME NEW g \in Guards, Mark(g) PROVE Marks'
    BY <1>5 DEF Marks, Disk, Mark, Record, latch
  <1>6. ASSUME NEW g \in Guards, Pulse(g) PROVE Marks'
    BY <1>6 DEF Marks, Disk, Pulse, latch
  <1>7. ASSUME NEW g \in Guards, Press(g) PROVE Marks'
    BY <1>7 DEF Marks, Disk, Press, latch
  <1>8. ASSUME NEW g \in Guards, Report(g) PROVE Marks'
    BY <1>8 DEF Marks, Disk, Report, Record, latch, history
  <1>9. ASSUME NEW g \in Guards, End(g) PROVE Marks'
    BY <1>9 DEF Marks, Disk, End, Record, Exit, latch
  <1>10. ASSUME NEW g \in Guards, Fail(g) PROVE Marks'
    BY <1>10 DEF Marks, Disk, Fail, Record, Exit
  <1>11. ASSUME NEW g \in Guards, Crash(g) PROVE Marks'
    BY <1>11 DEF Marks, Disk, Crash, Exit
  <1>12. ASSUME Ask PROVE Marks'
    BY <1>12 DEF Marks, Disk, Ask, latch, guard
  <1>13. ASSUME Launch PROVE Marks'
    BY <1>13, LaunchPicks DEF Marks, Spawned, Comes, latch, guard
  <1>14. ASSUME Await PROVE Marks'
    BY <1>14 DEF Marks, Disk, Await, latch, guard
  <1>15. ASSUME Halt PROVE Marks'
    BY <1>15 DEF Marks, Disk, Halt, latch, guard
  <1>16. ASSUME Drain PROVE Marks'
    BY <1>16 DEF Marks, Disk, Drain, latch, guard
  <1>17. ASSUME Confirm PROVE Marks'
    BY <1>17 DEF Marks, Disk, Confirm, latch, guard
  <1>18. ASSUME Save PROVE Marks'
    BY <1>18 DEF Marks, Disk, Save, latch, guard
  <1>19. ASSUME Poll PROVE Marks'
    BY <1>19 DEF Marks, Disk, Poll, latch, guard
  <1>20. ASSUME Get PROVE Marks'
    BY <1>20 DEF Marks, Disk, Get, latch, guard
  <1>21. ASSUME Toggle PROVE Marks'
    BY <1>21 DEF Marks, Disk, Toggle, latch, guard
  <1>22. ASSUME Refresh PROVE Marks'
    BY <1>22 DEF Marks, Disk, Refresh, latch, guard
  <1>23. ASSUME Reopen PROVE Marks'
    BY <1>23, ReopenPicks DEF Marks, Spawned, Comes, latch, guard
  <1>24. ASSUME Drive PROVE Marks'
    BY <1>24 DEF Marks, Disk, Drive, latch, guard
  <1>25. ASSUME GoesAfk PROVE Marks'
    BY <1>25 DEF Marks, Disk, GoesAfk, latch, guard
  <1>26. ASSUME Returns PROVE Marks'
    BY <1>26 DEF Marks, Disk, Returns, latch, guard
  <1>27. ASSUME Relog PROVE Marks'
    BY <1>27 DEF Marks, Disk, Relog, latch, guard
  <1>28. CASE UNCHANGED vars
    BY <1>28 DEF Marks, Disk, vars, latch, guard
  <1> QED
    BY <1>1, <1>2, <1>3, <1>4, <1>5, <1>6, <1>7, <1>8, <1>9, <1>10, <1>11, <1>12, <1>13,
       <1>14, <1>15, <1>16, <1>17, <1>18, <1>19, <1>20, <1>21, <1>22, <1>23, <1>24, <1>25,
       <1>26, <1>27, <1>28
    DEF Next, GuardStep, WorkerStep, Game

LEMMA DiskStep == Marks /\ Clock /\ Disk /\ [Next]_vars => Disk'
  <1> SUFFICES ASSUME Marks, Clock, Disk, [Next]_vars PROVE Disk'
    OBVIOUS
  <1>0. MaxClients \in Nat \ {0} /\ NoGuard \notin Guards
    BY StayOnlineAssumption DEF StayOnlineAssumption
  <1>1. ASSUME NEW g \in Guards, Boot(g) PROVE Disk'
    BY <1>0, <1>1 DEF Disk, Marks, Clock, Boot, game, disk
  <1>2. ASSUME NEW g \in Guards, Look(g) PROVE Disk'
    BY <1>0, <1>2 DEF Disk, Marks, Clock, Look, Forget, game, disk, latch
  <1>3. ASSUME NEW g \in Guards, Sample(g) PROVE Disk'
    BY <1>0, <1>3 DEF Disk, Marks, Clock, Sample, Forget, Observe, game, disk, latch
  <1>4. ASSUME NEW g \in Guards, Recheck(g) PROVE Disk'
    BY <1>0, <1>4 DEF Disk, Marks, Clock, Recheck, game, disk
  <1>5. ASSUME NEW g \in Guards, Mark(g) PROVE Disk'
    BY <1>0, <1>5 DEF Disk, Marks, Clock, Mark, Record, game, latch
  <1>6. ASSUME NEW g \in Guards, Pulse(g) PROVE Disk'
    BY <1>0, <1>6 DEF Disk, Marks, Clock, Pulse, game, disk, latch
  <1>7. ASSUME NEW g \in Guards, Press(g) PROVE Disk'
    BY <1>0, <1>7 DEF Disk, Marks, Clock, Press, game, disk, latch
  <1>8. ASSUME NEW g \in Guards, Report(g) PROVE Disk'
    BY <1>0, <1>8 DEF Disk, Marks, Clock, Report, Record, game, latch, history
  <1>9. ASSUME NEW g \in Guards, End(g) PROVE Disk'
    BY <1>0, <1>9 DEF Disk, Marks, Clock, End, Record, Exit, game, latch
  <1>10. ASSUME NEW g \in Guards, Fail(g) PROVE Disk'
    BY <1>0, <1>10 DEF Disk, Marks, Clock, Fail, Record, Exit, game
  <1>11. ASSUME NEW g \in Guards, Crash(g) PROVE Disk'
    BY <1>0, <1>11 DEF Disk, Marks, Clock, Crash, Exit, game
  <1>12. ASSUME Ask PROVE Disk'
    BY <1>0, <1>12 DEF Disk, Marks, Clock, Ask, game, latch, guard
  <1>13. ASSUME Launch PROVE Disk'
    BY <1>0, <1>13, LaunchPicks DEF Disk
  <1>14. ASSUME Await PROVE Disk'
    BY <1>0, <1>14 DEF Disk, Marks, Clock, Await, game, disk, latch, guard
  <1>15. ASSUME Halt PROVE Disk'
    BY <1>0, <1>15 DEF Disk, Marks, Clock, Halt, game, latch, guard
  <1>16. ASSUME Drain PROVE Disk'
    BY <1>0, <1>16 DEF Disk, Marks, Clock, Drain, game, disk, latch, guard
  <1>17. ASSUME Confirm PROVE Disk'
    BY <1>0, <1>17 DEF Disk, Marks, Clock, Confirm, game, disk, latch, guard
  <1>18. ASSUME Save PROVE Disk'
    BY <1>0, <1>18 DEF Disk, Marks, Clock, Save, game, latch, guard
  <1>19. ASSUME Poll PROVE Disk'
    BY <1>0, <1>19 DEF Disk, Marks, Clock, Poll, game, disk, latch, guard
  <1>20. ASSUME Get PROVE Disk'
    BY <1>0, <1>20 DEF Disk, Marks, Clock, Get, game, disk, latch, guard
  <1>21. ASSUME Toggle PROVE Disk'
    BY <1>0, <1>21 DEF Disk, Marks, Clock, Toggle, game, disk, latch, guard
  <1>22. ASSUME Refresh PROVE Disk'
    BY <1>0, <1>22 DEF Disk, Marks, Clock, Refresh, game, disk, latch, guard
  <1>23. ASSUME Reopen PROVE Disk'
    BY <1>0, <1>23, ReopenPicks DEF Disk
  <1>24. ASSUME Drive PROVE Disk'
    BY <1>0, <1>24 DEF Disk, Marks, Clock, Drive, disk, latch, guard
  <1>25. ASSUME GoesAfk PROVE Disk'
    BY <1>0, <1>25 DEF Disk, Marks, Clock, GoesAfk, disk, latch, guard
  <1>26. ASSUME Returns PROVE Disk'
    BY <1>0, <1>26 DEF Disk, Marks, Clock, Returns, disk, latch, guard
  <1>27. ASSUME Relog PROVE Disk'
    BY <1>0, <1>27 DEF Disk, Marks, Clock, Relog, disk, latch, guard
  <1>28. CASE UNCHANGED vars
    BY <1>28 DEF Disk, Marks, Clock, vars, game, disk, latch, guard
  <1> QED
    BY <1>1, <1>2, <1>3, <1>4, <1>5, <1>6, <1>7, <1>8, <1>9, <1>10, <1>11, <1>12, <1>13,
       <1>14, <1>15, <1>16, <1>17, <1>18, <1>19, <1>20, <1>21, <1>22, <1>23, <1>24, <1>25,
       <1>26, <1>27, <1>28
    DEF Next, GuardStep, WorkerStep, Game

LEMMA FlagsStep == Queues /\ Flags /\ [Next]_vars => Flags'
  <1> SUFFICES ASSUME Queues, Flags, [Next]_vars PROVE Flags'
    OBVIOUS
  <1>1. ASSUME NEW g \in Guards, Boot(g) PROVE Flags'
    BY <1>1 DEF Flags, Boot, game, disk, worker, history, attendance
  <1>2. ASSUME NEW g \in Guards, Look(g) PROVE Flags'
    BY <1>2 DEF Flags, Look, game, disk, worker, history, attendance
  <1>3. ASSUME NEW g \in Guards, Sample(g) PROVE Flags'
    BY <1>3 DEF Flags, Sample, Observe, game, disk, worker, history, attendance
  <1>4. ASSUME NEW g \in Guards, Recheck(g) PROVE Flags'
    BY <1>4 DEF Flags, Recheck, game, disk, worker, history, attendance
  <1>5. ASSUME NEW g \in Guards, Mark(g) PROVE Flags'
    BY <1>5 DEF Flags, Mark, game, worker, attendance
  <1>6. ASSUME NEW g \in Guards, Pulse(g) PROVE Flags'
    BY <1>6 DEF Flags, Pulse, game, disk, worker, history, attendance
  <1>7. ASSUME NEW g \in Guards, Press(g) PROVE Flags'
    BY <1>7 DEF Flags, Press, game, disk, worker, attendance
  <1>8. ASSUME NEW g \in Guards, Report(g) PROVE Flags'
    BY <1>8 DEF Flags, Report, game, worker, history, attendance
  <1>9. ASSUME NEW g \in Guards, End(g) PROVE Flags'
    <2>1. (unattended /\ Others(g) # {}) \in BOOLEAN
      BY SMT
    <2>2. unattended' \in BOOLEAN
      BY <1>9, <2>1 DEF End, Exit, Flags
    <2> QED BY <1>9, <2>2 DEF Flags, End, game, worker
  <1>10. ASSUME NEW g \in Guards, Fail(g) PROVE Flags'
    <2>1. (unattended /\ Others(g) # {}) \in BOOLEAN
      BY SMT
    <2>2. unattended' \in BOOLEAN
      BY <1>10, <2>1 DEF Fail, Exit, Flags
    <2> QED BY <1>10, <2>2 DEF Flags, Fail, game, worker
  <1>11. ASSUME NEW g \in Guards, Crash(g) PROVE Flags'
    <2>1. (unattended /\ Others(g) # {}) \in BOOLEAN
      BY SMT
    <2>2. unattended' \in BOOLEAN
      BY <1>11, <2>1 DEF Crash, Exit, Flags
    <2> QED BY <1>11, <2>2 DEF Flags, Crash, game, worker
  <1>12. ASSUME Ask PROVE Flags'
    BY <1>12 DEF Flags, Ask, game, attendance
  <1>13. ASSUME Launch PROVE Flags'
    <2>1. stopFile' \in BOOLEAN
      BY <1>13, LaunchPicks DEF Swept, Flags
    <2>2. beside' \in BOOLEAN /\ unattended' \in BOOLEAN
      BY <1>13, LaunchPicks DEF Flags
    <2>3. /\ UNCHANGED <<movement, afk>>
          /\ {optIn', want', fresh', optedOut', confirmedOff'} \subseteq BOOLEAN
      BY <1>13, LaunchPicks DEF Flags, game
    <2> QED BY <2>1, <2>2, <2>3 DEF Flags
  <1>14. ASSUME Await PROVE Flags'
    BY <1>14 DEF Flags, Await, game, disk, history
  <1>15. ASSUME Halt PROVE Flags'
    BY <1>15 DEF Flags, Halt, game, history, attendance
  <1>16. ASSUME Drain PROVE Flags'
    BY <1>16 DEF Flags, Drain, game, disk, history, attendance
  <1>17. ASSUME Confirm PROVE Flags'
    BY <1>17 DEF Flags, Confirm, game, disk, attendance
  <1>18. ASSUME Save PROVE Flags'
    BY <1>18 DEF Flags, Save, game, history, attendance
  <1>19. ASSUME Poll PROVE Flags'
    BY <1>19 DEF Flags, Poll, game, disk, history, attendance
  <1>20. ASSUME Get PROVE Flags'
    <2>1. commands # <<>> => Head(commands)[2] \in BOOLEAN
      BY FirstAndRest, OrderParts DEF Queues, Orders
    <2> QED BY <1>20, <2>1 DEF Flags, Get, Working, game, disk, guard, history, attendance
  <1>21. ASSUME Toggle PROVE Flags'
    BY <1>21 DEF Flags, Toggle, game, disk, worker, history, attendance
  <1>22. ASSUME Refresh PROVE Flags'
    BY <1>22 DEF Flags, Refresh, game, disk, worker, history, attendance
  <1>23. ASSUME Reopen PROVE Flags'
    <2>1. stopFile' \in BOOLEAN
      BY <1>23, ReopenPicks DEF Swept, Flags
    <2>2. beside' \in BOOLEAN /\ unattended' \in BOOLEAN
      BY <1>23, ReopenPicks DEF Flags
    <2>3. /\ UNCHANGED <<movement, afk>>
          /\ {optIn', want', fresh', optedOut', confirmedOff'} \subseteq BOOLEAN
      BY <1>23, ReopenPicks DEF Flags, game
    <2> QED BY <2>1, <2>2, <2>3 DEF Flags
  <1>24. ASSUME Drive PROVE Flags'
    BY <1>24 DEF Flags, Drive, disk, worker, attendance
  <1>25. ASSUME GoesAfk PROVE Flags'
    BY <1>25 DEF Flags, GoesAfk, disk, worker, NewPeriod
  <1>26. ASSUME Returns PROVE Flags'
    BY <1>26 DEF Flags, Returns, disk, worker, history, attendance
  <1>27. ASSUME Relog PROVE Flags'
    BY <1>27 DEF Flags, Relog, disk, worker, NewPeriod
  <1>28. CASE UNCHANGED vars
    BY <1>28 DEF Flags, vars, game, disk, worker, history, attendance
  <1> QED
    BY <1>1, <1>2, <1>3, <1>4, <1>5, <1>6, <1>7, <1>8, <1>9, <1>10, <1>11, <1>12, <1>13,
       <1>14, <1>15, <1>16, <1>17, <1>18, <1>19, <1>20, <1>21, <1>22, <1>23, <1>24, <1>25,
       <1>26, <1>27, <1>28
    DEF Next, GuardStep, WorkerStep, Game

LEMMA QueuesStep == Flags /\ Queues /\ [Next]_vars => Queues'
  <1> SUFFICES ASSUME Flags, Queues, [Next]_vars PROVE Queues'
    OBVIOUS
  <1>0. MaxToggles \in Nat
    BY StayOnlineAssumption DEF StayOnlineAssumption
  <1>1. ASSUME NEW g \in Guards, Boot(g) PROVE Queues'
    BY <1>0, <1>1 DEF Queues, Flags, Boot, worker, panel
  <1>2. ASSUME NEW g \in Guards, Look(g) PROVE Queues'
    BY <1>0, <1>2 DEF Queues, Flags, Look, worker, panel
  <1>3. ASSUME NEW g \in Guards, Sample(g) PROVE Queues'
    BY <1>0, <1>3 DEF Queues, Flags, Sample, worker, panel
  <1>4. ASSUME NEW g \in Guards, Recheck(g) PROVE Queues'
    BY <1>0, <1>4 DEF Queues, Flags, Recheck, worker, panel
  <1>5. ASSUME NEW g \in Guards, Mark(g) PROVE Queues'
    BY <1>0, <1>5 DEF Queues, Flags, Mark, worker, panel
  <1>6. ASSUME NEW g \in Guards, Pulse(g) PROVE Queues'
    BY <1>0, <1>6 DEF Queues, Flags, Pulse, worker, panel
  <1>7. ASSUME NEW g \in Guards, Press(g) PROVE Queues'
    BY <1>0, <1>7 DEF Queues, Flags, Press, worker, panel
  <1>8. ASSUME NEW g \in Guards, Report(g) PROVE Queues'
    BY <1>0, <1>8 DEF Queues, Flags, Report, worker, panel, history
  <1>9. ASSUME NEW g \in Guards, End(g) PROVE Queues'
    BY <1>0, <1>9 DEF Queues, Flags, End, worker, panel
  <1>10. ASSUME NEW g \in Guards, Fail(g) PROVE Queues'
    BY <1>0, <1>10 DEF Queues, Flags, Fail, worker, panel
  <1>11. ASSUME NEW g \in Guards, Crash(g) PROVE Queues'
    BY <1>0, <1>11 DEF Queues, Flags, Crash, worker, panel
  <1>12. ASSUME Ask PROVE Queues'
    BY <1>0, <1>12 DEF Queues, Flags, Ask, panel
  <1>13. ASSUME Launch PROVE Queues'
    BY <1>13, LaunchPicks DEF Queues, panel
  <1>14. ASSUME Await PROVE Queues'
    BY <1>0, <1>14 DEF Queues, Flags, Await, panel
  <1>15. ASSUME Halt PROVE Queues'
    BY <1>0, <1>15 DEF Queues, Flags, Halt, panel
  <1>16. ASSUME Drain PROVE Queues'
    BY <1>0, <1>16 DEF Queues, Flags, Drain, panel
  <1>17. ASSUME Confirm PROVE Queues'
    BY <1>0, <1>17 DEF Queues, Flags, Confirm, panel
  <1>18. ASSUME Save PROVE Queues'
    BY <1>0, <1>18 DEF Queues, Flags, Save, panel
  <1>19. ASSUME Poll PROVE Queues'
    BY <1>0, <1>19 DEF Queues, Flags, Poll, panel
  <1>20. ASSUME Get PROVE Queues'
    <2>1. ASSUME commands # <<>>
          PROVE  Head(commands)[1] \in 1..MaxToggles /\ Tail(commands) \in Seq(Orders)
      BY <2>1, FirstAndRest, OrderParts DEF Queues, Orders
    <2>2. tag' \in 0..MaxToggles
      BY <1>0, <1>20, <2>1 DEF Get, Queues
    <2>3. commands' \in Seq(Orders)
      BY <1>20, <2>1 DEF Get, Queues, Orders
    <2> QED BY <1>20, <2>2, <2>3 DEF Queues, Get, Orders
  <1>21. ASSUME Toggle PROVE Queues'
    <2>1. revision + 1 \in 1..MaxToggles /\ revision' = revision + 1 /\ revision' \in 0..MaxToggles
      BY <1>0, <1>21 DEF Toggle, Queues
    <2>2. (~box.on) \in BOOLEAN
      OBVIOUS
    <2>3. <<revision + 1, ~box.on>> \in Orders
      BY <2>1, <2>2 DEF Orders
    <2>4. commands' \in Seq(Orders)
      BY <1>21, <2>3 DEF Toggle, Queues, Orders
    <2>5. box' \in [on : BOOLEAN, enabled : BOOLEAN, heard : BOOLEAN]
      BY <1>21, <2>2 DEF Toggle
    <2>6. results' \in Seq(Results) /\ tag' \in 0..MaxToggles
      BY <1>21 DEF Toggle, worker, Queues
    <2> QED BY <2>1, <2>4, <2>5, <2>6 DEF Queues, Orders, Results
  <1>22. ASSUME Refresh PROVE Queues'
    <2>1. \A i \in DOMAIN results : results[i] \in Results
      BY Elements DEF Queues, Results
    <2>2. box' \in [on : BOOLEAN, enabled : BOOLEAN, heard : BOOLEAN]
      <3>1. CASE UNCHANGED box
        BY <3>1 DEF Queues
      <3>2. CASE \E i \in DOMAIN results :
                   box' = [on |-> results[i].running, enabled |-> results[i].available,
                           heard |-> results[i].fresh]
        BY <2>1, <3>2 DEF Results
      <3> QED BY <1>22, <3>1, <3>2 DEF Refresh
    <2>3. results' = <<>> /\ UNCHANGED <<tag, revision, commands>>
      BY <1>22 DEF Refresh, worker
    <2> QED BY <2>2, <2>3 DEF Queues
  <1>23. ASSUME Reopen PROVE Queues'
    <2>1. /\ tag' = 0 /\ revision' = 0 /\ commands' = <<>> /\ results' = <<>>
          /\ box' = [on |-> FALSE, enabled |-> FALSE, heard |-> FALSE]
      BY <1>23, ReopenPicks
    <2> QED BY <1>0, <2>1 DEF Queues
  <1>24. ASSUME Drive PROVE Queues'
    BY <1>0, <1>24 DEF Queues, Flags, Drive, worker, panel
  <1>25. ASSUME GoesAfk PROVE Queues'
    BY <1>0, <1>25 DEF Queues, Flags, GoesAfk, worker, panel
  <1>26. ASSUME Returns PROVE Queues'
    BY <1>0, <1>26 DEF Queues, Flags, Returns, worker, panel
  <1>27. ASSUME Relog PROVE Queues'
    BY <1>0, <1>27 DEF Queues, Flags, Relog, worker, panel
  <1>28. CASE UNCHANGED vars
    BY <1>28 DEF Queues, Flags, vars, worker, panel
  <1> QED
    BY <1>1, <1>2, <1>3, <1>4, <1>5, <1>6, <1>7, <1>8, <1>9, <1>10, <1>11, <1>12, <1>13,
       <1>14, <1>15, <1>16, <1>17, <1>18, <1>19, <1>20, <1>21, <1>22, <1>23, <1>24, <1>25,
       <1>26, <1>27, <1>28
    DEF Next, GuardStep, WorkerStep, Game

-----------------------------------------------------------------------------
(* The opt-out, the checkbox and the obstacles.                            *)

LEMMA AskedStep == Flags /\ Queues /\ Asked /\ [Next]_vars => Asked'
  <1> SUFFICES ASSUME Flags, Queues, Asked, [Next]_vars PROVE Asked'
    OBVIOUS
  <1>1. ASSUME NEW g \in Guards, Boot(g) PROVE Asked'
    BY <1>1 DEF Asked, Boot, disk, worker, history
  <1>2. ASSUME NEW g \in Guards, Look(g) PROVE Asked'
    BY <1>2 DEF Asked, Look, disk, worker, history
  <1>3. ASSUME NEW g \in Guards, Sample(g) PROVE Asked'
    BY <1>3 DEF Asked, Sample, disk, worker, history
  <1>4. ASSUME NEW g \in Guards, Recheck(g) PROVE Asked'
    BY <1>4 DEF Asked, Recheck, disk, worker, history
  <1>5. ASSUME NEW g \in Guards, Mark(g) PROVE Asked'
    BY <1>5 DEF Asked, Mark, worker
  <1>6. ASSUME NEW g \in Guards, Pulse(g) PROVE Asked'
    BY <1>6 DEF Asked, Pulse, disk, worker, history
  <1>7. ASSUME NEW g \in Guards, Press(g) PROVE Asked'
    BY <1>7 DEF Asked, Press, disk, worker
  <1>8. ASSUME NEW g \in Guards, Report(g) PROVE Asked'
    BY <1>8 DEF Asked, Report, worker, history
  <1>9. ASSUME NEW g \in Guards, End(g) PROVE Asked'
    BY <1>9 DEF Asked, End, worker
  <1>10. ASSUME NEW g \in Guards, Fail(g) PROVE Asked'
    BY <1>10 DEF Asked, Fail, worker
  <1>11. ASSUME NEW g \in Guards, Crash(g) PROVE Asked'
    BY <1>11 DEF Asked, Crash, worker
  <1>12. ASSUME Ask PROVE Asked'
    <2>1. UNCHANGED <<want, tag>> /\ wpc = "ask"
      BY <1>12 DEF Ask
    <2>2. CASE wpc' = "poll" /\ UNCHANGED <<optIn, optedOut>>
      BY <2>1, <2>2 DEF Asked
    <2>3. CASE want /\ optIn' = (optIn /\ want) /\ optedOut' = (~want \/ (optedOut /\ tag = 0))
               /\ wpc' \in {"launch", "save"}
      <3>1. ~optedOut'
        BY <2>1, <2>3 DEF Asked
      <3> QED BY <2>1, <2>3, <3>1 DEF Asked
    <2>4. CASE ~want /\ optIn' = (optIn /\ want) /\ wpc' \in {"halt", "poll"}
      BY <2>1, <2>4 DEF Asked
    <2> QED BY <1>12, <2>2, <2>3, <2>4 DEF Ask
  <1>13. ASSUME Launch PROVE Asked'
    <2>1. /\ UNCHANGED <<optIn, optedOut, want, tag>>
          /\ wpc = "launch" /\ wpc' \in {"confirm", "await", "poll"}
      BY <1>13, LaunchPicks
    <2> QED BY <2>1 DEF Asked
  <1>14. ASSUME Await PROVE Asked'
    BY <1>14 DEF Asked, Await, Working, disk, history
  <1>15. ASSUME Halt PROVE Asked'
    BY <1>15 DEF Asked, Halt, Working, history
  <1>16. ASSUME Drain PROVE Asked'
    BY <1>16 DEF Asked, Drain, Working, disk, history
  <1>17. ASSUME Confirm PROVE Asked'
    BY <1>17 DEF Asked, Confirm, disk
  <1>18. ASSUME Save PROVE Asked'
    BY <1>18 DEF Asked, Save, Working, history
  <1>19. ASSUME Poll PROVE Asked'
    BY <1>19 DEF Asked, Poll, Working, disk, history
  <1>20. ASSUME Get PROVE Asked'
    <2>1. commands # <<>> => Head(commands)[1] # 0
      BY FirstAndRest, OrderParts DEF Queues, Orders
    <2> QED BY <1>20, <2>1 DEF Asked, Get, Working, disk, history
  <1>21. ASSUME Toggle PROVE Asked'
    BY <1>21 DEF Asked, Toggle, disk, worker, history
  <1>22. ASSUME Refresh PROVE Asked'
    BY <1>22 DEF Asked, Refresh, disk, worker, history
  <1>23. ASSUME Reopen PROVE Asked'
    BY <1>23, ReopenPicks DEF Asked
  <1>24. ASSUME Drive PROVE Asked'
    BY <1>24 DEF Asked, Drive, disk, worker
  <1>25. ASSUME GoesAfk PROVE Asked'
    BY <1>25 DEF Asked, GoesAfk, disk, worker
  <1>26. ASSUME Returns PROVE Asked'
    BY <1>26 DEF Asked, Returns, disk, worker, history
  <1>27. ASSUME Relog PROVE Asked'
    BY <1>27 DEF Asked, Relog, disk, worker
  <1>28. CASE UNCHANGED vars
    BY <1>28 DEF Asked, vars, disk, worker, history
  <1> QED
    BY <1>1, <1>2, <1>3, <1>4, <1>5, <1>6, <1>7, <1>8, <1>9, <1>10, <1>11, <1>12, <1>13,
       <1>14, <1>15, <1>16, <1>17, <1>18, <1>19, <1>20, <1>21, <1>22, <1>23, <1>24, <1>25,
       <1>26, <1>27, <1>28
    DEF Next, GuardStep, WorkerStep, Game

LEMMA HeardStep == Flags /\ Queues /\ Heard /\ [Next]_vars => Heard'
  <1> SUFFICES ASSUME Flags, Queues, Heard, [Next]_vars PROVE Heard'
    OBVIOUS
  <1>0. MaxToggles \in Nat /\ tag \in Nat /\ revision \in Nat
    BY StayOnlineAssumption DEF StayOnlineAssumption, Queues
  <1>1. ASSUME NEW g \in Guards, Boot(g) PROVE Heard'
    BY <1>0, <1>1 DEF Heard, Boot, worker, panel
  <1>2. ASSUME NEW g \in Guards, Look(g) PROVE Heard'
    BY <1>0, <1>2 DEF Heard, Look, worker, panel
  <1>3. ASSUME NEW g \in Guards, Sample(g) PROVE Heard'
    BY <1>0, <1>3 DEF Heard, Sample, worker, panel
  <1>4. ASSUME NEW g \in Guards, Recheck(g) PROVE Heard'
    BY <1>0, <1>4 DEF Heard, Recheck, worker, panel
  <1>5. ASSUME NEW g \in Guards, Mark(g) PROVE Heard'
    BY <1>0, <1>5 DEF Heard, Mark, worker, panel
  <1>6. ASSUME NEW g \in Guards, Pulse(g) PROVE Heard'
    BY <1>0, <1>6 DEF Heard, Pulse, worker, panel
  <1>7. ASSUME NEW g \in Guards, Press(g) PROVE Heard'
    BY <1>0, <1>7 DEF Heard, Press, worker, panel
  <1>8. ASSUME NEW g \in Guards, Report(g) PROVE Heard'
    BY <1>0, <1>8 DEF Heard, Report, worker, panel, history
  <1>9. ASSUME NEW g \in Guards, End(g) PROVE Heard'
    BY <1>0, <1>9 DEF Heard, End, worker, panel
  <1>10. ASSUME NEW g \in Guards, Fail(g) PROVE Heard'
    BY <1>0, <1>10 DEF Heard, Fail, worker, panel
  <1>11. ASSUME NEW g \in Guards, Crash(g) PROVE Heard'
    BY <1>0, <1>11 DEF Heard, Crash, worker, panel
  <1>12. ASSUME Ask PROVE Heard'
    BY <1>0, <1>12 DEF Heard, Ask, panel
  <1>13. ASSUME Launch PROVE Heard'
    BY <1>13, LaunchPicks DEF Heard, panel
  <1>14. ASSUME Await PROVE Heard'
    BY <1>0, <1>14 DEF Heard, Await, Working, panel
  <1>15. ASSUME Halt PROVE Heard'
    BY <1>0, <1>15 DEF Heard, Halt, Working, panel
  <1>16. ASSUME Drain PROVE Heard'
    BY <1>0, <1>16 DEF Heard, Drain, Working, panel
  <1>17. ASSUME Confirm PROVE Heard'
    BY <1>0, <1>17 DEF Heard, Confirm, panel
  <1>18. ASSUME Save PROVE Heard'
    BY <1>0, <1>18 DEF Heard, Save, Working, panel
  <1>19. ASSUME Poll PROVE Heard'
    <2>1. UNCHANGED <<tag, revision, commands, fresh, box>> /\ wpc' # "ask" /\ wpc # "ask"
      BY <1>19 DEF Poll, Working, panel
    <2>2. PICK ok \in BOOLEAN :
            results' = Append(results, [revision |-> tag, running |-> ok /\ Running,
                                        available |-> ok, fresh |-> fresh /\ commands = <<>>])
      BY <1>19 DEF Poll
    <2>3. \A i \in DOMAIN results' :
            \/ i \in DOMAIN results /\ results'[i] = results[i]
            \/ results'[i].revision = tag /\ results'[i].fresh = (fresh /\ commands = <<>>)
      BY <2>2, Elements DEF Queues
    <2>4. tag = revision => commands = <<>>
      BY <1>0 DEF Heard
    <2> QED BY <2>1, <2>3, <2>4 DEF Heard
  <1>20. ASSUME Get PROVE Heard'
    <2>1. ASSUME commands # <<>> PROVE Head(commands)[1] = revision /\ Tail(commands) = <<>>
      <3>1. Len(Tail(commands)) = 0 /\ Tail(commands) \in Seq(Orders)
        BY <2>1, FirstAndRest DEF Heard, Queues, Orders
      <3> QED BY ZenonT(60), <2>1, <3>1, FirstAndRest DEF Heard, Queues, Orders
    <2>2. UNCHANGED <<revision, box, results>>
      BY <1>20 DEF Get
    <2>3. CASE commands # <<>>
      <3>1. tag' = revision /\ commands' = <<>> /\ wpc' = "ask"
        BY <1>20, <2>1, <2>3 DEF Get, Working
      <3> QED BY <1>0, <2>2, <3>1 DEF Heard
    <2>4. CASE commands = <<>> /\ UNCHANGED <<tag, commands, fresh>> /\ wpc = "get"
      BY <2>2, <2>4 DEF Heard
    <2> QED BY <1>20, <2>3, <2>4 DEF Get, Working
  <1>21. ASSUME Toggle PROVE Heard'
    <2>1. /\ revision' = revision + 1 /\ results' = <<>> /\ box'.enabled = FALSE
          /\ commands = <<>> /\ commands' = Append(commands, <<revision + 1, ~box.on>>)
          /\ UNCHANGED <<tag, fresh, wpc>>
      BY <1>21 DEF Toggle, worker, Heard
    <2>2. commands' = <<<<revision + 1, ~box.on>>>>
      BY <2>1
    <2> QED BY <1>0, <2>1, <2>2 DEF Heard
  <1>22. ASSUME Refresh PROVE Heard'
    <2>1. results' = <<>> /\ UNCHANGED <<tag, revision, commands, fresh, wpc>>
      BY <1>22 DEF Refresh, worker
    <2>2. box'.enabled => box'.heard /\ commands = <<>>
      <3>1. CASE UNCHANGED box
        BY <3>1 DEF Heard
      <3>2. CASE \E i \in DOMAIN results :
                   /\ results[i].revision = revision
                   /\ box' = [on |-> results[i].running, enabled |-> results[i].available,
                              heard |-> results[i].fresh]
        BY <3>2 DEF Heard
      <3> QED BY <1>22, <3>1, <3>2 DEF Refresh, Current
    <2> QED BY <2>1, <2>2 DEF Heard
  <1>23. ASSUME Reopen PROVE Heard'
    <2>1. ~fresh' => wpc' = "ask"
      BY <1>23, ReopenPicks DEF Flags
    <2>2. tag' = 0 /\ revision' = 0 /\ ~box'.enabled /\ commands' = <<>> /\ results' = <<>>
      BY <1>23, ReopenPicks
    <2> QED BY <2>1, <2>2 DEF Heard
  <1>24. ASSUME Drive PROVE Heard'
    BY <1>0, <1>24 DEF Heard, Drive, worker, panel
  <1>25. ASSUME GoesAfk PROVE Heard'
    BY <1>0, <1>25 DEF Heard, GoesAfk, worker, panel
  <1>26. ASSUME Returns PROVE Heard'
    BY <1>0, <1>26 DEF Heard, Returns, worker, panel
  <1>27. ASSUME Relog PROVE Heard'
    BY <1>0, <1>27 DEF Heard, Relog, worker, panel
  <1>28. CASE UNCHANGED vars
    BY <1>28 DEF Heard, vars, worker, panel
  <1> QED
    BY <1>1, <1>2, <1>3, <1>4, <1>5, <1>6, <1>7, <1>8, <1>9, <1>10, <1>11, <1>12, <1>13,
       <1>14, <1>15, <1>16, <1>17, <1>18, <1>19, <1>20, <1>21, <1>22, <1>23, <1>24, <1>25,
       <1>26, <1>27, <1>28
    DEF Next, GuardStep, WorkerStep, Game

LEMMA StandingStep == Places /\ Standing /\ [Next]_vars => Standing'
  <1> SUFFICES ASSUME Places, Standing, [Next]_vars PROVE Standing'
    OBVIOUS
  <1>1. ASSUME NEW g \in Guards, Boot(g) PROVE Standing'
    BY <1>1 DEF Standing, Places, Boot, Goto, game, disk, history
  <1>2. ASSUME NEW g \in Guards, Look(g) PROVE Standing'
    BY <1>2 DEF Standing, Places, Look, Goto, game, disk, history
  <1>3. ASSUME NEW g \in Guards, Sample(g) PROVE Standing'
    BY <1>3 DEF Standing, Places, Sample, Goto, game, disk, history
  <1>4. ASSUME NEW g \in Guards, Recheck(g) PROVE Standing'
    BY <1>4 DEF Standing, Places, Recheck, Goto, game, disk, history
  <1>5. ASSUME NEW g \in Guards, Mark(g) PROVE Standing'
    BY <1>5 DEF Standing, Places, Obstacles, Mark, Goto, game
  <1>6. ASSUME NEW g \in Guards, Pulse(g) PROVE Standing'
    BY <1>6
    DEF Standing, Places, Obstacles, Pulse, Goto, game, disk, latch, guard, worker, panel,
        history
  <1>7. ASSUME NEW g \in Guards, Press(g) PROVE Standing'
    BY <1>7 DEF Standing, Places, Press, Goto, game, disk
  <1>8. ASSUME NEW g \in Guards, Report(g) PROVE Standing'
    BY <1>8 DEF Standing, Places, Report, Goto, game, history
  <1>9. ASSUME NEW g \in Guards, End(g) PROVE Standing'
    BY <1>9 DEF Standing, Places, End, Goto, Exit, game
  <1>10. ASSUME NEW g \in Guards, Fail(g) PROVE Standing'
    BY <1>10 DEF Standing, Places, Fail, Exit, Goto, game
  <1>11. ASSUME NEW g \in Guards, Crash(g) PROVE Standing'
    BY <1>11 DEF Standing, Places, Crash, Exit, Goto, game
  <1>12. ASSUME Ask PROVE Standing'
    BY <1>12 DEF Standing, Places, Ask, game, guard
  <1>13. ASSUME Launch PROVE Standing'
    <2>1. \A g \in Guards : overruled'[g] \subseteq overruled[g]
      BY <1>13, LaunchPicks DEF Swept, Places
    <2>2. stopFile' = stopFile \/ stopFile' \/ \A g \in Guards : "stop" \notin overruled'[g]
      BY <1>13, LaunchPicks DEF Swept, Places
    <2>3. \A g \in Guards : gpc'[g] = "press" => gpc[g] = "press"
      BY <1>13, LaunchPicks DEF Places, Spawned, Comes, Goto, guard
    <2>4. movement' = movement
      BY <1>13, LaunchPicks DEF game
    <2> QED BY <2>1, <2>2, <2>3, <2>4 DEF Standing
  <1>14. ASSUME Await PROVE Standing'
    BY <1>14 DEF Standing, Places, Await, game, disk, guard, history
  <1>15. ASSUME Halt PROVE Standing'
    BY <1>15 DEF Standing, Places, Halt, game, guard, history
  <1>16. ASSUME Drain PROVE Standing'
    BY <1>16 DEF Standing, Places, Drain, game, disk, guard, history
  <1>17. ASSUME Confirm PROVE Standing'
    BY <1>17 DEF Standing, Places, Confirm, game, disk, guard
  <1>18. ASSUME Save PROVE Standing'
    BY <1>18 DEF Standing, Places, Save, game, guard, history
  <1>19. ASSUME Poll PROVE Standing'
    BY <1>19 DEF Standing, Places, Poll, game, disk, guard, history
  <1>20. ASSUME Get PROVE Standing'
    BY <1>20 DEF Standing, Places, Get, game, disk, guard, history
  <1>21. ASSUME Toggle PROVE Standing'
    BY <1>21 DEF Standing, Places, Toggle, game, disk, guard, history
  <1>22. ASSUME Refresh PROVE Standing'
    BY <1>22 DEF Standing, Places, Refresh, game, disk, guard, history
  <1>23. ASSUME Reopen PROVE Standing'
    <2>1. \A g \in Guards : overruled'[g] \subseteq overruled[g]
      BY <1>23, ReopenPicks DEF Swept, Places
    <2>2. stopFile' = stopFile \/ stopFile' \/ \A g \in Guards : "stop" \notin overruled'[g]
      BY <1>23, ReopenPicks DEF Swept, Places
    <2>3. \A g \in Guards : gpc'[g] = "press" => gpc[g] = "press"
      BY <1>23, ReopenPicks DEF Places, Spawned, Comes, Goto, guard
    <2>4. movement' = movement
      BY <1>23, ReopenPicks DEF game
    <2> QED BY <2>1, <2>2, <2>3, <2>4 DEF Standing
  <1>24. ASSUME Drive PROVE Standing'
    BY <1>24 DEF Standing, Places, Drive, disk, guard
  <1>25. ASSUME GoesAfk PROVE Standing'
    BY <1>25 DEF Standing, Places, GoesAfk, disk, guard
  <1>26. ASSUME Returns PROVE Standing'
    BY <1>26 DEF Standing, Places, Returns, disk, guard, history
  <1>27. ASSUME Relog PROVE Standing'
    BY <1>27 DEF Standing, Places, Relog, disk, guard
  <1>28. CASE UNCHANGED vars
    BY <1>28 DEF Standing, Places, vars, game, disk, guard, history
  <1> QED
    BY <1>1, <1>2, <1>3, <1>4, <1>5, <1>6, <1>7, <1>8, <1>9, <1>10, <1>11, <1>12, <1>13,
       <1>14, <1>15, <1>16, <1>17, <1>18, <1>19, <1>20, <1>21, <1>22, <1>23, <1>24, <1>25,
       <1>26, <1>27, <1>28
    DEF Next, GuardStep, WorkerStep, Game

-----------------------------------------------------------------------------
(* One guard, one jump: when a start waits for the guard's first record.    *)

\* A guard that a script starts finds none at work, unless one is unattended.
Newcomer(f) ==
  /\ gpc[f] = "off" /\ gpc' = [gpc EXCEPT ![f] = "boot"]
  /\ target' = [target EXCEPT ![f] = client] /\ UNCHANGED latch
  /\ ~beside' => ~beside /\ \A g \in Guards : gpc[g] = "off"
  /\ ~unattended' => wpc' = "await" /\ \A g \in Guards : gpc[g] = "off"

LEMMA ScriptPicks ==
  ASSUME Launch \/ Reopen, Single
  PROVE  /\ UNCHANGED <<client, afk, jumps, file>>
         /\ \/ UNCHANGED <<guard, beside>> /\ wpc' # "await"
            \/ \E f \in Guards : Newcomer(f)
  <1>1. ~Running /\ wpc = "launch" /\ ~unattended => \A g \in Guards : ~Active(g)
    BY DEF Single, Running
  <1>2. CASE Launch
    <2>1. UNCHANGED <<client, afk, jumps, file>>
      BY <1>2, LaunchPicks DEF game
    <2> QED BY <1>1, <1>2, <2>1, LaunchPicks DEF Spawned, Comes, Newcomer, Active, Goto
  <1>3. CASE Reopen
    <2>1. UNCHANGED <<client, afk, jumps, file>>
      BY <1>3, ReopenPicks DEF game
    <2> QED BY <1>3, <2>1, ReopenPicks DEF Spawned, Comes, Newcomer, Active, Goto
  <1> QED BY <1>2, <1>3

LEMMA SingleStep == Disk /\ Places /\ Single /\ [Next]_vars => Single'
  <1> SUFFICES ASSUME Disk, Places, Single, [Next]_vars PROVE Single'
    OBVIOUS
  <1>0. NoGuard \notin Guards
    BY StayOnlineAssumption DEF StayOnlineAssumption
  <1>1. ASSUME NEW g \in Guards, Boot(g) PROVE Single'
    BY <1>0, <1>1 DEF Single, Disk, Places, Active, Boot, Goto, disk, worker, attendance
  <1>2. ASSUME NEW g \in Guards, Look(g) PROVE Single'
    BY <1>0, <1>2 DEF Single, Disk, Places, Active, Look, Goto, disk, worker, history, attendance
  <1>3. ASSUME NEW g \in Guards, Sample(g) PROVE Single'
    BY <1>0, <1>3 DEF Single, Disk, Places, Active, Sample, Goto, disk, worker, history, attendance
  <1>4. ASSUME NEW g \in Guards, Recheck(g) PROVE Single'
    BY <1>0, <1>4 DEF Single, Disk, Places, Active, Recheck, Goto, disk, worker, history, attendance
  <1>5. ASSUME NEW g \in Guards, Mark(g) PROVE Single'
    BY <1>0, <1>5
    DEF Single, Disk, Places, Running, Active, Mark, Goto, Record, game, disk, latch, guard,
        worker, panel, history, attendance
  <1>6. ASSUME NEW g \in Guards, Pulse(g) PROVE Single'
    BY <1>0, <1>6 DEF Single, Disk, Places, Active, Pulse, Goto, disk, worker, history, attendance
  <1>7. ASSUME NEW g \in Guards, Press(g) PROVE Single'
    BY <1>0, <1>7 DEF Single, Disk, Places, Active, Press, Goto, disk, worker, attendance
  <1>8. ASSUME NEW g \in Guards, Report(g) PROVE Single'
    BY <1>0, <1>8
    DEF Single, Disk, Places, Running, Active, Report, Goto, Record, game, disk, latch,
        guard, worker, panel, history, attendance
  <1>9. ASSUME NEW g \in Guards, End(g) PROVE Single'
    <2>1. CASE Exit(g, Record(g, "ended"))
      BY <1>0, <1>9, <2>1, ExitLeaves
      DEF Single, Disk, Active, End, Record, worker
    <2>2. CASE Goto(g, "fail") /\ UNCHANGED <<file, unattended>>
      BY <1>0, <1>9, <2>2 DEF Single, Disk, Places, Active, Goto, End, worker
    <2> QED BY <1>9, <2>1, <2>2 DEF End
  <1>10. ASSUME NEW g \in Guards, Fail(g) PROVE Single'
    <2>1. CASE Exit(g, Record(g, "ended"))
      BY <1>0, <1>10, <2>1, ExitLeaves
      DEF Single, Disk, Active, Fail, Record, worker
    <2>2. CASE Exit(g, file)
      BY <1>0, <1>10, <2>2, ExitLeaves
      DEF Single, Disk, Active, Fail, worker
    <2> QED BY <1>10, <2>1, <2>2 DEF Fail
  <1>11. ASSUME NEW g \in Guards, Crash(g) PROVE Single'
    <2>1. CASE Exit(g, file)
      BY <1>0, <1>11, <2>1, ExitLeaves
      DEF Single, Disk, Active, Crash, Record, worker
    <2> QED BY <1>11, <2>1 DEF Crash
  <1>12. ASSUME Ask PROVE Single'
    BY <1>0, <1>12 DEF Single, Disk, Places, Running, Active, Ask, guard, attendance
  <1>13. ASSUME Launch PROVE Single'
    <2>1. CASE \E f \in Guards : Newcomer(f)
      BY <1>0, <1>13, <2>1, ScriptPicks DEF Newcomer, Single, Places, Running, Active
    <2>2. CASE wpc' # "await" /\ UNCHANGED <<gpc, beside>>
      BY <1>0, <1>13, <2>2, LaunchPicks DEF Single, Active
    <2> QED BY <1>13, <2>1, <2>2, ScriptPicks DEF guard
  <1>14. ASSUME Await PROVE Single'
    BY <1>0, <1>14 DEF Single, Disk, Places, Running, Active, Await, Working, disk, guard, Unnamed
  <1>15. ASSUME Halt PROVE Single'
    BY <1>0, <1>15 DEF Single, Disk, Places, Active, Halt, Working, guard, history, attendance
  <1>16. ASSUME Drain PROVE Single'
    BY <1>0, <1>16 DEF Single, Disk, Places, Running, Active, Drain, Working, disk, guard, history, attendance
  <1>17. ASSUME Confirm PROVE Single'
    BY <1>0, <1>17 DEF Single, Disk, Places, Running, Active, Confirm, disk, guard, attendance
  <1>18. ASSUME Save PROVE Single'
    BY <1>0, <1>18 DEF Single, Disk, Places, Active, Save, Working, guard, history, attendance
  <1>19. ASSUME Poll PROVE Single'
    BY <1>0, <1>19 DEF Single, Disk, Places, Running, Active, Poll, Working, disk, guard, history, attendance
  <1>20. ASSUME Get PROVE Single'
    BY <1>0, <1>20 DEF Single, Disk, Places, Active, Get, Working, disk, guard, history, attendance
  <1>21. ASSUME Toggle PROVE Single'
    BY <1>0, <1>21 DEF Single, Disk, Places, Active, Toggle, disk, guard, worker, history, attendance
  <1>22. ASSUME Refresh PROVE Single'
    BY <1>0, <1>22 DEF Single, Disk, Places, Active, Refresh, disk, guard, worker, history, attendance
  <1>23. ASSUME Reopen PROVE Single'
    <2>1. file' = file /\ wpc # "await" => wpc' # "await" \/ \E f \in Guards : Newcomer(f)
      BY <1>23, ScriptPicks, ReopenPicks DEF Single
    <2>2. CASE \E f \in Guards : Newcomer(f)
      BY <1>0, <1>23, <2>2, ScriptPicks DEF Newcomer, Single, Places, Running, Active
    <2>3. CASE UNCHANGED <<gpc, beside>>
      BY <1>0, <1>23, <2>1, <2>3, ReopenPicks DEF Single, Active, Unnamed
    <2> QED BY <1>23, <2>2, <2>3, ScriptPicks DEF guard
  <1>24. ASSUME Drive PROVE Single'
    BY <1>0, <1>24 DEF Single, Disk, Places, Active, Drive, disk, guard, worker, attendance
  <1>25. ASSUME GoesAfk PROVE Single'
    BY <1>0, <1>25 DEF Single, Disk, Places, Active, GoesAfk, disk, guard, worker, NewPeriod
  <1>26. ASSUME Returns PROVE Single'
    BY <1>0, <1>26 DEF Single, Disk, Places, Active, Returns, disk, guard, worker, history, attendance
  <1>27. ASSUME Relog PROVE Single'
    BY <1>0, <1>27 DEF Single, Disk, Places, Active, Relog, disk, guard, worker, NewPeriod
  <1>28. CASE UNCHANGED vars
    BY <1>28 DEF Single, Disk, Places, Active, vars, disk, guard, worker, history, attendance
  <1> QED
    BY <1>1, <1>2, <1>3, <1>4, <1>5, <1>6, <1>7, <1>8, <1>9, <1>10, <1>11, <1>12, <1>13,
       <1>14, <1>15, <1>16, <1>17, <1>18, <1>19, <1>20, <1>21, <1>22, <1>23, <1>24, <1>25,
       <1>26, <1>27, <1>28
    DEF Next, GuardStep, WorkerStep, Game

LEMMA AttemptStep == Disk /\ Places /\ Marks /\ Single /\ Attempt /\ [Next]_vars => Attempt'
  <1> SUFFICES ASSUME Disk, Places, Marks, Single, Attempt, [Next]_vars PROVE Attempt'
    OBVIOUS
  <1>0. NoGuard \notin Guards
    BY StayOnlineAssumption DEF StayOnlineAssumption
  <1>1. ASSUME NEW g \in Guards, Boot(g) PROVE Attempt'
    BY <1>0, <1>1 DEF Attempt, Single, Disk, Places, Marks, Boot, Goto, game, disk, attendance
  <1>2. ASSUME NEW g \in Guards, Look(g) PROVE Attempt'
    BY <1>0, <1>2
    DEF Attempt, Single, Disk, Places, Marks, Look, Goto, Forget, game, disk, latch, history, attendance
  <1>3. ASSUME NEW g \in Guards, Sample(g) PROVE Attempt'
    BY <1>0, <1>3
    DEF Attempt, Single, Disk, Places, Marks, Sample, Goto, Forget, Observe, game, disk, latch, history, attendance
  <1>4. ASSUME NEW g \in Guards, Recheck(g) PROVE Attempt'
    BY <1>0, <1>4 DEF Attempt, Single, Disk, Places, Marks, Recheck, Goto, game, disk, history, attendance
  <1>5. ASSUME NEW g \in Guards, Mark(g) PROVE Attempt'
    BY <1>0, <1>5
    DEF Attempt, Single, Disk, Places, Marks, Active, Mark, Goto, Record, game, disk, latch,
        guard, worker, panel, history, attendance
  <1>6. ASSUME NEW g \in Guards, Pulse(g) PROVE Attempt'
    BY <1>0, <1>6 DEF Attempt, Single, Disk, Places, Marks, Pulse, Goto, game, disk, latch, history, attendance
  <1>7. ASSUME NEW g \in Guards, Press(g) PROVE Attempt'
    BY <1>0, <1>7 DEF Attempt, Single, Disk, Places, Marks, Press, Goto, game, disk, latch, attendance
  <1>8. ASSUME NEW g \in Guards, Report(g) PROVE Attempt'
    BY <1>0, <1>8
    DEF Attempt, Single, Disk, Places, Marks, Active, Report, Goto, Record, game, disk,
        latch, guard, worker, panel, history, attendance
  <1>9. ASSUME NEW g \in Guards, End(g) PROVE Attempt'
    BY <1>0, <1>9
    DEF Attempt, Single, Disk, Places, Marks, Active, End, Goto, Record, Exit, game, disk,
        latch, guard, worker, panel, history
  <1>10. ASSUME NEW g \in Guards, Fail(g) PROVE Attempt'
    BY <1>0, <1>10
    DEF Attempt, Single, Disk, Places, Marks, Active, Fail, Record, Exit, Goto, game, disk,
        latch, guard, worker, panel, history
  <1>11. ASSUME NEW g \in Guards, Crash(g) PROVE Attempt'
    BY <1>0, <1>11 DEF Attempt, Single, Disk, Places, Marks, Crash, Exit, Goto, game
  <1>12. ASSUME Ask PROVE Attempt'
    BY <1>0, <1>12 DEF Attempt, Single, Disk, Places, Marks, Ask, game, latch, guard, attendance
  <1>13. ASSUME Launch PROVE Attempt'
    <2>1. CASE \E f \in Guards : Newcomer(f)
      BY <1>13, <2>1, ScriptPicks DEF Newcomer, Attempt, Places, latch
    <2>2. CASE UNCHANGED <<guard, beside>>
      BY <1>13, <2>2, ScriptPicks DEF Attempt, guard, latch
    <2> QED BY <1>13, <2>1, <2>2, ScriptPicks
  <1>14. ASSUME Await PROVE Attempt'
    BY <1>0, <1>14
    DEF Attempt, Single, Disk, Places, Marks, Active, Await, game, disk, latch, guard
  <1>15. ASSUME Halt PROVE Attempt'
    BY <1>0, <1>15 DEF Attempt, Single, Disk, Places, Marks, Halt, game, latch, guard, history, attendance
  <1>16. ASSUME Drain PROVE Attempt'
    BY <1>0, <1>16 DEF Attempt, Single, Disk, Places, Marks, Drain, game, disk, latch, guard, history, attendance
  <1>17. ASSUME Confirm PROVE Attempt'
    BY <1>0, <1>17 DEF Attempt, Single, Disk, Places, Marks, Confirm, game, disk, latch, guard, attendance
  <1>18. ASSUME Save PROVE Attempt'
    BY <1>0, <1>18 DEF Attempt, Single, Disk, Places, Marks, Save, game, latch, guard, history, attendance
  <1>19. ASSUME Poll PROVE Attempt'
    BY <1>0, <1>19 DEF Attempt, Single, Disk, Places, Marks, Poll, game, disk, latch, guard, history, attendance
  <1>20. ASSUME Get PROVE Attempt'
    BY <1>0, <1>20 DEF Attempt, Single, Disk, Places, Marks, Get, game, disk, latch, guard, history, attendance
  <1>21. ASSUME Toggle PROVE Attempt'
    BY <1>0, <1>21 DEF Attempt, Single, Disk, Places, Marks, Toggle, game, disk, latch, guard, history, attendance
  <1>22. ASSUME Refresh PROVE Attempt'
    BY <1>0, <1>22 DEF Attempt, Single, Disk, Places, Marks, Refresh, game, disk, latch, guard, history, attendance
  <1>23. ASSUME Reopen PROVE Attempt'
    <2>1. CASE \E f \in Guards : Newcomer(f)
      BY <1>23, <2>1, ScriptPicks DEF Newcomer, Attempt, Places, latch
    <2>2. CASE UNCHANGED <<guard, beside>>
      BY <1>23, <2>2, ScriptPicks DEF Attempt, guard, latch
    <2> QED BY <1>23, <2>1, <2>2, ScriptPicks
  <1>24. ASSUME Drive PROVE Attempt'
    BY <1>0, <1>24 DEF Attempt, Single, Disk, Places, Marks, Drive, disk, latch, guard, attendance
  <1>25. ASSUME GoesAfk PROVE Attempt'
    <2>1. UNCHANGED <<gpc, target, handled, file>>
      BY <1>25 DEF GoesAfk, disk, guard, latch
    <2>2. beside' = (beside /\ \E g \in Guards : gpc[g] # "off")
      BY <1>25 DEF GoesAfk, NewPeriod, Active
    <2> QED BY <2>1, <2>2 DEF Attempt
  <1>26. ASSUME Returns PROVE Attempt'
    BY <1>0, <1>26 DEF Attempt, Single, Disk, Places, Marks, Returns, disk, latch, guard, history, attendance
  <1>27. ASSUME Relog PROVE Attempt'
    <2>1. UNCHANGED <<gpc, target, handled, file>>
      BY <1>27 DEF Relog, disk, guard, latch
    <2>2. beside' = (beside /\ \E g \in Guards : gpc[g] # "off")
      BY <1>27 DEF Relog, NewPeriod, Active
    <2> QED BY <2>1, <2>2 DEF Attempt
  <1>28. CASE UNCHANGED vars
    BY <1>28 DEF Attempt, Single, Disk, Places, Marks, vars, game, disk, latch, guard, history, attendance
  <1> QED
    BY <1>1, <1>2, <1>3, <1>4, <1>5, <1>6, <1>7, <1>8, <1>9, <1>10, <1>11, <1>12, <1>13,
       <1>14, <1>15, <1>16, <1>17, <1>18, <1>19, <1>20, <1>21, <1>22, <1>23, <1>24, <1>25,
       <1>26, <1>27, <1>28
    DEF Next, GuardStep, WorkerStep, Game

LEMMA KnownStep ==
  Clock /\ Disk /\ Places /\ Marks /\ Single /\ Attempt /\ Known /\ [Next]_vars => Known'
  <1> SUFFICES ASSUME Clock, Disk, Places, Marks, Single, Attempt, Known, [Next]_vars PROVE Known'
    OBVIOUS
  <1>0. NoGuard \notin Guards
    BY StayOnlineAssumption DEF StayOnlineAssumption
  <1>1. ASSUME NEW g \in Guards, Boot(g) PROVE Known'
    BY <1>0, <1>1
    DEF Known, Attempt, Single, Disk, Places, Marks, Active, Clock, Boot, Goto, game, disk,
        history, attendance
  <1>2. ASSUME NEW g \in Guards, Look(g) PROVE Known'
    BY <1>0, <1>2
    DEF Known, Attempt, Single, Disk, Places, Marks, Active, Clock, Look, Goto, Forget, game,
        disk, latch, history, attendance
  <1>3. ASSUME NEW g \in Guards, Sample(g) PROVE Known'
    BY <1>0, <1>3
    DEF Known, Attempt, Single, Disk, Places, Marks, Active, Clock, Sample, Goto, Forget,
        Observe, game, disk, latch, history, attendance
  <1>4. ASSUME NEW g \in Guards, Recheck(g) PROVE Known'
    BY <1>0, <1>4
    DEF Known, Attempt, Single, Disk, Places, Marks, Active, Clock, Recheck, Goto, game, disk,
        history, attendance
  <1>5. ASSUME NEW g \in Guards, Mark(g) PROVE Known'
    BY <1>0, <1>5
    DEF Known, Attempt, Single, Disk, Places, Marks, Active, Clock, Mark, Goto, Record, game,
        latch, attendance
  <1>6. ASSUME NEW g \in Guards, Pulse(g) PROVE Known'
    BY <1>0, <1>6
    DEF Known, Attempt, Single, Disk, Places, Marks, Active, Clock, Pulse, Goto, game, disk,
        latch, history, attendance
  <1>7. ASSUME NEW g \in Guards, Press(g) PROVE Known'
    BY <1>0, <1>7
    DEF Known, Attempt, Single, Disk, Places, Marks, Active, Clock, Press, Goto, game, disk,
        latch, attendance
  <1>8. ASSUME NEW g \in Guards, Report(g) PROVE Known'
    BY <1>0, <1>8
    DEF Known, Attempt, Single, Disk, Places, Marks, Active, Clock, Report, Goto, Record, game,
        latch, history, attendance
  <1>9. ASSUME NEW g \in Guards, End(g) PROVE Known'
    BY <1>0, <1>9
    DEF Known, Attempt, Single, Disk, Places, Marks, Active, Clock, End, Goto, Record, Exit,
        game, latch
  <1>10. ASSUME NEW g \in Guards, Fail(g) PROVE Known'
    BY <1>0, <1>10
    DEF Known, Attempt, Single, Disk, Places, Marks, Active, Clock, Fail, Record, Exit, Goto,
        game
  <1>11. ASSUME NEW g \in Guards, Crash(g) PROVE Known'
    BY <1>0, <1>11
    DEF Known, Attempt, Single, Disk, Places, Marks, Active, Clock, Crash, Exit, Goto, game
  <1>12. ASSUME Ask PROVE Known'
    BY <1>0, <1>12
    DEF Known, Attempt, Single, Disk, Places, Marks, Active, Clock, Ask, game, latch, guard, attendance
  <1>13. ASSUME Launch PROVE Known'
    <2>1. CASE \E f \in Guards : Newcomer(f)
      BY <1>13, <2>1, ScriptPicks DEF Newcomer, Known, Places, Clock, Active, latch
    <2>2. CASE UNCHANGED <<guard, beside>>
      BY <1>13, <2>2, ScriptPicks DEF Known, Active, guard, latch
    <2> QED BY <1>13, <2>1, <2>2, ScriptPicks
  <1>14. ASSUME Await PROVE Known'
    BY <1>0, <1>14
    DEF Known, Attempt, Single, Disk, Places, Marks, Active, Clock, Await, game, disk, latch,
        guard, history
  <1>15. ASSUME Halt PROVE Known'
    BY <1>0, <1>15
    DEF Known, Attempt, Single, Disk, Places, Marks, Active, Clock, Halt, game, latch, guard,
        history, attendance
  <1>16. ASSUME Drain PROVE Known'
    BY <1>0, <1>16
    DEF Known, Attempt, Single, Disk, Places, Marks, Active, Clock, Drain, game, disk, latch,
        guard, history, attendance
  <1>17. ASSUME Confirm PROVE Known'
    BY <1>0, <1>17
    DEF Known, Attempt, Single, Disk, Places, Marks, Active, Clock, Confirm, game, disk, latch,
        guard, attendance
  <1>18. ASSUME Save PROVE Known'
    BY <1>0, <1>18
    DEF Known, Attempt, Single, Disk, Places, Marks, Active, Clock, Save, game, latch, guard,
        history, attendance
  <1>19. ASSUME Poll PROVE Known'
    BY <1>0, <1>19
    DEF Known, Attempt, Single, Disk, Places, Marks, Active, Clock, Poll, game, disk, latch,
        guard, history, attendance
  <1>20. ASSUME Get PROVE Known'
    BY <1>0, <1>20
    DEF Known, Attempt, Single, Disk, Places, Marks, Active, Clock, Get, game, disk, latch,
        guard, history, attendance
  <1>21. ASSUME Toggle PROVE Known'
    BY <1>0, <1>21
    DEF Known, Attempt, Single, Disk, Places, Marks, Active, Clock, Toggle, game, disk, latch,
        guard, history, attendance
  <1>22. ASSUME Refresh PROVE Known'
    BY <1>0, <1>22
    DEF Known, Attempt, Single, Disk, Places, Marks, Active, Clock, Refresh, game, disk, latch,
        guard, history, attendance
  <1>23. ASSUME Reopen PROVE Known'
    <2>1. CASE \E f \in Guards : Newcomer(f)
      BY <1>23, <2>1, ScriptPicks DEF Newcomer, Known, Places, Clock, Active, latch
    <2>2. CASE UNCHANGED <<guard, beside>>
      BY <1>23, <2>2, ScriptPicks DEF Known, Active, guard, latch
    <2> QED BY <1>23, <2>1, <2>2, ScriptPicks
  <1>24. ASSUME Drive PROVE Known'
    BY <1>0, <1>24
    DEF Known, Attempt, Single, Disk, Places, Marks, Active, Clock, Drive, disk, latch, guard, attendance
  <1>25. ASSUME GoesAfk PROVE Known'
    BY <1>0, <1>25
    DEF Known, Attempt, Single, Disk, Places, Marks, Active, Clock, GoesAfk, disk, latch, guard, NewPeriod
  <1>26. ASSUME Returns PROVE Known'
    BY <1>0, <1>26
    DEF Known, Attempt, Single, Disk, Places, Marks, Active, Clock, Returns, disk, latch, guard,
        history, attendance
  <1>27. ASSUME Relog PROVE Known'
    BY <1>0, <1>27
    DEF Known, Attempt, Single, Disk, Places, Marks, Active, Clock, Relog, disk, latch, guard, NewPeriod
  <1>28. CASE UNCHANGED vars
    BY <1>28
    DEF Known, Attempt, Single, Disk, Places, Marks, Active, Clock, vars, game, disk, latch,
        guard, history, attendance
  <1> QED
    BY <1>1, <1>2, <1>3, <1>4, <1>5, <1>6, <1>7, <1>8, <1>9, <1>10, <1>11, <1>12, <1>13,
       <1>14, <1>15, <1>16, <1>17, <1>18, <1>19, <1>20, <1>21, <1>22, <1>23, <1>24, <1>25,
       <1>26, <1>27, <1>28
    DEF Next, GuardStep, WorkerStep, Game

-----------------------------------------------------------------------------
(* Theorems.                                                               *)

Types == Clock /\ Places /\ Samples /\ Disk /\ Marks /\ Flags /\ Queues

GuardInv == Types /\ Asked /\ Heard /\ Standing

LEMMA TypesInit == Init => Types
  <1>1. Init => Clock /\ Places /\ Samples
    BY StayOnlineAssumption DEF StayOnlineAssumption, Init, Clock, Places, Samples
  <1>2. Init => Disk
    BY StayOnlineAssumption DEF StayOnlineAssumption, Init, Disk
  <1>3. Init => Marks
    BY DEF Init, Marks
  <1>4. Init => Flags
    BY ZenonT(30) DEF Init, Flags
  <1>5. Init => Queues
    BY StayOnlineAssumption DEF StayOnlineAssumption, Init, Queues
  <1> QED BY <1>1, <1>2, <1>3, <1>4, <1>5 DEF Types

LEMMA GuardInvariant == Spec => []GuardInv
  <1>1. Init => GuardInv
    <2>1. Init => Asked
      BY DEF Init, Asked
    <2>2. Init => Heard
      BY DEF Init, Heard
    <2>3. Init => Standing
      BY DEF Init, Standing
    <2> QED BY <2>1, <2>2, <2>3, TypesInit DEF GuardInv
  <1>2. Types /\ [Next]_vars => Types'
    BY PlacesStep, ClockStep, SamplesStep, MarksStep, DiskStep, FlagsStep, QueuesStep DEF Types
  <1>3. GuardInv /\ [Next]_vars => GuardInv'
    BY <1>2, AskedStep, HeardStep, StandingStep DEF GuardInv, Types
  <1> QED BY <1>1, <1>3, PTL DEF Spec

\* Every variable of the guard and of its control keeps its kind, whatever
\* crashes, fails to be written or is given up.
THEOREM GuardTypeCorrect == Spec => []TypeOK
  <1>1. GuardInv => TypeOK
    BY DEF GuardInv, Types, Clock, Places, Samples, Disk, Marks, Flags, Queues, TypeOK
  <1> QED BY <1>1, GuardInvariant, PTL

\* The checkbox can be clicked only when it shows what was found after its last
\* command, in whatever order results and clicks are collected.
THEOREM BoxTellsTheTruth == Spec => []BoxIsCurrent
  <1>1. GuardInv => BoxIsCurrent
    BY DEF GuardInv, Heard, BoxIsCurrent
  <1> QED BY <1>1, GuardInvariant, PTL

\* No guard is started between a disable that was begun and the next click that
\* asks for one, through failures of its steps and openings of the window.
THEOREM DisableSticks == Spec => OptOutSticks
  <1>1. GuardInv /\ [Next]_vars =>
          [\A g \in Guards : ~Active(g) /\ Active(g)' => ~optedOut]_vars
    <2> SUFFICES ASSUME GuardInv, [Next]_vars, NEW g \in Guards, ~Active(g), Active(g)'
                 PROVE  ~optedOut
      OBVIOUS
    <2>1. gpc[g] = "off" /\ gpc'[g] # "off" /\ gpc' # gpc
      BY DEF Active
    <2>2. CASE Launch \/ Reopen
      BY <2>1, <2>2, LaunchPicks, ReopenPicks DEF GuardInv, Asked, guard
    <2>3. ASSUME NEW h \in Guards, GuardStep(h) \/ Crash(h) PROVE FALSE
      <3>1. gpc[h] # "off"
        BY <2>3 DEF GuardStep, Boot, Look, Sample, Recheck, Mark, Pulse, Press, Report, End,
                    Fail, Crash
      <3>2. gpc'[g] = gpc[g] \/ g = h
        BY <2>3 DEF GuardStep, Boot, Look, Sample, Recheck, Mark, Pulse, Press, Report, End,
                    Fail, Crash, Exit, Goto, GuardInv, Types, Places
      <3> QED BY <2>1, <3>1, <3>2
    <2> QED BY <2>1, <2>2, <2>3
        DEF Next, WorkerStep, Game, Ask, Await, Halt, Drain, Confirm, Save, Poll, Get, Toggle,
            Refresh, Reopen, Drive, GoesAfk, Returns, Relog, vars, guard, Goto
  <1> QED BY <1>1, GuardInvariant, PTL DEF Spec, OptOutSticks

\* A jump is never made over a program that drives the client, or a stop, that
\* stood when the attempt was marked and has stood ever since.
THEOREM NeverJumpsOver == Spec => ObstaclesHold
  <1>1. GuardInv /\ [Next]_vars =>
          [\A g \in Guards : jumps' > jumps /\ gpc[g] = "press" => overruled[g] = {}]_vars
    BY DEF GuardInv, Standing
  <1> QED BY <1>1, GuardInvariant, PTL DEF Spec, ObstaclesHold

LEMMA AloneInvariant == Spec => [](Single /\ Attempt /\ Known)
  <1>1. Init => Single /\ Attempt /\ Known
    BY StayOnlineAssumption DEF StayOnlineAssumption, Init, Single, Attempt, Known, Active
  <1>2. GuardInv /\ (Single /\ Attempt /\ Known) /\ [Next]_vars => (Single /\ Attempt /\ Known)'
    BY SingleStep, AttemptStep, KnownStep DEF GuardInv, Types
  <1> QED BY <1>1, <1>2, GuardInvariant, PTL DEF Spec

LEMMA OneJumpStep == Clock /\ Known /\ OneJumpAlone /\ [Next]_vars => OneJumpAlone'
  <1> SUFFICES ASSUME Clock, Known, OneJumpAlone, [Next]_vars PROVE OneJumpAlone'
    OBVIOUS
  <1>1. ASSUME NEW g \in Guards, Boot(g) PROVE OneJumpAlone'
    BY <1>1 DEF OneJumpAlone, Known, Clock, Boot, history, attendance
  <1>2. ASSUME NEW g \in Guards, Look(g) PROVE OneJumpAlone'
    BY <1>2 DEF OneJumpAlone, Known, Clock, Look, history, attendance
  <1>3. ASSUME NEW g \in Guards, Sample(g) PROVE OneJumpAlone'
    BY <1>3 DEF OneJumpAlone, Known, Clock, Sample, history, attendance
  <1>4. ASSUME NEW g \in Guards, Recheck(g) PROVE OneJumpAlone'
    BY <1>4 DEF OneJumpAlone, Known, Clock, Recheck, history, attendance
  <1>5. ASSUME NEW g \in Guards, Mark(g) PROVE OneJumpAlone'
    BY <1>5 DEF OneJumpAlone, Known, Clock, Mark, attendance
  <1>6. ASSUME NEW g \in Guards, Pulse(g) PROVE OneJumpAlone'
    BY <1>6 DEF OneJumpAlone, Known, Clock, Pulse, history, attendance
  <1>7. ASSUME NEW g \in Guards, Press(g) PROVE OneJumpAlone'
    BY <1>7 DEF OneJumpAlone, Known, Clock, Press, attendance
  <1>8. ASSUME NEW g \in Guards, Report(g) PROVE OneJumpAlone'
    BY <1>8 DEF OneJumpAlone, Known, Clock, Report, history, attendance
  <1>9. ASSUME NEW g \in Guards, End(g) PROVE OneJumpAlone'
    BY <1>9 DEF OneJumpAlone, Known, Clock, End, Exit
  <1>10. ASSUME NEW g \in Guards, Fail(g) PROVE OneJumpAlone'
    BY <1>10 DEF OneJumpAlone, Known, Clock, Fail, Exit
  <1>11. ASSUME NEW g \in Guards, Crash(g) PROVE OneJumpAlone'
    BY <1>11 DEF OneJumpAlone, Known, Clock, Crash, Exit
  <1>12. ASSUME Ask PROVE OneJumpAlone'
    BY <1>12 DEF OneJumpAlone, Known, Clock, Ask, attendance
  <1>13. ASSUME Launch PROVE OneJumpAlone'
    BY <1>13, LaunchPicks DEF OneJumpAlone
  <1>14. ASSUME Await PROVE OneJumpAlone'
    BY <1>14 DEF OneJumpAlone, Known, Clock, Await, history
  <1>15. ASSUME Halt PROVE OneJumpAlone'
    BY <1>15 DEF OneJumpAlone, Known, Clock, Halt, history, attendance
  <1>16. ASSUME Drain PROVE OneJumpAlone'
    BY <1>16 DEF OneJumpAlone, Known, Clock, Drain, history, attendance
  <1>17. ASSUME Confirm PROVE OneJumpAlone'
    BY <1>17 DEF OneJumpAlone, Known, Clock, Confirm, attendance
  <1>18. ASSUME Save PROVE OneJumpAlone'
    BY <1>18 DEF OneJumpAlone, Known, Clock, Save, history, attendance
  <1>19. ASSUME Poll PROVE OneJumpAlone'
    BY <1>19 DEF OneJumpAlone, Known, Clock, Poll, history, attendance
  <1>20. ASSUME Get PROVE OneJumpAlone'
    BY <1>20 DEF OneJumpAlone, Known, Clock, Get, history, attendance
  <1>21. ASSUME Toggle PROVE OneJumpAlone'
    BY <1>21 DEF OneJumpAlone, Known, Clock, Toggle, history, attendance
  <1>22. ASSUME Refresh PROVE OneJumpAlone'
    BY <1>22 DEF OneJumpAlone, Known, Clock, Refresh, history, attendance
  <1>23. ASSUME Reopen PROVE OneJumpAlone'
    BY <1>23, ReopenPicks DEF OneJumpAlone
  <1>24. ASSUME Drive PROVE OneJumpAlone'
    BY <1>24 DEF OneJumpAlone, Known, Clock, Drive, attendance
  <1>25. ASSUME GoesAfk PROVE OneJumpAlone'
    BY <1>25 DEF OneJumpAlone, Known, Clock, GoesAfk, NewPeriod
  <1>26. ASSUME Returns PROVE OneJumpAlone'
    BY <1>26 DEF OneJumpAlone, Known, Clock, Returns, history, attendance
  <1>27. ASSUME Relog PROVE OneJumpAlone'
    BY <1>27 DEF OneJumpAlone, Known, Clock, Relog, NewPeriod
  <1>28. CASE UNCHANGED vars
    BY <1>28 DEF OneJumpAlone, Known, Clock, vars, history, attendance
  <1> QED
    BY <1>1, <1>2, <1>3, <1>4, <1>5, <1>6, <1>7, <1>8, <1>9, <1>10, <1>11, <1>12, <1>13,
       <1>14, <1>15, <1>16, <1>17, <1>18, <1>19, <1>20, <1>21, <1>22, <1>23, <1>24, <1>25,
       <1>26, <1>27, <1>28
    DEF Next, GuardStep, WorkerStep, Game

LEMMA OffStep == Disk /\ Places /\ Single /\ OffMeansOff /\ [Next]_vars => OffMeansOff'
  <1> SUFFICES ASSUME Disk, Places, Single, OffMeansOff, [Next]_vars PROVE OffMeansOff'
    OBVIOUS
  <1>1. ASSUME NEW g \in Guards, Boot(g) PROVE OffMeansOff'
    BY <1>1 DEF OffMeansOff, Single, Disk, Places, Active, Boot, Goto, history, attendance
  <1>2. ASSUME NEW g \in Guards, Look(g) PROVE OffMeansOff'
    BY <1>2 DEF OffMeansOff, Single, Disk, Places, Active, Look, Goto, history, attendance
  <1>3. ASSUME NEW g \in Guards, Sample(g) PROVE OffMeansOff'
    BY <1>3 DEF OffMeansOff, Single, Disk, Places, Active, Sample, Goto, history, attendance
  <1>4. ASSUME NEW g \in Guards, Recheck(g) PROVE OffMeansOff'
    BY <1>4 DEF OffMeansOff, Single, Disk, Places, Active, Recheck, Goto, history, attendance
  <1>5. ASSUME NEW g \in Guards, Mark(g) PROVE OffMeansOff'
    BY <1>5 DEF OffMeansOff, Single, Disk, Places, Active, Mark, Goto, attendance
  <1>6. ASSUME NEW g \in Guards, Pulse(g) PROVE OffMeansOff'
    BY <1>6 DEF OffMeansOff, Single, Disk, Places, Active, Pulse, Goto, history, attendance
  <1>7. ASSUME NEW g \in Guards, Press(g) PROVE OffMeansOff'
    BY <1>7 DEF OffMeansOff, Single, Disk, Places, Active, Press, Goto, attendance
  <1>8. ASSUME NEW g \in Guards, Report(g) PROVE OffMeansOff'
    BY <1>8 DEF OffMeansOff, Single, Disk, Places, Active, Report, Goto, history, attendance
  <1>9. ASSUME NEW g \in Guards, End(g) PROVE OffMeansOff'
    <2>1. CASE Exit(g, Record(g, "ended"))
      BY <1>9, <2>1, ExitLeaves DEF OffMeansOff, Active, End
    <2>2. CASE Goto(g, "fail") /\ UNCHANGED <<file, unattended>>
      BY <1>9, <2>2 DEF OffMeansOff, Places, Active, Goto, End
    <2> QED BY <1>9, <2>1, <2>2 DEF End
  <1>10. ASSUME NEW g \in Guards, Fail(g) PROVE OffMeansOff'
    <2>1. CASE Exit(g, Record(g, "ended"))
      BY <1>10, <2>1, ExitLeaves DEF OffMeansOff, Active, Fail
    <2>2. CASE Exit(g, file)
      BY <1>10, <2>2, ExitLeaves DEF OffMeansOff, Active, Fail
    <2> QED BY <1>10, <2>1, <2>2 DEF Fail
  <1>11. ASSUME NEW g \in Guards, Crash(g) PROVE OffMeansOff'
    <2>1. CASE Exit(g, file)
      BY <1>11, <2>1, ExitLeaves DEF OffMeansOff, Active, Crash
    <2> QED BY <1>11, <2>1 DEF Crash
  <1>12. ASSUME Ask PROVE OffMeansOff'
    BY <1>12 DEF OffMeansOff, Single, Disk, Places, Running, Active, Ask, guard, attendance
  <1>13. ASSUME Launch PROVE OffMeansOff'
    BY <1>13, LaunchPicks DEF OffMeansOff, Active, guard
  <1>14. ASSUME Await PROVE OffMeansOff'
    BY <1>14 DEF OffMeansOff, Single, Disk, Places, Running, Active, Await, guard, history
  <1>15. ASSUME Halt PROVE OffMeansOff'
    BY <1>15 DEF OffMeansOff, Single, Disk, Places, Active, Halt, guard, history, attendance
  <1>16. ASSUME Drain PROVE OffMeansOff'
    BY <1>16 DEF OffMeansOff, Single, Disk, Places, Running, Active, Drain, guard, history, attendance
  <1>17. ASSUME Confirm PROVE OffMeansOff'
    BY <1>17 DEF OffMeansOff, Single, Disk, Places, Running, Active, Confirm, guard, attendance
  <1>18. ASSUME Save PROVE OffMeansOff'
    BY <1>18 DEF OffMeansOff, Single, Disk, Places, Active, Save, guard, history, attendance
  <1>19. ASSUME Poll PROVE OffMeansOff'
    BY <1>19 DEF OffMeansOff, Single, Disk, Places, Running, Active, Poll, guard, history, attendance
  <1>20. ASSUME Get PROVE OffMeansOff'
    BY <1>20 DEF OffMeansOff, Single, Disk, Places, Active, Get, guard, history, attendance
  <1>21. ASSUME Toggle PROVE OffMeansOff'
    BY <1>21 DEF OffMeansOff, Single, Disk, Places, Active, Toggle, guard, history, attendance
  <1>22. ASSUME Refresh PROVE OffMeansOff'
    BY <1>22 DEF OffMeansOff, Single, Disk, Places, Active, Refresh, guard, history, attendance
  <1>23. ASSUME Reopen PROVE OffMeansOff'
    BY <1>23, ReopenPicks DEF OffMeansOff, Active, guard
  <1>24. ASSUME Drive PROVE OffMeansOff'
    BY <1>24 DEF OffMeansOff, Single, Disk, Places, Active, Drive, guard, attendance
  <1>25. ASSUME GoesAfk PROVE OffMeansOff'
    BY <1>25 DEF OffMeansOff, Single, Disk, Places, Active, GoesAfk, guard, NewPeriod
  <1>26. ASSUME Returns PROVE OffMeansOff'
    BY <1>26 DEF OffMeansOff, Single, Disk, Places, Active, Returns, guard, history, attendance
  <1>27. ASSUME Relog PROVE OffMeansOff'
    BY <1>27 DEF OffMeansOff, Single, Disk, Places, Active, Relog, guard, NewPeriod
  <1>28. CASE UNCHANGED vars
    BY <1>28 DEF OffMeansOff, Single, Disk, Places, Active, vars, guard, history, attendance
  <1> QED
    BY <1>1, <1>2, <1>3, <1>4, <1>5, <1>6, <1>7, <1>8, <1>9, <1>10, <1>11, <1>12, <1>13,
       <1>14, <1>15, <1>16, <1>17, <1>18, <1>19, <1>20, <1>21, <1>22, <1>23, <1>24, <1>25,
       <1>26, <1>27, <1>28
    DEF Next, GuardStep, WorkerStep, Game

\* The client gets at most one jump in each AFK period, through crashes of the guard,
\* records that cannot be written, starts that are given up and guards started again,
\* until a guard is started beside one that was left unattended.
THEOREM OneJumpEach == Spec => []OneJumpAlone
  <1>1. Init => OneJumpAlone
    BY DEF Init, OneJumpAlone
  <1>2. GuardInv /\ Known /\ OneJumpAlone /\ [Next]_vars => OneJumpAlone'
    BY OneJumpStep DEF GuardInv, Types
  <1> QED BY <1>1, <1>2, GuardInvariant, AloneInvariant, PTL DEF Spec

\* A confirmed disable means that no guard is at work, unless a start was given up and
\* left one unattended that has not gone since.
THEOREM OffIsOff == Spec => []OffMeansOff
  <1>1. Init => OffMeansOff
    BY DEF Init, OffMeansOff, Active
  <1>2. GuardInv /\ Single /\ OffMeansOff /\ [Next]_vars => OffMeansOff'
    BY OffStep DEF GuardInv, Types
  <1> QED BY <1>1, <1>2, GuardInvariant, AloneInvariant, PTL DEF Spec
=============================================================================
