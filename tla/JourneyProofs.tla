--------------------------- MODULE JourneyProofs ---------------------------
(***************************************************************************)
(* Theorems about Journey, for any number of legs, cycles, hand-overs and  *)
(* clicks.                                                                 *)
(***************************************************************************)
EXTENDS Journey, TLAPS

\* What the steps of a preparing thread, of a supervisor and of its child leave alone.
OnlyPrep == UNCHANGED <<state, ack, starts, permitted, stopEvent, control, counters, result, held>>

OnlySupervisor == UNCHANGED <<window, threads, files>>

\* The kinds of counter.
Numbers ==
  /\ starts \in 0..MaxStarts /\ process \in 0..MaxStarts
  /\ cycle \in [Journeys -> 1..MaximumCycles]
  /\ handoffs \in [Journeys -> 0..MaximumHandoffs]
  /\ leg \in [Journeys -> 1..Legs] /\ resume \in [Journeys -> 0..MaximumCycles]

Places ==
  /\ state \in {"STOPPED", "STARTING", "RUNNING", "PAUSED", "STOPPING", "closed"}
  /\ prep \in [Journeys -> {"none", "check", "prepare", "arm", "launch"}]
  /\ callback \in [Journeys -> {"none", "running", "error"}]
  /\ renewer \in [Journeys -> {"none", "wait", "renew"}]
  /\ control \in {"RUN", "PAUSE", "STOP"}
  /\ at \in [Journeys -> {"off", "boot", "judge", "verdict", "end"}
                         \cup Navigating \cup Fighting]
  /\ result \in [Journeys -> Statuses] /\ held \in [Journeys -> {"no", "nav", "combat"}]

Flags ==
  /\ ack \in BOOLEAN /\ arm \in BOOLEAN
  /\ permitted \in [Journeys -> BOOLEAN] /\ stopEvent \in [Journeys -> BOOLEAN]

\* A combat child runs only while a hand-over is left.
Budget == \A s \in Journeys : at[s] \in Fighting \cup {"verdict"} => handoffs[s] < MaximumHandoffs

LEMMA Parts == TypeOK <=> Numbers /\ Places /\ Flags
  BY DEF TypeOK, Numbers, Places, Flags

LEMMA PartsInit == Init => Numbers /\ Places /\ Flags /\ Budget
  <1>1. Init => Numbers
    BY JourneyAssumption DEF JourneyAssumption, Init, Numbers
  <1>2. Init => Places /\ Budget
    BY DEF Init, Places, Budget, Statuses, Fighting
  <1>3. Init => (ack \in BOOLEAN) /\ (arm \in BOOLEAN)
    BY ZenonT(20) DEF Init
  <1>4. Init => permitted \in [Journeys -> BOOLEAN] /\ stopEvent \in [Journeys -> BOOLEAN]
    BY DEF Init
  <1> QED BY <1>1, <1>2, <1>3, <1>4 DEF Flags

-----------------------------------------------------------------------------
(* Types.                                                                  *)

\* What the steps of several actions leave of the types.
LEMMA ReportPlaces ==
  ASSUME Places, NEW s \in Journeys, NEW r \in Statuses, Report(s, r)
  PROVE  /\ at' \in [Journeys -> {"off", "boot", "judge", "verdict", "end"}
                                 \cup Navigating \cup Fighting]
         /\ result' \in [Journeys -> Statuses] /\ held' \in [Journeys -> {"no", "nav", "combat"}]
  BY DEF Places, Report, Goto, Hold

LEMMA ExitNumbers ==
  ASSUME Numbers, NEW s \in Journeys, Exit(s)
  PROVE  /\ cycle' \in [Journeys -> 1..MaximumCycles]
         /\ handoffs' \in [Journeys -> 0..MaximumHandoffs]
         /\ leg' \in [Journeys -> 1..Legs] /\ resume' \in [Journeys -> 0..MaximumCycles]
  BY JourneyAssumption DEF JourneyAssumption, Numbers, Exit

LEMMA NextNumbers ==
  ASSUME Numbers, NEW s \in Journeys, NextCycle(s)
  PROVE  cycle' \in [Journeys -> 1..MaximumCycles]
  BY JourneyAssumption DEF JourneyAssumption, Numbers, NextCycle

LEMMA PrepPlaces ==
  ASSUME Places, NEW j \in Journeys, Check(j) \/ Prepare(j) \/ IssueArm(j) \/ Launch(j)
  PROVE  /\ prep' \in [Journeys -> {"none", "check", "prepare", "arm", "launch"}]
         /\ callback' \in [Journeys -> {"none", "running", "error"}]
         /\ renewer' \in [Journeys -> {"none", "wait", "renew"}]
         /\ at' \in [Journeys -> {"off", "boot", "judge", "verdict", "end"}
                                 \cup Navigating \cup Fighting]
  <1>1. ASSUME NEW l \in {"none", "check", "prepare", "arm", "launch"}, PrepGoto(j, l)
        PROVE  prep' \in [Journeys -> {"none", "check", "prepare", "arm", "launch"}]
    BY <1>1 DEF PrepGoto, Places
  <1>2. ASSUME NEW c \in {"running", "error"}, Leave(j, c)
        PROVE  callback' \in [Journeys -> {"none", "running", "error"}]
    <2>1. PICK left \in {"none", c} : callback' = [callback EXCEPT ![j] = left]
      BY <1>2 DEF Leave
    <2> QED BY <2>1 DEF Places
  <1>3. CASE GiveUp(j)
    BY <1>1, <1>2, <1>3 DEF GiveUp, Places
  <1>4. CASE \E l \in {"none", "prepare", "arm"} : Proceed(j, l)
    BY <1>1, <1>4 DEF Proceed, Places
  <1>5. CASE PrepGoto(j, "launch") /\ UNCHANGED <<renewer, at, callback>>
    BY <1>1, <1>5 DEF Places
  <1>6. CASE /\ at' = [at EXCEPT ![j] = "boot"] /\ PrepGoto(j, "none")
             /\ renewer' = renewer \/ renewer' = [renewer EXCEPT ![j] = "wait"]
             /\ \E c \in {"running", "error"} : Leave(j, c)
    <2>1. prep' \in [Journeys -> {"none", "check", "prepare", "arm", "launch"}]
      BY <1>1, <1>6
    <2>2. callback' \in [Journeys -> {"none", "running", "error"}]
      BY <1>2, <1>6
    <2> QED BY <1>6, <2>1, <2>2 DEF Places
  <1> QED BY <1>3, <1>4, <1>5, <1>6 DEF Check, Prepare, IssueArm, Launch

LEMMA PlacesStep == Places /\ [Next]_vars => Places'
  <1> SUFFICES ASSUME Places, [Next]_vars PROVE Places'
    OBVIOUS
  <1>0. /\ Journeys = 1..MaxStarts /\ MaxStarts \in Nat /\ MaximumCycles \in Nat \ {0}
        /\ MaximumHandoffs \in Nat /\ Legs \in Nat \ {0}
    BY JourneyAssumption DEF JourneyAssumption, Journeys
  <1>1. ASSUME Start PROVE Places'
    BY <1>0, <1>1
    DEF Places, Navigating, Fighting, Statuses, Start, StartFrom, Click, Running, supervisor
  <1>2. ASSUME PauseResume PROVE Places'
    BY <1>0, <1>2
    DEF Places, Navigating, Fighting, Statuses, PauseResume, Click, threads, supervisor
  <1>3. ASSUME Stop PROVE Places'
    BY <1>0, <1>3 DEF Places, Navigating, Fighting, Statuses, Stop, Click, supervisor
  <1>4. ASSUME Untick PROVE Places'
    BY <1>0, <1>4 DEF Places, Navigating, Fighting, Statuses, Untick, Click, Running, supervisor
  <1>5. ASSUME Tick PROVE Places'
    BY <1>0, <1>5
    DEF Places, Navigating, Fighting, Statuses, Tick, Click, threads, files, supervisor
  <1>6. ASSUME NEW j \in Journeys, Callback(j) PROVE Places'
    BY <1>0, <1>6 DEF Places, Navigating, Fighting, Statuses, Callback, files, supervisor
  <1>7. ASSUME Refresh PROVE Places'
    BY <1>0, <1>7
    DEF Places, Navigating, Fighting, Statuses, Refresh, Running, files, supervisor
  <1>8. ASSUME Close PROVE Places'
    BY <1>0, <1>8
    DEF Places, Navigating, Fighting, Statuses, Close, NoCallback, Running, supervisor
  <1>9. ASSUME Vanish PROVE Places'
    BY <1>0, <1>9
    DEF Places, Navigating, Fighting, Statuses, Vanish, NoCallback, files, supervisor
  <1>10. ASSUME Expire PROVE Places'
    BY <1>0, <1>10 DEF Places, Navigating, Fighting, Statuses, Expire, window, threads
  <1>11. ASSUME NEW j \in Journeys, Check(j) \/ Prepare(j) \/ IssueArm(j) \/ Launch(j), OnlyPrep
         PROVE  Places'
    <2>1. /\ prep' \in [Journeys -> {"none", "check", "prepare", "arm", "launch"}]
          /\ callback' \in [Journeys -> {"none", "running", "error"}]
          /\ renewer' \in [Journeys -> {"none", "wait", "renew"}]
          /\ at' \in [Journeys -> {"off", "boot", "judge", "verdict", "end"}
                                  \cup Navigating \cup Fighting]
      BY <1>11, PrepPlaces
    <2> QED BY <1>11, <2>1 DEF Places, OnlyPrep
  <1>15. ASSUME NEW j \in Journeys, Renew(j) PROVE Places'
    BY <1>0, <1>15
    DEF Places, Navigating, Fighting, Statuses, Renew, RenewUnless, window, supervisor
  <1>16. ASSUME NEW s \in Journeys, Boot(s), OnlySupervisor PROVE Places'
    BY <1>0, <1>16
    DEF Places, Navigating, Fighting, Statuses, Boot, OnlySupervisor, Exit, Goto, window,
        threads, files
  <1>17. ASSUME NEW s \in Journeys, Preflight(s), OnlySupervisor PROVE Places'
    <2>1. CASE \E r \in {"none", "FAILED"} : Report(s, r)
      BY <1>17, <2>1, ReportPlaces DEF Places, Statuses, OnlySupervisor, window, threads, files
    <2>2. CASE Goto(s, "loop") /\ UNCHANGED <<result, held>>
      BY <1>0, <1>17, <2>2 DEF Places, Navigating, Goto, OnlySupervisor, window, threads, files
    <2> QED BY <1>17, <2>1, <2>2 DEF Preflight
  <1>18. ASSUME NEW s \in Journeys, Checkpoint(s), OnlySupervisor PROVE Places'
    BY ZenonT(60), <1>0, <1>18
    DEF Places, Navigating, Fighting, Statuses, Checkpoint, OnlySupervisor, Report, Goto, Hold,
        window, threads, files
  <1>19. ASSUME NEW s \in Journeys, Paused(s), OnlySupervisor PROVE Places'
    BY ZenonT(60), <1>0, <1>19
    DEF Places, Navigating, Fighting, Statuses, Paused, OnlySupervisor, Report, Goto, Hold,
        window, threads, files
  <1>20. ASSUME NEW s \in Journeys, Frame(s), OnlySupervisor PROVE Places'
    <2>1. CASE \E r \in {"ARRIVED", "COMBAT_HANDOFF_REQUIRED", "REPLAN", "RUNTIME_ARM_EXPIRED",
                         "STOPPED", "FAILED", "none"} : Report(s, r)
      BY <1>20, <2>1, ReportPlaces DEF Places, Statuses, OnlySupervisor, window, threads, files
    <2>2. CASE \E h \in {"nav", "no"} : Hold(s, h) /\ Goto(s, "loop") /\ UNCHANGED result
      BY <1>0, <1>20, <2>2
      DEF Places, Navigating, Hold, Goto, OnlySupervisor, window, threads, files
    <2> QED BY <1>20, <2>1, <2>2 DEF Frame
  <1>21. ASSUME NEW s \in Journeys, Fight(s), OnlySupervisor PROVE Places'
    <2>1. CASE \E r \in {"WON", "FAILED", "none"} : Report(s, r)
      BY <1>21, <2>1, ReportPlaces DEF Places, Statuses, OnlySupervisor, window, threads, files
    <2>2. CASE \E h \in {"combat", "no"} : Hold(s, h) /\ Goto(s, "fight") /\ UNCHANGED result
      BY <1>0, <1>21, <2>2 DEF Places, Fighting, Hold, Goto, OnlySupervisor, window, threads, files
    <2> QED BY <1>21, <2>1, <2>2 DEF Fight
  <1>27. ASSUME NEW s \in Journeys, Retreat(s), OnlySupervisor PROVE Places'
    <2>1. CASE \E r \in {"ESCAPED_RISKY_AGGRO", "FAILED"} : Report(s, r)
      BY <1>27, <2>1, ReportPlaces DEF Places, Statuses, OnlySupervisor, window, threads, files
    <2>2. CASE \E h \in {"combat", "no"} : Hold(s, h) /\ UNCHANGED <<at, result>>
      BY <1>0, <1>27, <2>2 DEF Places, Hold, OnlySupervisor, window, threads, files
    <2> QED BY <1>27, <2>1, <2>2 DEF Retreat
  <1>22. ASSUME NEW s \in Journeys, Judge(s), OnlySupervisor PROVE Places'
    BY ZenonT(60), <1>0, <1>22
    DEF Places, Navigating, Fighting, Statuses, Judge, Judged, OnlySupervisor, NextCycle, Exit,
        Goto, window, threads, files
  <1>23. ASSUME NEW s \in Journeys, Verdict(s), OnlySupervisor PROVE Places'
    BY ZenonT(60), <1>0, <1>23
    DEF Places, Navigating, Fighting, Statuses, Verdict, Judged, OnlySupervisor, NextCycle, Exit,
        Goto, window, threads, files
  <1>24. ASSUME NEW s \in Journeys, End(s), OnlySupervisor PROVE Places'
    BY <1>0, <1>24
    DEF Places, Navigating, Fighting, Statuses, End, OnlySupervisor, Exit, Goto, window,
        threads, files
  <1>25. ASSUME NEW s \in Journeys, Killed(s), OnlySupervisor PROVE Places'
    BY <1>0, <1>25
    DEF Places, Navigating, Fighting, Statuses, Killed, OnlySupervisor, Report, Goto, Hold,
        window, threads, files
  <1>26. CASE UNCHANGED vars
    BY <1>26
    DEF vars, Places, Navigating, Fighting, Statuses, window, threads, files, supervisor
  <1> QED
    BY <1>1, <1>2, <1>3, <1>4, <1>5, <1>6, <1>7, <1>8, <1>9, <1>10, <1>11, <1>15,
       <1>16, <1>17, <1>18, <1>19, <1>20, <1>21, <1>22, <1>23, <1>24, <1>25,
       <1>26, <1>27
    DEF Next, Window, PrepStep, SupervisorStep, Kill, OnlyPrep, OnlySupervisor

LEMMA FlagsStep == Flags /\ [Next]_vars => Flags'
  <1> SUFFICES ASSUME Flags, [Next]_vars PROVE Flags'
    OBVIOUS
  <1>0. /\ Journeys = 1..MaxStarts /\ MaxStarts \in Nat /\ MaximumCycles \in Nat \ {0}
        /\ MaximumHandoffs \in Nat /\ Legs \in Nat \ {0}
    BY JourneyAssumption DEF JourneyAssumption, Journeys
  <1>1. ASSUME Start PROVE Flags'
    BY <1>0, <1>1 DEF Flags, Start, StartFrom, StopCurrent
  <1>2. ASSUME PauseResume PROVE Flags'
    BY <1>0, <1>2 DEF Flags, PauseResume, threads
  <1>3. ASSUME Stop PROVE Flags'
    BY <1>0, <1>3 DEF Flags, Stop, StopCurrent
  <1>4. ASSUME Untick PROVE Flags'
    BY <1>0, <1>4 DEF Flags, Untick, StopCurrent
  <1>5. ASSUME Tick PROVE Flags'
    BY <1>0, <1>5 DEF Flags, Tick, threads, files
  <1>6. ASSUME NEW j \in Journeys, Callback(j) PROVE Flags'
    BY <1>0, <1>6 DEF Flags, Callback, StopCurrent, files
  <1>7. ASSUME Refresh PROVE Flags'
    BY <1>0, <1>7 DEF Flags, Refresh, StopCurrent, files
  <1>8. ASSUME Close PROVE Flags'
    BY <1>0, <1>8 DEF Flags, Close, StopCurrent
  <1>9. ASSUME Vanish PROVE Flags'
    BY <1>0, <1>9 DEF Flags, Vanish, files
  <1>10. ASSUME Expire PROVE Flags'
    BY <1>0, <1>10 DEF Flags, Expire, window, threads
  <1>11. ASSUME NEW j \in Journeys, Check(j), OnlyPrep PROVE Flags'
    BY <1>0, <1>11 DEF Flags, Check, OnlyPrep, Wanted, Proceed, GiveUp
  <1>12. ASSUME NEW j \in Journeys, Prepare(j), OnlyPrep PROVE Flags'
    BY <1>0, <1>12 DEF Flags, Prepare, OnlyPrep, Proceed, GiveUp
  <1>13. ASSUME NEW j \in Journeys, IssueArm(j), OnlyPrep PROVE Flags'
    BY <1>0, <1>13 DEF Flags, IssueArm, OnlyPrep, GiveUp
  <1>14. ASSUME NEW j \in Journeys, Launch(j), OnlyPrep PROVE Flags'
    BY <1>0, <1>14 DEF Flags, Launch, OnlyPrep, GiveUp
  <1>15. ASSUME NEW j \in Journeys, Renew(j) PROVE Flags'
    BY <1>0, <1>15 DEF Flags, Renew, RenewUnless, window
  <1>16. ASSUME NEW s \in Journeys, Boot(s), OnlySupervisor PROVE Flags'
    BY <1>0, <1>16 DEF Flags, Boot, OnlySupervisor, window, threads, files
  <1>17. ASSUME NEW s \in Journeys, Preflight(s), OnlySupervisor PROVE Flags'
    BY <1>0, <1>17 DEF Flags, Preflight, OnlySupervisor, window, threads, files
  <1>18. ASSUME NEW s \in Journeys, Checkpoint(s), OnlySupervisor PROVE Flags'
    BY <1>0, <1>18 DEF Flags, Checkpoint, OnlySupervisor, window, threads, files
  <1>19. ASSUME NEW s \in Journeys, Paused(s), OnlySupervisor PROVE Flags'
    BY <1>0, <1>19 DEF Flags, Paused, OnlySupervisor, window, threads, files
  <1>20. ASSUME NEW s \in Journeys, Frame(s), OnlySupervisor PROVE Flags'
    BY <1>0, <1>20 DEF Flags, Frame, OnlySupervisor, window, threads, files
  <1>21. ASSUME NEW s \in Journeys, Fight(s), OnlySupervisor PROVE Flags'
    BY <1>0, <1>21 DEF Flags, Fight, OnlySupervisor, window, threads, files
  <1>27. ASSUME NEW s \in Journeys, Retreat(s), OnlySupervisor PROVE Flags'
    BY <1>0, <1>27 DEF Flags, Retreat, OnlySupervisor, window, threads, files
  <1>22. ASSUME NEW s \in Journeys, Judge(s), OnlySupervisor PROVE Flags'
    BY <1>0, <1>22 DEF Flags, Judge, Judged, OnlySupervisor, window, threads, files
  <1>23. ASSUME NEW s \in Journeys, Verdict(s), OnlySupervisor PROVE Flags'
    BY <1>0, <1>23 DEF Flags, Verdict, Judged, OnlySupervisor, window, threads, files
  <1>24. ASSUME NEW s \in Journeys, End(s), OnlySupervisor PROVE Flags'
    BY <1>0, <1>24 DEF Flags, End, OnlySupervisor, window, threads, files
  <1>25. ASSUME NEW s \in Journeys, Killed(s), OnlySupervisor PROVE Flags'
    BY <1>0, <1>25 DEF Flags, Killed, OnlySupervisor, window, threads, files
  <1>26. CASE UNCHANGED vars
    BY <1>26 DEF vars, Flags, window, threads, files
  <1> QED
    BY <1>1, <1>2, <1>3, <1>4, <1>5, <1>6, <1>7, <1>8, <1>9, <1>10, <1>11, <1>12, <1>13,
       <1>14, <1>15, <1>16, <1>17, <1>18, <1>19, <1>20, <1>21, <1>22, <1>23, <1>24, <1>25,
       <1>26, <1>27
    DEF Next, Window, PrepStep, SupervisorStep, Kill, OnlyPrep, OnlySupervisor

LEMMA NumbersStep == Budget /\ Numbers /\ [Next]_vars => Numbers'
  <1> SUFFICES ASSUME Budget, Numbers, [Next]_vars PROVE Numbers'
    OBVIOUS
  <1>0. /\ Journeys = 1..MaxStarts /\ MaxStarts \in Nat /\ MaximumCycles \in Nat \ {0}
        /\ MaximumHandoffs \in Nat /\ Legs \in Nat \ {0}
    BY JourneyAssumption DEF JourneyAssumption, Journeys
  <1>1. ASSUME Start PROVE Numbers'
    <2>1. /\ starts' = starts + 1 /\ starts < MaxStarts
          /\ UNCHANGED <<process, cycle, handoffs, leg, resume>>
      BY <1>1 DEF Start, StartFrom, supervisor, counters
    <2>2. starts' \in 0..MaxStarts
      BY <1>0, <2>1 DEF Numbers
    <2> QED BY <2>1, <2>2 DEF Numbers
  <1>2. ASSUME PauseResume PROVE Numbers'
    BY <1>0, <1>2 DEF Numbers, Budget, PauseResume, supervisor, counters
  <1>3. ASSUME Stop PROVE Numbers'
    BY <1>0, <1>3 DEF Numbers, Budget, Stop, StopCurrent, supervisor, counters
  <1>4. ASSUME Untick PROVE Numbers'
    BY <1>0, <1>4 DEF Numbers, Budget, Untick, StopCurrent, Running, supervisor, counters
  <1>5. ASSUME Tick PROVE Numbers'
    BY <1>0, <1>5 DEF Numbers, Budget, Tick, supervisor, counters
  <1>6. ASSUME NEW j \in Journeys, Callback(j) PROVE Numbers'
    BY <1>0, <1>6 DEF Numbers, Budget, Callback, StopCurrent, supervisor, counters
  <1>7. ASSUME Refresh PROVE Numbers'
    <2>1. (process' = process \/ process' = 0) /\ UNCHANGED <<starts, cycle, handoffs, leg, resume>>
      BY <1>7 DEF Refresh, supervisor, counters
    <2>2. process' \in 0..MaxStarts
      BY <1>0, <2>1 DEF Numbers
    <2> QED BY <2>1, <2>2 DEF Numbers
  <1>8. ASSUME Close PROVE Numbers'
    BY <1>0, <1>8 DEF Numbers, Budget, Close, StopCurrent, Running, supervisor, counters
  <1>9. ASSUME Vanish PROVE Numbers'
    BY <1>0, <1>9 DEF Numbers, Budget, Vanish, supervisor, counters
  <1>10. ASSUME Expire PROVE Numbers'
    BY <1>0, <1>10 DEF Numbers, Budget, Expire, window, counters
  <1>11. ASSUME NEW j \in Journeys, Check(j), OnlyPrep PROVE Numbers'
    BY <1>0, <1>11 DEF Numbers, Budget, Check, OnlyPrep, Wanted, Proceed, GiveUp, counters
  <1>12. ASSUME NEW j \in Journeys, Prepare(j), OnlyPrep PROVE Numbers'
    BY <1>0, <1>12 DEF Numbers, Budget, Prepare, OnlyPrep, Proceed, GiveUp, counters
  <1>13. ASSUME NEW j \in Journeys, IssueArm(j), OnlyPrep PROVE Numbers'
    BY <1>0, <1>13 DEF Numbers, Budget, IssueArm, OnlyPrep, GiveUp, counters
  <1>14. ASSUME NEW j \in Journeys, Launch(j), OnlyPrep PROVE Numbers'
    <2>1. (process' = process \/ process' = j) /\ UNCHANGED <<starts, cycle, handoffs, leg, resume>>
      BY <1>14 DEF Launch, OnlyPrep, GiveUp, counters
    <2>2. process' \in 0..MaxStarts
      BY SMTT(30), <1>0, <2>1 DEF Numbers
    <2> QED BY <2>1, <2>2 DEF Numbers
  <1>15. ASSUME NEW j \in Journeys, Renew(j) PROVE Numbers'
    BY <1>0, <1>15 DEF Numbers, Budget, Renew, RenewUnless, window, supervisor, counters
  <1>16. ASSUME NEW s \in Journeys, Boot(s), OnlySupervisor PROVE Numbers'
    <2>1. UNCHANGED <<starts, process>>
      BY <1>16 DEF OnlySupervisor, window
    <2>2. CASE Exit(s)
      BY <2>1, <2>2, ExitNumbers DEF Numbers
    <2>3. CASE UNCHANGED counters
      BY <2>1, <2>3 DEF Numbers, counters
    <2> QED BY <1>16, <2>2, <2>3 DEF Boot
  <1>17. ASSUME NEW s \in Journeys, Preflight(s), OnlySupervisor PROVE Numbers'
    BY <1>0, <1>17 DEF Numbers, Budget, Preflight, OnlySupervisor, window, counters
  <1>18. ASSUME NEW s \in Journeys, Checkpoint(s), OnlySupervisor PROVE Numbers'
    BY <1>0, <1>18 DEF Numbers, Budget, Checkpoint, OnlySupervisor, window, counters
  <1>19. ASSUME NEW s \in Journeys, Paused(s), OnlySupervisor PROVE Numbers'
    BY <1>0, <1>19 DEF Numbers, Budget, Paused, OnlySupervisor, window, counters
  <1>20. ASSUME NEW s \in Journeys, Frame(s), OnlySupervisor PROVE Numbers'
    BY <1>0, <1>20 DEF Numbers, Budget, Frame, OnlySupervisor, window, counters
  <1>21. ASSUME NEW s \in Journeys, Fight(s), OnlySupervisor PROVE Numbers'
    BY <1>0, <1>21 DEF Numbers, Budget, Fight, OnlySupervisor, window, counters
  <1>27. ASSUME NEW s \in Journeys, Retreat(s), OnlySupervisor PROVE Numbers'
    BY <1>0, <1>27 DEF Numbers, Budget, Retreat, OnlySupervisor, window, counters
  <1>22. ASSUME NEW s \in Journeys, Judge(s), OnlySupervisor PROVE Numbers'
    <2>1. UNCHANGED <<starts, process>>
      BY <1>22 DEF OnlySupervisor, window
    <2>2. CASE Exit(s)
      BY <2>1, <2>2, ExitNumbers DEF Numbers
    <2>3. CASE UNCHANGED counters
      BY <2>1, <2>3 DEF Numbers, counters
    <2>4. CASE /\ NextCycle(s) \/ UNCHANGED cycle
               /\ resume' \in {[resume EXCEPT ![s] = 0], [resume EXCEPT ![s] = cycle[s]]}
               /\ leg' = leg \/ (leg[s] < Legs /\ leg' = [leg EXCEPT ![s] = @ + 1])
               /\ UNCHANGED handoffs
      <3>1. cycle' \in [Journeys -> 1..MaximumCycles]
        BY <2>4, NextNumbers DEF Numbers
      <3>2. resume' \in [Journeys -> 0..MaximumCycles] /\ leg' \in [Journeys -> 1..Legs]
        <4>1. cycle[s] \in 0..MaximumCycles /\ 0 \in 0..MaximumCycles
          BY <1>0 DEF Numbers
        <4>2. resume' \in [Journeys -> 0..MaximumCycles]
          BY <2>4, <4>1 DEF Numbers
        <4>3. leg[s] \in 1..Legs
          BY DEF Numbers
        <4>4. leg[s] < Legs => leg[s] + 1 \in 1..Legs
          BY <1>0, <4>3
        <4> QED BY <2>4, <4>2, <4>4 DEF Numbers
      <3> QED BY <2>1, <2>4, <3>1, <3>2 DEF Numbers
    <2> QED BY <1>22, <2>2, <2>3, <2>4 DEF Judge
  <1>23. ASSUME NEW s \in Journeys, Verdict(s), OnlySupervisor PROVE Numbers'
    <2>1. UNCHANGED <<starts, process>>
      BY <1>23 DEF OnlySupervisor, window
    <2>2. CASE Exit(s)
      BY <2>1, <2>2, ExitNumbers DEF Numbers
    <2>3. CASE UNCHANGED counters
      BY <2>1, <2>3 DEF Numbers, counters
    <2>4. CASE /\ handoffs' = [handoffs EXCEPT ![s] = @ + 1] /\ UNCHANGED <<leg, resume>>
               /\ NextCycle(s) \/ UNCHANGED cycle
      <3>1. cycle' \in [Journeys -> 1..MaximumCycles]
        BY <2>4, NextNumbers DEF Numbers
      <3>2. handoffs[s] < MaximumHandoffs
        BY <1>23 DEF Verdict, Budget
      <3>3. handoffs' \in [Journeys -> 0..MaximumHandoffs]
        <4>0. MaximumHandoffs \in Nat /\ handoffs[s] \in Nat
          BY <1>0 DEF Numbers
        <4>1. handoffs[s] + 1 \in 0..MaximumHandoffs
          BY <3>2, <4>0
        <4> QED BY <2>4, <4>1 DEF Numbers
      <3> QED BY <2>1, <2>4, <3>1, <3>3 DEF Numbers
    <2> QED BY <1>23, <2>2, <2>3, <2>4 DEF Verdict
  <1>24. ASSUME NEW s \in Journeys, End(s), OnlySupervisor PROVE Numbers'
    <2>1. UNCHANGED <<starts, process>>
      BY <1>24 DEF OnlySupervisor, window
    <2> QED BY <1>24, <2>1, ExitNumbers DEF Numbers, End
  <1>25. ASSUME NEW s \in Journeys, Killed(s), OnlySupervisor PROVE Numbers'
    BY <1>0, <1>25 DEF Numbers, Budget, Fighting, Killed, OnlySupervisor, window, counters
  <1>26. CASE UNCHANGED vars
    BY <1>26 DEF vars, Numbers, Budget, window, supervisor, counters
  <1> QED
    BY <1>1, <1>2, <1>3, <1>4, <1>5, <1>6, <1>7, <1>8, <1>9, <1>10, <1>11, <1>12, <1>13,
       <1>14, <1>15, <1>16, <1>17, <1>18, <1>19, <1>20, <1>21, <1>22, <1>23, <1>24, <1>25,
       <1>26, <1>27
    DEF Next, Window, PrepStep, SupervisorStep, Kill, OnlyPrep, OnlySupervisor

LEMMA BudgetStep == Numbers /\ Places /\ Budget /\ [Next]_vars => Budget'
  <1> SUFFICES ASSUME Numbers, Places, Budget, [Next]_vars PROVE Budget'
    OBVIOUS
  <1>0. /\ at \in [Journeys -> {"off", "boot", "judge", "verdict", "end"}
                               \cup Navigating \cup Fighting]
        /\ handoffs \in [Journeys -> 0..MaximumHandoffs] /\ MaximumHandoffs \in Nat
    BY JourneyAssumption DEF JourneyAssumption, Places, Numbers
  <1>1. ASSUME Start PROVE Budget'
    BY <1>0, <1>1 DEF Budget, Fighting, Start, StartFrom, Running, supervisor, counters
  <1>2. ASSUME PauseResume PROVE Budget'
    BY <1>0, <1>2 DEF Budget, Fighting, PauseResume, supervisor, counters
  <1>3. ASSUME Stop PROVE Budget'
    BY <1>0, <1>3 DEF Budget, Fighting, Stop, supervisor, counters
  <1>4. ASSUME Untick PROVE Budget'
    BY <1>0, <1>4 DEF Budget, Fighting, Untick, Running, supervisor, counters
  <1>5. ASSUME Tick PROVE Budget'
    BY <1>0, <1>5 DEF Budget, Fighting, Tick, supervisor, counters
  <1>6. ASSUME NEW j \in Journeys, Callback(j) PROVE Budget'
    BY <1>0, <1>6 DEF Budget, Fighting, Callback, supervisor, counters
  <1>7. ASSUME Refresh PROVE Budget'
    BY <1>0, <1>7 DEF Budget, Fighting, Refresh, Running, supervisor, counters
  <1>8. ASSUME Close PROVE Budget'
    BY <1>0, <1>8 DEF Budget, Fighting, Close, Running, supervisor, counters
  <1>9. ASSUME Vanish PROVE Budget'
    BY <1>0, <1>9 DEF Budget, Fighting, Vanish, supervisor, counters
  <1>10. ASSUME Expire PROVE Budget'
    BY <1>0, <1>10 DEF Budget, Fighting, Expire, counters
  <1>11. ASSUME NEW j \in Journeys, Check(j), OnlyPrep PROVE Budget'
    BY <1>0, <1>11 DEF Budget, Fighting, Check, OnlyPrep, Proceed, GiveUp, counters
  <1>12. ASSUME NEW j \in Journeys, Prepare(j), OnlyPrep PROVE Budget'
    BY <1>0, <1>12 DEF Budget, Fighting, Prepare, OnlyPrep, Proceed, GiveUp, counters
  <1>13. ASSUME NEW j \in Journeys, IssueArm(j), OnlyPrep PROVE Budget'
    BY <1>0, <1>13 DEF Budget, Fighting, IssueArm, OnlyPrep, GiveUp, counters
  <1>14. ASSUME NEW j \in Journeys, Launch(j), OnlyPrep PROVE Budget'
    BY <1>0, <1>14 DEF Budget, Fighting, Launch, OnlyPrep, GiveUp, counters
  <1>15. ASSUME NEW j \in Journeys, Renew(j) PROVE Budget'
    BY <1>0, <1>15 DEF Budget, Fighting, Renew, RenewUnless, supervisor, counters
  <1>16. ASSUME NEW s \in Journeys, Boot(s), OnlySupervisor PROVE Budget'
    BY <1>0, <1>16 DEF Budget, Fighting, Boot, OnlySupervisor, Exit, Goto, counters
  <1>17. ASSUME NEW s \in Journeys, Preflight(s), OnlySupervisor PROVE Budget'
    BY <1>0, <1>17
    DEF Budget, Fighting, Navigating, Preflight, OnlySupervisor, Report, Goto, counters
  <1>18. ASSUME NEW s \in Journeys, Checkpoint(s), OnlySupervisor PROVE Budget'
    BY <1>0, <1>18
    DEF Budget, Fighting, Navigating, Checkpoint, OnlySupervisor, Report, Goto, counters
  <1>19. ASSUME NEW s \in Journeys, Paused(s), OnlySupervisor PROVE Budget'
    BY <1>0, <1>19
    DEF Budget, Fighting, Navigating, Paused, OnlySupervisor, Report, Goto, counters
  <1>20. ASSUME NEW s \in Journeys, Frame(s), OnlySupervisor PROVE Budget'
    BY <1>0, <1>20
    DEF Budget, Fighting, Navigating, Frame, OnlySupervisor, Report, Goto, counters
  <1>21. ASSUME NEW s \in Journeys, Fight(s), OnlySupervisor PROVE Budget'
    BY <1>0, <1>21
    DEF Budget, Fighting, Navigating, Fight, OnlySupervisor, Report, Goto, counters
  <1>27. ASSUME NEW s \in Journeys, Retreat(s), OnlySupervisor PROVE Budget'
    BY <1>0, <1>27
    DEF Budget, Fighting, Navigating, Retreat, OnlySupervisor, Report, Goto, counters
  <1>22. ASSUME NEW s \in Journeys, Judge(s), OnlySupervisor PROVE Budget'
    BY <1>0, <1>22
    DEF Budget, Fighting, Judge, Judged, OnlySupervisor, NextCycle, Exit, Goto, counters
  <1>23. ASSUME NEW s \in Journeys, Verdict(s), OnlySupervisor PROVE Budget'
    BY <1>0, <1>23
    DEF Budget, Fighting, Verdict, Judged, OnlySupervisor, NextCycle, Exit, Goto, counters
  <1>24. ASSUME NEW s \in Journeys, End(s), OnlySupervisor PROVE Budget'
    BY <1>0, <1>24 DEF Budget, Fighting, End, OnlySupervisor, Exit, Goto
  <1>25. ASSUME NEW s \in Journeys, Killed(s), OnlySupervisor PROVE Budget'
    BY <1>0, <1>25
    DEF Budget, Fighting, Navigating, Killed, OnlySupervisor, Report, Goto, counters
  <1>26. CASE UNCHANGED vars
    BY <1>26 DEF vars, Budget, Fighting, supervisor, counters
  <1> QED
    BY <1>1, <1>2, <1>3, <1>4, <1>5, <1>6, <1>7, <1>8, <1>9, <1>10, <1>11, <1>12, <1>13,
       <1>14, <1>15, <1>16, <1>17, <1>18, <1>19, <1>20, <1>21, <1>22, <1>23, <1>24, <1>25,
       <1>26, <1>27
    DEF Next, Window, PrepStep, SupervisorStep, Kill, OnlyPrep, OnlySupervisor
-----------------------------------------------------------------------------
(* Bookkeeping.  Whose turn it is: while a journey is prepared there is no  *)
(* supervisor, every living supervisor is known, and a callback that says   *)
(* STOPPED meets no supervisor but the one of the launch that queued it.    *)

Preparing == \A j \in Journeys : prep[j] # "none" => \A s \in Journeys : at[s] = "off"

\* A thread that was not told to stop prepares the current journey.
Current == \A j \in Journeys : prep[j] # "none" /\ ~stopEvent[j] => j = starts /\ state # "STOPPED"

\* Past its last look at its event a thread is the only one, and nothing can still
\* say that its journey is over.
Launching ==
  \A j \in Journeys : prep[j] \in {"arm", "launch"} =>
    /\ j = starts /\ process = 0 /\ state # "STOPPED"
    /\ \A i \in Journeys : callback[i] = "none" /\ (i = j \/ prep[i] = "none")

ErrorIsItsOwn ==
  \A i, s \in Journeys : callback[i] = "error" /\ at[s] # "off" => s = i /\ i = starts

Known == \A s \in Journeys : at[s] # "off" => process = s

Accounts == Preparing /\ Current /\ Launching /\ ErrorIsItsOwn /\ Known /\ StoppedMeansStopped

\* A supervisor step is a step of a living process, and revives no other.
LEMMA NobodyRises ==
  ASSUME Places, NEW s \in Journeys, SupervisorStep(s) \/ Kill(s)
  PROVE  /\ \A t \in Journeys : at'[t] # "off" => at[t] # "off"
         /\ UNCHANGED <<state, starts, stopEvent, process, prep, callback>>
  <1>1. UNCHANGED <<state, starts, stopEvent, process, prep, callback>>
    BY DEF SupervisorStep, Kill, window, threads
  <1>2. at[s] # "off"
    BY DEF SupervisorStep, Kill, Boot, Preflight, Checkpoint, Paused, Frame, Retreat, Fight,
           Judge, Judged, Verdict, End, Killed, Navigating, Fighting
  <1> DEFINE OnlyHis == at' = at \/ \E l : at' = [at EXCEPT ![s] = l]
  <1>3. OnlyHis
    <2>1. ASSUME NEW r, Report(s, r) PROVE OnlyHis
      BY <2>1 DEF Report, Goto
    <2>2. ASSUME NextCycle(s) PROVE OnlyHis
      BY <2>2 DEF NextCycle, Goto
    <2>3. ASSUME Exit(s) PROVE OnlyHis
      BY <2>3 DEF Exit, Goto
    <2>4. ASSUME NEW l, Goto(s, l) PROVE OnlyHis
      BY <2>4 DEF Goto
    <2>5. CASE Boot(s)
      BY <2>5, <2>3, <2>4 DEF Boot
    <2>6. CASE Preflight(s)
      BY <2>6, <2>1, <2>4 DEF Preflight
    <2>7. CASE Checkpoint(s)
      BY <2>7, <2>1, <2>4 DEF Checkpoint
    <2>8. CASE Paused(s)
      BY <2>8, <2>1, <2>4 DEF Paused
    <2>9. CASE Frame(s)
      BY <2>9, <2>1, <2>4 DEF Frame
    <2>10. CASE Fight(s)
      BY <2>10, <2>1, <2>4 DEF Fight
    <2>15. CASE Retreat(s)
      BY <2>15, <2>1 DEF Retreat
    <2>11. CASE Judge(s)
      BY <2>11, <2>2, <2>3, <2>4 DEF Judge
    <2>12. CASE Verdict(s)
      BY <2>12, <2>2, <2>3, <2>4 DEF Verdict
    <2>13. CASE End(s)
      BY <2>13, <2>3 DEF End
    <2>14. CASE Kill(s)
      BY <2>14, <2>1 DEF Kill, Killed
    <2> QED BY <2>5, <2>6, <2>7, <2>8, <2>9, <2>10, <2>11, <2>12, <2>13, <2>14, <2>15
      DEF SupervisorStep
  <1> QED BY <1>1, <1>2, <1>3 DEF Places

LEMMA AccountsInit == Init => Accounts
  BY DEF Init, Accounts, Preparing, Current, Launching, ErrorIsItsOwn, Known,
         StoppedMeansStopped, Alive

LEMMA AccountsStep == Numbers /\ Places /\ Flags /\ Accounts /\ [Next]_vars => Accounts'
  <1> SUFFICES ASSUME Numbers, Places, Flags, Accounts, [Next]_vars PROVE Accounts'
    OBVIOUS
  <1> USE DEF Accounts, Preparing, Current, Launching, ErrorIsItsOwn, Known,
              StoppedMeansStopped, Alive
  <1>0. /\ Journeys = 1..MaxStarts /\ MaxStarts \in Nat /\ 0 \notin Journeys
        /\ prep \in [Journeys -> {"none", "check", "prepare", "arm", "launch"}]
        /\ callback \in [Journeys -> {"none", "running", "error"}]
        /\ at \in [Journeys -> {"off", "boot", "judge", "verdict", "end"}
                               \cup Navigating \cup Fighting]
        /\ stopEvent \in [Journeys -> BOOLEAN] /\ process \in 0..MaxStarts
    BY JourneyAssumption DEF JourneyAssumption, Journeys, Numbers, Places, Flags
  <1>1. ASSUME Start PROVE Accounts'
    <2>1. /\ state = "STOPPED" /\ state' = "STARTING" /\ starts' = starts + 1
          /\ prep' = [prep EXCEPT ![starts + 1] = "check"] /\ StopCurrent
          /\ UNCHANGED <<process, callback, at>>
      BY <1>1 DEF Start, StartFrom, supervisor
    <2>2. \A s \in Journeys : at[s] = "off"
      BY <1>0, <1>1 DEF Start, StartFrom, Running
    <2>3. \A j \in Journeys : prep[j] \notin {"arm", "launch"}
      BY <2>1
    <2>4. \A j \in Journeys : prep'[j] \notin {"arm", "launch"}
      BY <1>0, <2>1, <2>3
    <2>5. \A j \in Journeys : prep'[j] # "none" /\ ~stopEvent'[j] => j = starts + 1
      <3> SUFFICES ASSUME NEW j \in Journeys, prep'[j] # "none", ~stopEvent'[j], j # starts + 1
                   PROVE  FALSE
        OBVIOUS
      <3>1. prep[j] # "none"
        BY <1>0, <2>1
      <3>2. stopEvent'[j] = (stopEvent[j] \/ j = starts)
        BY <2>1, Zenon DEF StopCurrent
      <3> QED BY <3>1, <3>2
    <2> QED BY <2>1, <2>2, <2>4, <2>5
  <1>2. ASSUME PauseResume PROVE Accounts'
    BY <1>0, <1>2 DEF PauseResume, Click, threads, supervisor
  <1>3. ASSUME Stop PROVE Accounts'
    <2>1. UNCHANGED <<starts, process, prep, callback, at>> /\ state' = "STOPPING"
      BY <1>3 DEF Stop, supervisor
    <2>2. \A j \in Journeys : stopEvent[j] => stopEvent'[j]
      BY <1>3, Zenon DEF Stop, StopCurrent
    <2> QED BY <2>1, <2>2
  <1>4. ASSUME Untick PROVE Accounts'
    <2>1. /\ UNCHANGED <<starts, process, prep, callback, at>>
          /\ state' = state \/ state' = "STOPPING"
      BY <1>4 DEF Untick, supervisor
    <2>2. \A j \in Journeys : stopEvent[j] => stopEvent'[j]
      BY <1>4, Zenon DEF Untick, StopCurrent
    <2> QED BY <1>0, <2>1, <2>2
  <1>5. ASSUME Tick PROVE Accounts'
    BY <1>0, <1>5 DEF Tick, Click, threads, supervisor
  <1>6. ASSUME NEW j \in Journeys, Callback(j) PROVE Accounts'
    <2>1. /\ callback[j] # "none" /\ callback' = [callback EXCEPT ![j] = "none"]
          /\ UNCHANGED <<starts, process, prep, at>>
      BY <1>6 DEF Callback, supervisor
    <2>2. \A i \in Journeys : callback'[i] # "none" => callback'[i] = callback[i]
      BY <1>0, <2>1
    <2>3. \A i \in Journeys : prep[i] \notin {"arm", "launch"}
      BY <2>1
    <2>4. CASE callback[j] = "running" /\ state' = "RUNNING" /\ UNCHANGED stopEvent
      BY <2>1, <2>2, <2>3, <2>4
    <2>5. CASE callback[j] = "error" /\ state' = "STOPPED" /\ StopCurrent
      <3>1. \A s \in Journeys : at[s] # "off" => s = starts /\ process = s
        BY <2>5
      <3>2. \A s \in Journeys : s = starts \/ stopEvent[s] => stopEvent'[s]
        BY <2>5, Zenon DEF StopCurrent
      <3> QED BY <2>1, <2>2, <2>3, <3>1, <3>2
    <2> QED BY <1>6, <2>4, <2>5 DEF Callback
  <1>7. ASSUME Refresh PROVE Accounts'
    <2>1. UNCHANGED <<starts, prep, callback, at>>
      BY <1>7 DEF Refresh, supervisor
    <2>2. CASE /\ state = "STARTING" /\ Running /\ state' = "RUNNING"
               /\ UNCHANGED <<process, stopEvent>>
      BY <2>1, <2>2
    <2>3. CASE process # 0 /\ ~Running /\ state' = "STOPPED" /\ process' = 0
               /\ StopCurrent
      <3>1. \A s \in Journeys : at[s] = "off"
        BY <1>0, <2>3 DEF Running
      <3>2. \A s \in Journeys : s = starts \/ stopEvent[s] => stopEvent'[s]
        BY <2>3, Zenon DEF StopCurrent
      <3>3. \A s \in Journeys : prep[s] \notin {"arm", "launch"}
        BY <2>3
      <3> QED BY <2>1, <2>3, <3>1, <3>2, <3>3
    <2> QED BY <1>7, <2>2, <2>3 DEF Refresh
  <1>8. ASSUME Close PROVE Accounts'
    <2>1. UNCHANGED <<starts, process, prep, at>> /\ state' = "closed" /\ NoCallback
      BY <1>8 DEF Close, supervisor
    <2>2. \A j \in Journeys : stopEvent[j] => stopEvent'[j]
      BY <1>8, Zenon DEF Close, StopCurrent
    <2> QED BY <2>1, <2>2 DEF NoCallback
  <1>9. ASSUME Vanish PROVE Accounts'
    BY <1>0, <1>9 DEF Vanish, NoCallback, supervisor
  <1>10. ASSUME Expire PROVE Accounts'
    BY <1>0, <1>10 DEF Expire, window, threads
  <1>11. ASSUME NEW j \in Journeys, PrepStep(j) PROVE Accounts'
    <2>0. UNCHANGED <<state, starts, stopEvent>> /\ prep[j] # "none"
      BY <1>11 DEF PrepStep, Check, Prepare, IssueArm, Launch
    <2>1. \A i \in Journeys : at[i] = "off"
      BY <2>0
    <2>2. CASE GiveUp(j)
      <3>1. /\ UNCHANGED <<process, at>> /\ prep' = [prep EXCEPT ![j] = "none"]
            /\ \A i \in Journeys : i # j => callback'[i] = callback[i]
        BY <1>0, <2>2 DEF GiveUp, PrepGoto, Leave
      <3>2. \A i \in Journeys : prep'[i] \in {"arm", "launch"} => i # j /\ prep[i] = prep'[i]
        BY <1>0, <3>1
      <3>3. \A i \in Journeys : prep'[i] \notin {"arm", "launch"}
        BY <2>0, <3>2
      <3> QED BY <2>0, <2>1, <3>1, <3>3
    <2>3. CASE Check(j) /\ \E l \in {"none", "prepare"} : Proceed(j, l)
      <3>1. /\ UNCHANGED <<process, at, callback>>
            /\ \E l \in {"none", "prepare"} : prep' = [prep EXCEPT ![j] = l]
        BY <2>3 DEF Proceed, PrepGoto
      <3>2. \A i \in Journeys : prep'[i] \in {"arm", "launch"} => i # j /\ prep[i] = prep'[i]
        BY <1>0, <3>1
      <3>3. \A i \in Journeys : prep'[i] \notin {"arm", "launch"}
        BY <2>0, <3>2
      <3> QED BY <2>0, <2>1, <3>1, <3>3
    <2>4. CASE Prepare(j) /\ ~stopEvent[j] /\ Settled(j) /\ Proceed(j, "arm")
      <3>1. UNCHANGED <<process, at, callback>> /\ prep' = [prep EXCEPT ![j] = "arm"]
        BY <2>4 DEF Proceed, PrepGoto
      <3>2. /\ process = 0
            /\ \A i \in Journeys : callback[i] = "none" /\ (i = j \/ prep[i] = "none")
        <4>1. process = 0
          BY <1>0, <2>1, <2>4 DEF Settled, Running
        <4> QED BY <2>4, <4>1 DEF Settled
      <3>3. j = starts /\ state # "STOPPED"
        BY <2>0, <2>4
      <3>4. \A i \in Journeys : i # j => prep'[i] = prep[i]
        BY <1>0, <3>1
      <3> QED BY <2>0, <2>1, <3>1, <3>2, <3>3, <3>4
    <2>5. CASE /\ prep[j] = "arm" /\ PrepGoto(j, "launch")
               /\ UNCHANGED <<process, renewer, at, callback>>
      <3>1. \A i \in Journeys : i # j => prep'[i] = prep[i]
        BY <1>0, <2>5 DEF PrepGoto
      <3> QED BY <2>0, <2>1, <2>5, <3>1
    <2>6. CASE /\ prep[j] = "launch" /\ process' = j /\ at' = [at EXCEPT ![j] = "boot"]
               /\ PrepGoto(j, "none") /\ \E c \in {"running", "error"} : Leave(j, c)
      <3>1. /\ j = starts /\ state # "STOPPED"
            /\ \A i \in Journeys : callback[i] = "none" /\ (i = j \/ prep[i] = "none")
        BY <2>6
      <3>2. \A i \in Journeys : prep'[i] = "none" /\ (i # j => callback'[i] = "none")
        BY <1>0, <2>6, <3>1 DEF PrepGoto, Leave
      <3>3. \A i \in Journeys : at'[i] # "off" => i = j
        BY <1>0, <2>1, <2>6
      <3> QED BY <2>0, <2>6, <3>1, <3>2, <3>3
    <2> QED BY <1>11, <2>2, <2>3, <2>4, <2>5, <2>6 DEF PrepStep, Check, Prepare, IssueArm, Launch
  <1>12. ASSUME NEW j \in Journeys, Renew(j) PROVE Accounts'
    <2>1. UNCHANGED <<state, starts, process, prep, callback, at>>
      BY <1>12 DEF Renew, RenewUnless, window, supervisor
    <2>2. \A i \in Journeys : stopEvent[i] => stopEvent'[i]
      BY <1>0, <1>12 DEF Renew, RenewUnless
    <2> QED BY <2>1, <2>2
  <1>13. ASSUME NEW s \in Journeys, SupervisorStep(s) \/ Kill(s) PROVE Accounts'
    BY <1>13, NobodyRises
  <1>14. CASE UNCHANGED vars
    BY <1>14 DEF vars, window, threads, supervisor
  <1> QED
    BY <1>1, <1>2, <1>3, <1>4, <1>5, <1>6, <1>7, <1>8, <1>9, <1>10, <1>11, <1>12, <1>13, <1>14
    DEF Next, Window
-----------------------------------------------------------------------------
(* Inheritance.  What a child finds when it starts.                         *)

\* The checkpoint is that of the cycle before, or none.
Fresh ==
  \A s \in Journeys :
    /\ at[s] \in {"off", "boot", "verdict"} \cup Fighting => resume[s] = 0
    /\ at[s] \in Navigating \cup {"judge"} => resume[s] \in {0, cycle[s] - 1}

\* Only a supervisor's own step, and the launch of one, move a supervisor.
LEMMA SupervisorsStand ==
  ASSUME Places, Accounts, [Next]_vars,
         ~ \E s \in Journeys : SupervisorStep(s) \/ Kill(s)
  PROVE  /\ UNCHANGED <<counters, result>>
         /\ \/ at' = at
            \/ \E j \in Journeys :
                 /\ at' = [at EXCEPT ![j] = "boot"] /\ at[j] = "off" /\ UNCHANGED held
         /\ \A s \in Journeys : held'[s] # held[s] => held'[s] = "no"
  <1>0. /\ at \in [Journeys -> {"off", "boot", "judge", "verdict", "end"}
                               \cup Navigating \cup Fighting]
        /\ held \in [Journeys -> {"no", "nav", "combat"}] /\ 0 \notin Journeys
    BY JourneyAssumption DEF JourneyAssumption, Journeys, Places
  <1>1. ASSUME Window PROVE UNCHANGED <<counters, result, at, held>>
    BY <1>1 DEF Window, Start, StartFrom, PauseResume, Stop, Untick, Tick, Callback, Refresh,
                Close, Vanish, supervisor
  <1>2. ASSUME Expire
        PROVE  /\ UNCHANGED <<counters, result, at>>
               /\ \A s \in Journeys : held'[s] # held[s] => held'[s] = "no"
    BY <1>0, <1>2 DEF Expire
  <1>3. ASSUME NEW j \in Journeys, Renew(j) PROVE UNCHANGED <<counters, result, at, held>>
    BY <1>3 DEF Renew, RenewUnless, supervisor
  <1>4. ASSUME NEW j \in Journeys, PrepStep(j)
        PROVE  /\ UNCHANGED <<counters, result, held>>
               /\ at' = at \/ (at' = [at EXCEPT ![j] = "boot"] /\ at[j] = "off")
    <2>1. prep[j] # "none" /\ UNCHANGED <<counters, result, held>>
      BY <1>4 DEF PrepStep, Check, Prepare, IssueArm, Launch
    <2>2. at[j] = "off"
      BY <1>0, <2>1 DEF Accounts, Preparing
    <2>3. at' = at \/ at' = [at EXCEPT ![j] = "boot"]
      BY <1>4 DEF PrepStep, Check, Prepare, IssueArm, Launch, GiveUp, Proceed
    <2> QED BY <2>1, <2>2, <2>3
  <1>5. CASE UNCHANGED vars
    BY <1>5 DEF vars, supervisor
  <1> QED BY <1>1, <1>2, <1>3, <1>4, <1>5 DEF Next

LEMMA FreshStep == Numbers /\ Places /\ Accounts /\ Fresh /\ [Next]_vars => Fresh'
  <1> SUFFICES ASSUME Numbers, Places, Accounts, Fresh, [Next]_vars PROVE Fresh'
    OBVIOUS
  <1>0. /\ at \in [Journeys -> {"off", "boot", "judge", "verdict", "end"}
                               \cup Navigating \cup Fighting]
        /\ cycle \in [Journeys -> 1..MaximumCycles] /\ MaximumCycles \in Nat
        /\ resume \in [Journeys -> 0..MaximumCycles]
    BY JourneyAssumption DEF JourneyAssumption, Places, Numbers
  <1>1. CASE ~ \E s \in Journeys : SupervisorStep(s) \/ Kill(s)
    <2>1. UNCHANGED <<cycle, resume>>
      BY <1>1, SupervisorsStand DEF counters
    <2>2. at' = at \/ \E j \in Journeys : at' = [at EXCEPT ![j] = "boot"] /\ at[j] = "off"
      BY <1>1, SupervisorsStand
    <2> QED BY <1>0, <2>1, <2>2 DEF Fresh, Navigating, Fighting
  <1> SUFFICES ASSUME NEW s \in Journeys, SupervisorStep(s) \/ Kill(s) PROVE Fresh'
    BY <1>1
  <1>2. ASSUME Boot(s) PROVE Fresh'
    BY <1>0, <1>2 DEF Fresh, Navigating, Fighting, Boot, Exit, Goto, counters
  <1>3. ASSUME Preflight(s) PROVE Fresh'
    BY <1>0, <1>3 DEF Fresh, Navigating, Fighting, Preflight, Report, Goto, counters
  <1>4. ASSUME Checkpoint(s) PROVE Fresh'
    BY <1>0, <1>4 DEF Fresh, Navigating, Fighting, Checkpoint, Report, Goto, counters
  <1>5. ASSUME Paused(s) PROVE Fresh'
    BY <1>0, <1>5 DEF Fresh, Navigating, Fighting, Paused, Report, Goto, counters
  <1>6. ASSUME Frame(s) PROVE Fresh'
    BY <1>0, <1>6 DEF Fresh, Navigating, Fighting, Frame, Report, Goto, counters
  <1>7. ASSUME Fight(s) PROVE Fresh'
    BY <1>0, <1>7 DEF Fresh, Navigating, Fighting, Fight, Report, Goto, counters
  <1>12. ASSUME Retreat(s) PROVE Fresh'
    BY <1>0, <1>12 DEF Fresh, Navigating, Fighting, Retreat, Report, Goto, counters
  <1>8. ASSUME Judge(s) PROVE Fresh'
    BY <1>0, <1>8 DEF Fresh, Navigating, Fighting, Judge, Judged, NextCycle, Exit, Goto, counters
  <1>9. ASSUME Verdict(s) PROVE Fresh'
    BY <1>0, <1>9 DEF Fresh, Navigating, Fighting, Verdict, Judged, NextCycle, Exit, Goto, counters
  <1>10. ASSUME End(s) PROVE Fresh'
    BY <1>0, <1>10 DEF Fresh, Navigating, Fighting, End, Exit, Goto
  <1>11. ASSUME Killed(s) PROVE Fresh'
    BY <1>0, <1>11 DEF Fresh, Navigating, Fighting, Killed, Report, Goto, counters
  <1> QED
    BY <1>2, <1>3, <1>4, <1>5, <1>6, <1>7, <1>8, <1>9, <1>10, <1>11, <1>12
    DEF SupervisorStep, Kill

LEMMA StandStillStep == Places /\ Accounts /\ WaitsStandStill /\ [Next]_vars => WaitsStandStill'
  <1> SUFFICES ASSUME Places, Accounts, WaitsStandStill, [Next]_vars PROVE WaitsStandStill'
    OBVIOUS
  <1>0. /\ at \in [Journeys -> {"off", "boot", "judge", "verdict", "end"}
                               \cup Navigating \cup Fighting]
        /\ held \in [Journeys -> {"no", "nav", "combat"}]
    BY DEF Places
  <1>1. CASE ~ \E s \in Journeys : SupervisorStep(s) \/ Kill(s)
    BY <1>0, <1>1, SupervisorsStand DEF WaitsStandStill
  <1> SUFFICES ASSUME NEW s \in Journeys, SupervisorStep(s) \/ Kill(s) PROVE WaitsStandStill'
    BY <1>1
  <1>2. ASSUME Boot(s) PROVE WaitsStandStill'
    BY <1>0, <1>2 DEF WaitsStandStill, Boot, Exit, Goto
  <1>3. ASSUME Preflight(s) PROVE WaitsStandStill'
    BY <1>0, <1>3 DEF WaitsStandStill, Navigating, Preflight, Report, Goto, Hold
  <1>4. ASSUME Checkpoint(s) PROVE WaitsStandStill'
    BY <1>0, <1>4 DEF WaitsStandStill, Navigating, Checkpoint, Report, Goto, Hold
  <1>5. ASSUME Paused(s) PROVE WaitsStandStill'
    BY <1>0, <1>5 DEF WaitsStandStill, Navigating, Paused, Report, Goto, Hold
  <1>6. ASSUME Frame(s) PROVE WaitsStandStill'
    BY <1>0, <1>6 DEF WaitsStandStill, Navigating, Frame, Report, Goto, Hold
  <1>7. ASSUME Fight(s) PROVE WaitsStandStill'
    BY <1>0, <1>7 DEF WaitsStandStill, Navigating, Fight, Report, Goto, Hold
  <1>12. ASSUME Retreat(s) PROVE WaitsStandStill'
    BY <1>0, <1>12 DEF WaitsStandStill, Navigating, Retreat, Report, Goto, Hold
  <1>8. ASSUME Judge(s) PROVE WaitsStandStill'
    BY <1>0, <1>8 DEF WaitsStandStill, Judge, Judged, NextCycle, Exit, Goto
  <1>9. ASSUME Verdict(s) PROVE WaitsStandStill'
    BY <1>0, <1>9 DEF WaitsStandStill, Verdict, Judged, NextCycle, Exit, Goto
  <1>10. ASSUME End(s) PROVE WaitsStandStill'
    BY <1>0, <1>10 DEF WaitsStandStill, End, Exit, Goto
  <1>11. ASSUME Killed(s) PROVE WaitsStandStill'
    BY <1>0, <1>11 DEF WaitsStandStill, Navigating, Fighting, Killed, Report, Goto, Hold
  <1> QED
    BY <1>2, <1>3, <1>4, <1>5, <1>6, <1>7, <1>8, <1>9, <1>10, <1>11, <1>12
    DEF SupervisorStep, Kill

-----------------------------------------------------------------------------
(* Theorems.                                                               *)

JourneyInv == Numbers /\ Places /\ Flags /\ Budget /\ Accounts /\ Fresh /\ WaitsStandStill

LEMMA JourneyInvariant == Spec => []JourneyInv
  <1>1. Init => JourneyInv
    <2>1. Init => Fresh /\ WaitsStandStill
      BY DEF Init, Fresh, WaitsStandStill, Navigating, Fighting
    <2> QED BY <2>1, PartsInit, AccountsInit DEF JourneyInv
  <1>2. JourneyInv /\ [Next]_vars => JourneyInv'
    BY NumbersStep, PlacesStep, FlagsStep, BudgetStep, AccountsStep, FreshStep, StandStillStep
    DEF JourneyInv
  <1> QED BY <1>1, <1>2, PTL DEF Spec

\* Every variable of the journey keeps its kind, and no supervisor goes past
\* its cycles, its hand-overs or its legs, whatever the order of clicks,
\* threads and processes.
THEOREM JourneyTypeCorrect == Spec => []TypeOK
  <1>1. JourneyInv => TypeOK
    BY Parts DEF JourneyInv
  <1> QED BY <1>1, JourneyInvariant, PTL

\* However the clicks, the preparing threads, their late or lost callbacks, the
\* window's timer and the end of the window interleave, there is at most one
\* supervisor, and when the window says STOPPED none but one that a launch left when
\* it raised: the window knows that one and has told it to stop.
THEOREM OneJourneyAtATime == Spec => []SingleJourney
  <1>1. JourneyInv => SingleJourney
    <2>1. 0 \notin Journeys
      BY JourneyAssumption DEF JourneyAssumption, Journeys
    <2> QED BY <2>1 DEF JourneyInv, Accounts, Known, SingleJourney, OneSupervisor, Alive
  <1> QED BY <1>1, JourneyInvariant, PTL

\* A navigation child resumes from no checkpoint but the one of the cycle
\* before, and no child starts, waits or is judged with keys held.
THEOREM ChildrenStartClean == Spec => []ChildrenInheritNothing
  <1>1. JourneyInv => ChildrenInheritNothing
    BY DEF JourneyInv, Fresh, ChildrenInheritNothing, CheckpointSingleUse
  <1> QED BY <1>1, JourneyInvariant, PTL

-----------------------------------------------------------------------------
(* Permission.  A journey has the permission its own click found, if any.   *)

\* Nothing is prepared, alive or renewed, and no arm valid, without a start that
\* found the permission ticked.
Granted ==
  /\ \A j \in Journeys :
       prep[j] \in {"prepare", "arm", "launch"} \/ Alive(j) \/ renewer[j] # "none" \/ Moving(j)
         => permitted[j]
  /\ arm => \E j \in Journeys : permitted[j]

\* A journey gets its permission from the checkbox, at its own click, or never.
Asked == \A j \in Journeys : permitted'[j] # permitted[j] => starts' = j /\ starts < j /\ ack

\* Journeys to come have nothing, and those that are over are told to stop.
Unstarted ==
  \A j \in Journeys : j > starts =>
    prep[j] = "none" /\ at[j] = "off" /\ renewer[j] = "none" /\ ~permitted[j]

Superseded == \A j \in Journeys : j < starts => stopEvent[j]

PermissionInv == Granted /\ Unstarted /\ Superseded

\* Only a click on start changes the permissions, and only for a new journey.
LEMMA OnlyStartAsks ==
  ASSUME Numbers, Flags, Unstarted, [Next]_vars
  PROVE  \/ Start
         \/ UNCHANGED <<starts, permitted>>
  BY DEF Next, Window, PauseResume, Stop, Untick, Tick, Callback, Refresh, Close, Vanish,
         Expire, PrepStep, Renew, RenewUnless, SupervisorStep, Kill, vars, window, threads

LEMMA AskedStep ==
  ASSUME Numbers, Flags, Unstarted, [Next]_vars
  PROVE  Asked
  <1>1. CASE Start
    BY <1>1, JourneyAssumption DEF JourneyAssumption, Journeys, Start, StartFrom, Asked, Flags,
       Numbers, Unstarted
  <1>2. CASE UNCHANGED <<starts, permitted>>
    BY <1>2 DEF Asked
  <1> QED BY <1>1, <1>2, OnlyStartAsks

\* The events of journeys are set and never cleared.
LEMMA SupersededStep ==
  ASSUME Numbers, Flags, Unstarted, Superseded, [Next]_vars
  PROVE  Superseded'
  <1>0. stopEvent \in [Journeys -> BOOLEAN] /\ Journeys = 1..MaxStarts /\ starts \in 0..MaxStarts
    BY DEF Flags, Numbers, Journeys
  <1>1. ASSUME StopCurrent, starts' \in {starts, starts + 1} PROVE Superseded'
    <2> SUFFICES ASSUME NEW j \in Journeys, j < starts' PROVE stopEvent'[j]
      BY DEF Superseded
    <2>1. stopEvent'[j] = (stopEvent[j] \/ j = starts)
      BY <1>1, Zenon DEF StopCurrent
    <2>2. j < starts \/ j = starts
      BY <1>0, <1>1
    <2> QED BY <2>1, <2>2, Zenon DEF Superseded
  <1>2. ASSUME UNCHANGED <<starts, stopEvent>> PROVE Superseded'
    BY <1>2 DEF Superseded
  <1>3. CASE Window
    BY <1>1, <1>2, <1>3
    DEF Window, Start, StartFrom, PauseResume, Stop, Untick, Tick, Callback, Refresh, Close,
        Vanish, threads
  <1>4. ASSUME NEW j \in Journeys, Renew(j) PROVE Superseded'
    BY <1>0, <1>4 DEF Renew, RenewUnless, window, Superseded
  <1>5. CASE Expire \/ \E j \in Journeys : PrepStep(j) \/ SupervisorStep(j) \/ Kill(j)
    BY <1>2, <1>5 DEF Expire, PrepStep, SupervisorStep, Kill, window, threads
  <1>6. CASE UNCHANGED vars
    BY <1>2, <1>6 DEF vars, window, threads
  <1> QED BY <1>3, <1>4, <1>5, <1>6 DEF Next

\* A preparing thread passes its check only with the permission.
LEMMA PrepAsks ==
  ASSUME Places, NEW j \in Journeys, PrepStep(j), Granted
  PROVE  /\ \A i \in Journeys : i # j =>
              prep'[i] = prep[i] /\ at'[i] = at[i] /\ renewer'[i] = renewer[i]
         /\ prep[j] # "none"
         /\ permitted[j] \/ (prep'[j] = "none" /\ at'[j] = at[j] /\ renewer'[j] = renewer[j])
         /\ permitted[j] \/ UNCHANGED arm
         /\ UNCHANGED <<starts, permitted, held>>
  <1>1. prep[j] # "none" /\ UNCHANGED <<starts, permitted, held>>
    BY DEF PrepStep, Check, Prepare, IssueArm, Launch
  <1>2. CASE GiveUp(j)
    BY <1>1, <1>2 DEF GiveUp, PrepGoto, Places
  <1>3. CASE Check(j)
    BY <1>1, <1>2, <1>3 DEF Check, Proceed, PrepGoto, Places
  <1>4. CASE Prepare(j) \/ IssueArm(j) \/ Launch(j)
    <2>1. permitted[j]
      BY <1>4 DEF Prepare, IssueArm, Launch, Granted
    <2> QED BY <1>1, <1>2, <1>4, <2>1 DEF Prepare, IssueArm, Launch, Proceed, PrepGoto, Places
  <1> QED BY <1>3, <1>4 DEF PrepStep

\* Nothing else starts a thread or a process, or makes an arm, but for a journey
\* that has started a renewal.
LEMMA OthersAsk ==
  ASSUME Places, Granted, [Next]_vars, ~Start, ~ \E j \in Journeys : PrepStep(j)
  PROVE  /\ \A i \in Journeys : /\ prep'[i] \in {prep[i], "none"}
                                /\ at'[i] # "off" => at[i] # "off"
                                /\ renewer'[i] # "none" => renewer[i] # "none"
         /\ arm' => arm \/ \E j \in Journeys : renewer[j] # "none"
  <1>1. CASE Window
    BY <1>1 DEF Window, PauseResume, Stop, Untick, Tick, Callback, Refresh, Close, Vanish,
                threads, files, supervisor
  <1>2. CASE Expire
    BY <1>2 DEF Expire, threads
  <1>3. ASSUME NEW j \in Journeys, Renew(j) PROVE /\ prep' = prep /\ at' = at /\ renewer[j] # "none"
                                                  /\ \E r : renewer' = [renewer EXCEPT ![j] = r]
    BY <1>3, Zenon DEF Renew, RenewUnless, supervisor
  <1>4. ASSUME NEW s \in Journeys, SupervisorStep(s) \/ Kill(s)
        PROVE  UNCHANGED <<prep, renewer, arm>>
    BY <1>4 DEF SupervisorStep, Kill, threads, files
  <1>5. CASE UNCHANGED vars
    BY <1>5 DEF vars, threads, files, supervisor
  <1> QED BY <1>1, <1>2, <1>3, <1>4, <1>5, NobodyRises DEF Next, Places

LEMMA PermissionStep ==
  ASSUME Numbers, Places, Flags, Accounts, WaitsStandStill, WaitsStandStill', PermissionInv,
         [Next]_vars
  PROVE  PermissionInv'
  <1> USE DEF PermissionInv
  <1>0. /\ Journeys = 1..MaxStarts /\ starts \in 0..MaxStarts /\ MaxStarts \in Nat
        /\ permitted \in [Journeys -> BOOLEAN]
        /\ prep \in [Journeys -> {"none", "check", "prepare", "arm", "launch"}]
    BY JourneyAssumption DEF JourneyAssumption, Journeys, Numbers, Flags, Places
  <1>1. Superseded'
    BY SupersededStep
  <1>2. \A j \in Journeys : Moving(j)' => Alive(j)'
    BY DEF WaitsStandStill, Moving, Alive
  <1>3. CASE Start
    <2>1. /\ starts' = starts + 1 /\ permitted' = [permitted EXCEPT ![starts + 1] = ack]
          /\ prep' = [prep EXCEPT ![starts + 1] = "check"]
          /\ UNCHANGED <<at, renewer, arm>> /\ starts + 1 \in Journeys
      BY <1>0, <1>3 DEF Start, StartFrom, supervisor
    <2>2. Unstarted'
      BY <1>0, <2>1 DEF Unstarted
    <2>3. \A j \in Journeys : j # starts + 1 => permitted'[j] = permitted[j] /\ prep'[j] = prep[j]
      BY <1>0, <2>1
    <2>4. at[starts + 1] = "off" /\ renewer[starts + 1] = "none" /\ ~permitted[starts + 1]
      BY <1>0, <2>1 DEF Unstarted
    <2>5. Granted'
      BY <1>0, <1>2, <2>1, <2>3, <2>4 DEF Granted, Alive
    <2> QED BY <1>1, <2>2, <2>5
  <1>4. ASSUME NEW j \in Journeys, PrepStep(j) PROVE PermissionInv'
    <2>1. /\ \A i \in Journeys : i # j =>
               prep'[i] = prep[i] /\ at'[i] = at[i] /\ renewer'[i] = renewer[i]
          /\ ~(j > starts)
          /\ permitted[j] \/ (prep'[j] = "none" /\ at'[j] = at[j] /\ renewer'[j] = renewer[j])
          /\ permitted[j] \/ UNCHANGED arm
          /\ UNCHANGED <<starts, permitted>>
      BY <1>4, PrepAsks DEF Unstarted
    <2>2. Unstarted'
      BY <1>0, <2>1 DEF Unstarted
    <2>3. Granted'
      BY <1>2, <2>1 DEF Granted, Alive
    <2> QED BY <1>1, <2>2, <2>3
  <1>5. CASE ~Start /\ ~ \E j \in Journeys : PrepStep(j)
    <2>1. UNCHANGED <<starts, permitted>>
      BY <1>5, OnlyStartAsks
    <2>2. /\ \A i \in Journeys : /\ prep'[i] \in {prep[i], "none"}
                                 /\ at'[i] # "off" => at[i] # "off"
                                 /\ renewer'[i] # "none" => renewer[i] # "none"
          /\ arm' => arm \/ \E j \in Journeys : renewer[j] # "none"
      BY <1>5, OthersAsk
    <2>3. Unstarted'
      BY <2>1, <2>2 DEF Unstarted
    <2>4. Granted'
      BY <1>2, <2>1, <2>2 DEF Granted, Alive
    <2> QED BY <1>1, <2>3, <2>4
  <1> QED BY <1>3, <1>4, <1>5

LEMMA PermissionInit == Init => PermissionInv
  BY JourneyAssumption
  DEF JourneyAssumption, Init, PermissionInv, Granted, Unstarted, Superseded, Alive, Moving,
      Journeys

LEMMA PermissionHolds == Spec => [](JourneyInv /\ PermissionInv)
  <1>1. JourneyInv /\ JourneyInv' /\ PermissionInv /\ [Next]_vars => PermissionInv'
    BY PermissionStep DEF JourneyInv
  <1> QED BY <1>1, PermissionInit, JourneyInvariant, PTL DEF Spec

\* Nothing is prepared, launched, renewed or moved for a journey, and no arm is
\* valid, without a click on start that found the permission ticked: however the
\* clicks, the preparing threads and the renewals interleave, an untick can be late
\* (LaunchNeedsPermission), but nobody moves who was never allowed to.
THEOREM NoJourneyUnasked == Spec => []Granted /\ [][Asked]_vars
  <1>1. JourneyInv /\ PermissionInv => Granted
    BY DEF PermissionInv
  <1>2. JourneyInv /\ PermissionInv /\ [Next]_vars => [Asked]_vars
    BY AskedStep DEF JourneyInv, PermissionInv
  <1> QED BY <1>1, <1>2, PermissionHolds, PTL DEF Spec
=============================================================================
