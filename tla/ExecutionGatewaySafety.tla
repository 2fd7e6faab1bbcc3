----------------------- MODULE ExecutionGatewaySafety -----------------------
(***************************************************************************)
(* The safety theorems of ExecutionGateway: single flight, no recovery     *)
(* without a new session, failed releases stay visible, a stop that        *)
(* returned leaves nothing held, execute runs its own primitive, a quiet   *)
(* gateway holds nothing, one answer per execution, the lease's order, and *)
(* EXECUTED only with authority, all of it together as a refinement of     *)
(* ExecutionLease, stops that nothing but a failed release undoes, and     *)
(* calls that go round in no circle. Each section adds what its theorem    *)
(* needs to what the sections before it have established.                  *)
(***************************************************************************)
EXTENDS ExecutionGatewayProofs, FiniteSetTheorems

USE DEF READY, FAULTED, MANUAL_TAKEOVER, CLOSED

-----------------------------------------------------------------------------
(* Single flight. A live worker is the registered invocation's, an         *)
(* invocation about to start has no live worker yet, and only the holder   *)
(* of the execution lock is inside a call.                                 *)

LiveIsActive == \A p \in Primitives : wpc[p] \in WorkerLive => active = p

StartingIsActive ==
  \A c \in Callers :
    cpc[c] = "starting" => active = cprim[c] /\ wpc[cprim[c]] \notin WorkerLive

InsideHoldsLock == \A c \in Callers : cpc[c] # "idle" => execLock = c

FlightInv == LiveIsActive /\ StartingIsActive /\ InsideHoldsLock

LEMMA FlightInit == Init => FlightInv
  BY GatewayAssumption
  DEF Init, FlightInv, LiveIsActive, StartingIsActive, InsideHoldsLock, WorkerLive

LEMMA FlightImplies == TypeOK /\ FlightInv => SingleFlight
  BY DEF FlightInv, LiveIsActive, SingleFlight

\* A live worker moves on and stays live.
LEMMA WorkerMoves ==
  ASSUME TypeOK, FlightInv, NEW p \in Primitives, NEW w \in WorkerLive,
         wpc[p] \in WorkerLive, wpc' = [wpc EXCEPT ![p] = w],
         UNCHANGED <<active, execLock, cpc, cprim>>
  PROVE  FlightInv'
  BY DEF TypeOK, WorkerTypes, CallTypes, FlightInv, LiveIsActive, StartingIsActive,
         InsideHoldsLock

\* A caller inside its call moves on, past the start.
LEMMA CallerMoves ==
  ASSUME TypeOK, FlightInv, NEW c \in Callers, NEW pc, pc # "starting",
         cpc[c] # "idle", cpc' = [cpc EXCEPT ![c] = pc],
         UNCHANGED <<active, execLock, cprim, wpc>>
  PROVE  FlightInv'
  BY DEF TypeOK, CallTypes, FlightInv, LiveIsActive, StartingIsActive, InsideHoldsLock

\* A call ends, or is refused before it took the lock.
LEMMA CallEnds ==
  ASSUME TypeOK, FlightInv, NEW c \in Callers, Finish(c),
         execLock \in {c, NoOne}, UNCHANGED <<active, wpc>>
  PROVE  FlightInv'
  <1>1. \A d \in Callers : d # c => cpc[d] = "idle"
    BY GatewayAssumption DEF GatewayAssumption, FlightInv, InsideHoldsLock
  <1>2. \A d \in Callers : cpc'[d] = "idle"
    BY <1>1 DEF Finish, TypeOK, CallTypes
  <1> QED
    BY <1>2 DEF FlightInv, LiveIsActive, StartingIsActive, InsideHoldsLock

\* A registration finds no live worker, and makes its own primitive active.
LEMMA RegisterFlies ==
  ASSUME TypeOK, FlightInv, NEW c \in Callers, NEW p \in Primitives, NEW t,
         Register(c, p, t), active = NoOne, execLock \in {c, NoOne}
  PROVE  FlightInv'
  <1>1. \A q \in Primitives : wpc[q] \notin WorkerLive
    BY GatewayAssumption DEF GatewayAssumption, FlightInv, LiveIsActive
  <1>2. \A d \in Callers : d # c => cpc[d] = "idle"
    BY GatewayAssumption DEF GatewayAssumption, FlightInv, InsideHoldsLock
  <1> QED
    BY <1>1, <1>2 DEF Register, TypeOK, CallTypes, FlightInv, LiveIsActive,
                      StartingIsActive, InsideHoldsLock

LEMMA FlightStep == TypeOK /\ FlightInv /\ [Next]_vars => FlightInv'
  <1> SUFFICES ASSUME TypeOK, FlightInv, [Next]_vars PROVE FlightInv'
    OBVIOUS
  <1>1. ASSUME UNCHANGED <<active, execLock, cpc, cprim, wpc>> PROVE FlightInv'
    BY <1>1 DEF FlightInv, LiveIsActive, StartingIsActive, InsideHoldsLock
  <1>2. ASSUME NEW p \in Primitives, Enqueue(p) PROVE FlightInv'
    BY <1>1, <1>2 DEF Enqueue, caller, worker
  <1>3. ASSUME NEW p \in Primitives,
               WorkerGate(p) \/ SinkEnter(p) \/ SinkPress(p) \/ SinkExit(p) \/ FinalRelease(p)
        PROVE  FlightInv'
    <2>1. UNCHANGED <<active, execLock, cpc, cprim>>
      BY <1>3 DEF WorkerGate, SinkEnter, SinkPress, SinkExit, FinalRelease, OnlyWorker, caller
    <2>2. /\ wpc[p] \in WorkerLive
          /\ \E w \in WorkerLive : wpc' = [wpc EXCEPT ![p] = w]
      BY <1>3, Zenon DEF WorkerGate, SinkEnter, SinkPress, SinkExit, FinalRelease, WorkerLive
    <2> QED
      BY <2>1, <2>2, WorkerMoves
  <1>4. ASSUME NEW p \in Primitives, Deregister(p) PROVE FlightInv'
    <2>1. wpc[p] \in WorkerLive /\ active = p
      BY <1>4 DEF Deregister, WorkerLive, FlightInv, LiveIsActive
    <2>2. active' = NoOne /\ wpc' = [wpc EXCEPT ![p] = "done"]
          /\ UNCHANGED <<execLock, cpc, cprim>>
      BY <1>4, <2>1 DEF Deregister, OnlyWorker, caller
    <2> QED
      BY <2>1, <2>2 DEF TypeOK, WorkerTypes, WorkerLive, FlightInv, LiveIsActive,
                        StartingIsActive, InsideHoldsLock
  <1>5. ASSUME NEW c \in Callers, NEW p \in Primitives, RunHead(c, p),
               execLock \in {c, NoOne}
        PROVE  FlightInv'
    <2>1. CASE \E t \in Readings, poseOk \in BOOLEAN :
                 RunGate(p, t, poseOk) = "OK" /\ Register(c, p, t)
      BY <1>5, <2>1, RegisterFlies DEF RunGate
    <2>2. CASE \E f : Refuse(c, p, f)
      BY <1>5, <2>2, CallEnds DEF Refuse, worker
    <2> QED
      BY <1>5, <2>1, <2>2 DEF RunHead
  <1>6. ASSUME NEW c \in Callers, RunNext(c) PROVE FlightInv'
    BY <1>5, <1>6 DEF RunNext, TypeOK, GateTypes
  <1>7. ASSUME NEW c \in Callers, cpc[c] # "idle"
        PROVE  execLock = c /\ cprim[c] \in Primitives
    BY <1>7 DEF FlightInv, InsideHoldsLock, TypeOK, CallTypes
  <1>8. ASSUME NEW c \in Callers, RunExpected(c) PROVE FlightInv'
    BY <1>5, <1>7, <1>8 DEF RunExpected
  <1>10. ASSUME NEW c \in Callers, NEW p \in Primitives, Execute(c, p) PROVE FlightInv'
    <2>1. \/ UNCHANGED caller
          \/ /\ execLock = NoOne /\ execLock' = c
             /\ cpc' = [cpc EXCEPT ![c] = "expected"]
             /\ cprim' = [cprim EXCEPT ![c] = p]
      BY <1>10, Zenon DEF Execute, Executable
    <2>2. UNCHANGED <<active, wpc>>
      BY <1>10 DEF Execute, Executable, worker
    <2>3. execLock = NoOne => \A d \in Callers : cpc[d] = "idle"
      BY GatewayAssumption DEF GatewayAssumption, FlightInv, InsideHoldsLock
    <2> QED
      BY <1>1, <2>1, <2>2, <2>3
      DEF caller, TypeOK, CallTypes, FlightInv, LiveIsActive, StartingIsActive, InsideHoldsLock
  <1>11. ASSUME NEW c \in Callers,
                QueueCleared(c) \/ ClearedStatus(c) \/ StartResolved(c) \/ WatchdogFires(c)
                  \/ Completion(c) \/ Fail(c) \/ ReleaseAfterApply(c)
         PROVE  FlightInv'
    <2>1. /\ cpc[c] # "idle"
          /\ \E pc : pc # "starting" /\ cpc' = [cpc EXCEPT ![c] = pc]
      BY <1>11, Zenon DEF QueueCleared, ClearedStatus, StartResolved, WatchdogFires, Abandon,
                          Completion, Fail, ReleaseAfterApply
    <2>2. UNCHANGED <<active, execLock, cprim, wpc>>
      BY <1>11 DEF QueueCleared, ClearedStatus, StartResolved, WatchdogFires, Completion,
                   Fail, ReleaseAfterApply, OnlyCaller, worker
    <2> QED
      BY <2>1, <2>2, CallerMoves
  <1>12. ASSUME NEW c \in Callers, StartWorker(c) PROVE FlightInv'
    <2>1. active = cprim[c] /\ cprim[c] \in Primitives
      BY <1>12 DEF StartWorker, FlightInv, StartingIsActive, TypeOK, CallTypes
    <2>2. /\ cpc[c] = "starting" /\ cpc' = [cpc EXCEPT ![c] = "waitStart"]
          /\ wpc' = [wpc EXCEPT ![cprim[c]] = "gate"]
          /\ UNCHANGED <<active, execLock, cprim>>
      BY <1>12 DEF StartWorker, OnlyCaller
    <2>3. \A d \in Callers : d # c => cpc[d] = "idle"
      BY <2>2 DEF FlightInv, InsideHoldsLock
    <2> QED
      BY <2>1, <2>2, <2>3 DEF TypeOK, CallTypes, WorkerTypes, FlightInv, LiveIsActive,
                              StartingIsActive, InsideHoldsLock
  <1>13. ASSUME NEW c \in Callers, StartRaises(c) PROVE FlightInv'
    <2>1. active = cprim[c] /\ wpc[cprim[c]] \notin WorkerLive
      BY <1>13 DEF StartRaises, FlightInv, StartingIsActive
    <2>2. /\ cpc[c] = "starting" /\ cpc' = [cpc EXCEPT ![c] = "failing"]
          /\ UNCHANGED <<wpc, execLock, cprim>>
      BY <1>13 DEF StartRaises, Abandon, OnlyCaller
    <2>3. \A d \in Callers : d # c => cpc[d] = "idle"
      BY <2>2 DEF FlightInv, InsideHoldsLock
    <2> QED
      BY <2>1, <2>2, <2>3 DEF TypeOK, CallTypes, FlightInv, LiveIsActive,
                              StartingIsActive, InsideHoldsLock
  <1>14. ASSUME NEW c \in Callers, FailRelease(c) \/ Commit(c) PROVE FlightInv'
    <2>1. Finish(c) /\ cpc[c] # "idle" /\ UNCHANGED <<active, wpc>>
      BY <1>14 DEF FailRelease, Commit, worker
    <2> QED
      BY <1>7, <2>1, CallEnds
  <1>15. CASE Takeover \/ Close \/ Disarm \/ Revoked \/ \E s \in Stops : StopRelease(s)
    BY <1>1, <1>15 DEF Takeover, Close, Disarm, Revoked, StopRelease, OnlyStop, caller
  <1>16. CASE Tick
    BY <1>1, <1>16 DEF Tick, caller, worker
  <1>17. CASE UNCHANGED vars
    BY <1>1, <1>17 DEF vars, caller, worker
  <1> QED
    BY <1>2, <1>3, <1>4, <1>6, <1>8, <1>10, <1>11, <1>12, <1>13, <1>14, <1>15, <1>16,
       <1>17 DEF Next, CallerStep, WorkerStep

\* At most one worker is ever inside the sink, whatever callers do and however
\* late an abandoned worker is.
THEOREM OneFlight == Spec => []SingleFlight
  <1>1. TypeOK /\ FlightInv /\ [Next]_vars => (TypeOK /\ FlightInv)'
    BY TypeStep, FlightStep
  <1> QED
    BY <1>1, InitType, FlightInit, FlightImplies, PTL DEF Spec

-----------------------------------------------------------------------------
(* No recovery: outside READY every gate refuses, and no failure path      *)
(* leads back.                                                             *)

LEMMA GatesShut ==
  ASSUME TypeOK, gstate # READY
  PROVE  /\ \A p, t : EnqueueGate(p, t) # "OK"
         /\ \A p, t, poseOk : RunGate(p, t, poseOk) # "OK"
         /\ \A p, t : StartGate(p, t) # "OK"
  <1>1. \A t : SessionGate(t) # "OK"
    BY DEF SessionGate, TypeOK, GateTypes, FlagTypes, States, Stopped
  <1>2. CancellationStatus # "OK"
    BY CancellationIsFailure DEF TypeOK, GateTypes, FlagTypes, Failures
  <1> QED
    BY <1>1, <1>2 DEF EnqueueGate, RunGate, StartGate

LEMMA FailClosedLeaves ==
  ASSUME TypeOK, NEW ok \in BOOLEAN, FailClosed(ok)
  PROVE  gstate' # READY /\ queue' = <<>>
  BY FailureStates DEF FailClosed, TypeOK, GateTypes

LEMMA ReleaseLeaves ==
  ASSUME TypeOK, NEW ok \in BOOLEAN, ReleaseAll(ok), gstate # READY
  PROVE  gstate' # READY /\ queue' = queue
  BY FailureStates DEF ReleaseAll, TypeOK, GateTypes

LEMMA RefuseLeaves ==
  ASSUME TypeOK, NEW c, NEW p, NEW f, Refuse(c, p, f)
  PROVE  gstate' # READY /\ queue' = <<>> /\ wpc' = wpc
  BY FailClosedLeaves, ReleaseOutcomesAreFlags DEF Refuse, worker

LEMMA StaysOutStep == TypeOK /\ [Next]_vars => [StaysOut]_vars
  <1> SUFFICES ASSUME TypeOK, Next, gstate # READY
               PROVE  /\ gstate' # READY
                      /\ queue' \in {queue, <<>>}
                      /\ \A p \in Primitives : wpc[p] = "gate" => wpc'[p] # "enter"
    BY DEF StaysOut
  <1> DEFINE Out == /\ gstate' # READY
                    /\ queue' \in {queue, <<>>}
                    /\ \A p \in Primitives : wpc[p] = "gate" => wpc'[p] # "enter"
  <1>0. ASSUME gstate' # READY, queue' \in {queue, <<>>}, wpc' = wpc PROVE Out
    BY <1>0
  <1>1. ASSUME NEW p \in Primitives, Enqueue(p) PROVE Out
    BY <1>0, <1>1, GatesShut, FailClosedLeaves, ReleaseOutcomesAreFlags DEF Enqueue, worker
  <1>2. ASSUME NEW c \in Callers, NEW p \in Primitives, Execute(c, p) PROVE Out
    BY <1>0, <1>2, GatesShut, FailClosedLeaves, ReleaseOutcomesAreFlags DEF Execute, Executable, worker
  <1>3. ASSUME NEW c, NEW p, RunHead(c, p) PROVE Out
    BY <1>0, <1>3, GatesShut, RefuseLeaves DEF RunHead
  <1>4. ASSUME NEW c, RunNext(c) \/ RunExpected(c) PROVE Out
    BY <1>3, <1>4 DEF RunNext, RunExpected
  <1>6. ASSUME NEW c, QueueCleared(c) \/ ClearedStatus(c) \/ StartRaises(c)
                        \/ StartResolved(c) \/ WatchdogFires(c) \/ Completion(c)
        PROVE  Out
    BY <1>0, <1>6 DEF QueueCleared, ClearedStatus, StartRaises, StartResolved, WatchdogFires,
                      Completion, OnlyCaller, gate, worker
  <1>7. ASSUME NEW c, StartWorker(c) PROVE Out
    BY <1>7 DEF StartWorker, OnlyCaller, gate, TypeOK, WorkerTypes
  <1>8. ASSUME NEW c, Fail(c) PROVE Out
    BY <1>0, <1>8, FailureStates DEF Fail, FailLocked, worker, TypeOK, GateTypes
  <1>9. ASSUME NEW c, FailRelease(c) \/ ReleaseAfterApply(c) PROVE Out
    BY <1>0, <1>9, ReleaseLeaves, ReleaseOutcomesAreFlags DEF FailRelease, ReleaseAfterApply, worker
  <1>10. ASSUME NEW c, Commit(c) PROVE Out
    <2>1. gstate' \in {gstate, FAULTED} /\ queue' \in {queue, <<>>}
      BY <1>10, Zenon DEF Commit, gate
    <2>2. wpc' = wpc
      BY <1>10 DEF Commit, worker
    <2> QED
      BY <1>0, <2>1, <2>2
  <1>11. ASSUME NEW p \in Primitives, WorkerGate(p) PROVE Out
    <2>1. wpc' = [wpc EXCEPT ![p] = "leaving"]
      BY <1>11, GatesShut DEF WorkerGate
    <2>2. UNCHANGED gate
      BY <1>11 DEF WorkerGate
    <2> QED
      BY <2>1, <2>2 DEF gate, TypeOK, WorkerTypes
  <1>12. ASSUME NEW p \in Primitives,
                SinkEnter(p) \/ SinkPress(p) \/ SinkExit(p) \/ Deregister(p)
         PROVE  Out
    <2>1. \E w : w # "enter" /\ wpc' = [wpc EXCEPT ![p] = w]
      BY <1>12, Zenon DEF SinkEnter, SinkPress, SinkExit, Deregister
    <2>2. UNCHANGED gate
      BY <1>12 DEF SinkEnter, SinkPress, SinkExit, Deregister
    <2> QED
      BY <2>1, <2>2 DEF gate, TypeOK, WorkerTypes
  <1>13. ASSUME NEW p \in Primitives, FinalRelease(p) PROVE Out
    <2>1. wpc' = [wpc EXCEPT ![p] = "dereg"]
      BY <1>13 DEF FinalRelease
    <2>2. gstate' # READY /\ queue' = queue
      BY <1>13, ReleaseLeaves, ReleaseOutcomesAreFlags DEF FinalRelease, gate
    <2> QED
      BY <2>1, <2>2 DEF TypeOK, WorkerTypes
  <1>14. CASE Takeover
    <2>1. gstate' \in {gstate, MANUAL_TAKEOVER} /\ queue' \in {queue, <<>>}
      BY <1>14, Zenon DEF Takeover, gate
    <2> QED
      BY <1>0, <1>14, <2>1 DEF Takeover, OnlyStop
  <1>15. CASE Close \/ Disarm \/ Revoked
    BY <1>0, <1>15, FailureStates DEF Close, Disarm, Revoked, OnlyStop, gate, TypeOK, GateTypes
  <1>16. ASSUME NEW s \in Stops, StopRelease(s) PROVE Out
    BY <1>0, <1>16, ReleaseLeaves, ReleaseOutcomesAreFlags DEF StopRelease, OnlyStop
  <1>17. CASE Tick
    BY <1>0, <1>17 DEF Tick, gate, worker
  <1> QED
    BY <1>1, <1>2, <1>4, <1>6, <1>7, <1>8, <1>9, <1>10, <1>11, <1>12, <1>13, <1>14,
       <1>15, <1>16, <1>17 DEF Next, CallerStep, WorkerStep

-----------------------------------------------------------------------------
(* Failed releases stay visible.                                           *)

LEMMA FaultVisibleStep == TypeOK /\ ReleaseFaultVisible /\ [Next]_vars => ReleaseFaultVisible'
  <1> SUFFICES ASSUME TypeOK, ReleaseFaultVisible, [Next]_vars, releaseFaulted', gstate' = READY
               PROVE  FALSE
    BY DEF ReleaseFaultVisible
  <1>1. gstate = READY
    BY StaysOutStep DEF StaysOut, vars, gate
  <1>2. ~releaseFaulted
    BY <1>1 DEF ReleaseFaultVisible
  <1>3. \A ok \in BOOLEAN : FailClosed(ok) \/ ReleaseAll(ok) => gstate' # READY \/ ~releaseFaulted'
    BY <1>1, <1>2 DEF FailClosed, ReleaseAll, ReleaseSink, AfterRelease, Faulted, Stopped
  <1>4. ~(\E ok \in BOOLEAN : FailClosed(ok) \/ ReleaseAll(ok))
    BY <1>3
  <1>5. ASSUME NEW p, Enqueue(p) PROVE UNCHANGED releaseFaulted
    BY <1>4, <1>5, ReleaseOutcomesAreFlags, Zenon DEF Enqueue
  <1>6. ASSUME NEW c, NEW p, Execute(c, p) PROVE UNCHANGED releaseFaulted
    BY <1>4, <1>6, ReleaseOutcomesAreFlags, Zenon DEF Execute, Executable
  <1>7. ASSUME NEW c, NEW p, RunHead(c, p) PROVE UNCHANGED releaseFaulted
    BY <1>4, <1>7, ReleaseOutcomesAreFlags, Zenon DEF RunHead, Refuse, Register
  <1>8. ASSUME NEW c, CallerStep(c), ~RunExpected(c) PROVE UNCHANGED releaseFaulted
    BY <1>4, <1>8, ReleaseOutcomesAreFlags, Zenon
    DEF CallerStep, Refuse, QueueCleared, ClearedStatus, StartWorker, StartRaises,
        StartResolved, WatchdogFires, Completion, Fail, FailRelease, ReleaseAfterApply, Commit,
        OnlyCaller
  <1>9. ASSUME NEW p, WorkerStep(p) PROVE UNCHANGED releaseFaulted
    BY <1>4, <1>9, ReleaseOutcomesAreFlags, Zenon
    DEF WorkerStep, WorkerGate, SinkEnter, SinkPress, SinkExit, FinalRelease, Deregister
  <1>10. ASSUME Takeover \/ Close \/ Disarm \/ Revoked \/ Tick \/ \E s \in Stops : StopRelease(s)
         PROVE  UNCHANGED releaseFaulted
    BY <1>4, <1>10, ReleaseOutcomesAreFlags, Zenon
    DEF Takeover, Close, Disarm, Revoked, Tick, StopRelease
  <1>11. CASE UNCHANGED vars
    BY <1>2, <1>11 DEF vars
  <1> QED
    BY <1>2, <1>5, <1>6, <1>7, <1>8, <1>9, <1>10, <1>11 DEF Next, CallerStep, RunNext, RunExpected

\* A release the sink could not complete is latched and the gateway refuses
\* every further command.
LEMMA FaultStaysVisible == Spec => []ReleaseFaultVisible
  <1>1. Init => ReleaseFaultVisible
    BY DEF Init, ReleaseFaultVisible
  <1>2. TypeOK /\ ReleaseFaultVisible /\ [Next]_vars => (TypeOK /\ ReleaseFaultVisible)'
    BY TypeStep, FaultVisibleStep
  <1> QED
    BY <1>1, <1>2, InitType, PTL DEF Spec

\* A gateway that has failed or was stopped, on whatever thread, refuses work for
\* good, and a release the sink could not complete is one of those failures.
THEOREM FaultsStay == Spec => FaultsAreFinal
  BY InitType, TypeStep, StaysOutStep, FaultStaysVisible, PTL DEF Spec, FaultsAreFinal
-----------------------------------------------------------------------------
(* A stop that returned. Cancellation is set before a stop releases and is *)
(* never reset, so a sink that honours it presses nothing afterwards.      *)

StopsCancel == \A s \in Stops : stopPc[s] \in {"releasing", "returned", "failed"} => cancelled

StopInv == StopsCancel /\ StoppedMeansReleased

LEMMA StopStep ==
  ASSUME CooperativeSink
  PROVE  TypeOK /\ StopInv /\ [Next]_vars => StopInv'
  <1> SUFFICES ASSUME TypeOK, StopInv, [Next]_vars PROVE StopInv'
    OBVIOUS
  <1>1. ASSUME cancelled => cancelled', keyDown' => keyDown \/ ~cancelled, stopPc' = stopPc
        PROVE  StopInv'
    BY <1>1 DEF StopInv, StopsCancel, StoppedMeansReleased
  <1>2. \A ok \in BOOLEAN : FailClosed(ok) \/ ReleaseAll(ok) => keyDown' = (keyDown /\ ~ok)
    BY DEF FailClosed, ReleaseAll, ReleaseSink
  <1>3. CASE UNCHANGED vars \/ Tick
    <2>1. UNCHANGED <<cancelled, keyDown, stopPc>>
      BY <1>3 DEF vars, sink, Tick
    <2> QED
      BY <1>1, <2>1, Zenon
  <1>4. ASSUME NEW p \in Primitives, Enqueue(p) PROVE StopInv'
    <2>1. keyDown' => keyDown
      BY <1>2, <1>4, ReleaseOutcomesAreFlags, Zenon DEF Enqueue, sink
    <2> QED
      BY <1>1, <1>4, <2>1 DEF Enqueue
  <1>5. ASSUME NEW c, NEW p, Execute(c, p) PROVE StopInv'
    <2>1. keyDown' => keyDown
      BY <1>2, <1>5, ReleaseOutcomesAreFlags, Zenon DEF Execute, Executable, sink
    <2> QED
      BY <1>1, <1>5, <2>1 DEF Execute, Executable
  <1>6. ASSUME NEW c, NEW p, RunHead(c, p) PROVE StopInv'
    <2>1. keyDown' => keyDown
      BY <1>2, <1>6, ReleaseOutcomesAreFlags, Zenon DEF RunHead, Refuse, Register, sink
    <2> QED
      BY <1>1, <1>6, <2>1 DEF RunHead
  <1>7. ASSUME NEW c, RunNext(c) \/ RunExpected(c) PROVE StopInv'
    BY <1>6, <1>7 DEF RunNext, RunExpected
  <1>8. ASSUME NEW c, FailRelease(c) \/ ReleaseAfterApply(c) PROVE StopInv'
    <2>1. keyDown' => keyDown
      BY <1>2, <1>8, ReleaseOutcomesAreFlags, Zenon
      DEF Refuse, FailRelease, ReleaseAfterApply
    <2> QED
      BY <1>1, <1>8, <2>1 DEF FailRelease, ReleaseAfterApply
  <1>9. ASSUME NEW c, QueueCleared(c) \/ ClearedStatus(c) \/ StartWorker(c) \/ StartRaises(c)
                        \/ StartResolved(c) \/ WatchdogFires(c) \/ Completion(c) \/ Fail(c)
                        \/ Commit(c)
        PROVE  StopInv'
    <2>1. keyDown' = keyDown /\ stopPc' = stopPc /\ (cancelled' = cancelled \/ cancelled' = TRUE)
      BY <1>9, Zenon DEF QueueCleared, ClearedStatus, StartWorker, StartRaises, StartResolved,
                         WatchdogFires, Abandon, Completion, Fail, Commit, OnlyCaller, sink
    <2> QED
      BY <1>1, <2>1, Zenon
  <1>10. ASSUME NEW p, SinkPress(p) PROVE StopInv'
    BY <1>1, <1>10, Zenon DEF SinkPress, OnlyWorker
  <1>11. ASSUME NEW p, WorkerGate(p) \/ SinkEnter(p) \/ SinkExit(p) \/ FinalRelease(p) \/ Deregister(p)
         PROVE  StopInv'
    <2>1. keyDown' => keyDown
      BY <1>2, <1>11, ReleaseOutcomesAreFlags, Zenon
      DEF WorkerGate, SinkEnter, SinkExit, FinalRelease, Deregister, sink
    <2>2. UNCHANGED <<cancelled, stopPc>>
      BY <1>11, Zenon DEF WorkerGate, SinkEnter, SinkExit, FinalRelease, Deregister, OnlyWorker
    <2> QED
      BY <1>1, <2>1, <2>2, Zenon
  <1>12. CASE Takeover \/ Close \/ Revoked
    <2>1. /\ cancelled' = TRUE /\ keyDown' = keyDown
          /\ \E s \in Stops : stopPc' = [stopPc EXCEPT ![s] = "releasing"]
      BY <1>12, Zenon DEF Takeover, Close, Revoked, CancelActive, sink, Stops
    <2> QED
      BY <2>1 DEF StopInv, StopsCancel, StoppedMeansReleased, TypeOK, StopTypes
  <1>13. CASE Disarm
    <2>1. /\ cancelled' = cancelled /\ keyDown' = keyDown
          /\ \E w \in {"notify", "unheard"} : stopPc' = [stopPc EXCEPT !["disarm"] = w]
      BY <1>13, Zenon DEF Disarm, sink
    <2> QED
      BY <2>1 DEF StopInv, StopsCancel, StoppedMeansReleased, TypeOK, StopTypes
  <1>14. ASSUME NEW s \in Stops, StopRelease(s) PROVE StopInv'
    <2>1. PICK ok \in BOOLEAN : /\ ReleaseAll(ok)
                                /\ stopPc' = [stopPc EXCEPT ![s] = IF ok THEN "returned" ELSE "failed"]
      BY <1>14, ReleaseOutcomesAreFlags DEF StopRelease
    <2>2. stopPc[s] = "releasing" /\ cancelled' = cancelled
      BY <1>14 DEF StopRelease
    <2>3. cancelled
      BY <2>2 DEF StopInv, StopsCancel
    <2>4. keyDown' = (keyDown /\ ~ok)
      BY <1>2, <2>1
    <2> QED
      BY <2>1, <2>2, <2>3, <2>4 DEF StopInv, StopsCancel, StoppedMeansReleased, TypeOK, StopTypes
  <1> QED
    BY <1>3, <1>4, <1>5, <1>7, <1>8, <1>9, <1>10, <1>11, <1>12, <1>13, <1>14
    DEF Next, CallerStep, WorkerStep

\* With a sink that honours cancellation, no control is held after any takeover,
\* close or revocation that reported a successful release, and none ever again.
THEOREM StopsRelease == CooperativeSink => (Spec => []StoppedMeansReleased)
  <1> SUFFICES ASSUME CooperativeSink PROVE Spec => []StoppedMeansReleased
    OBVIOUS
  <1>1. Init => StopInv
    BY DEF Init, StopInv, StopsCancel, StoppedMeansReleased
  <1>2. TypeOK /\ StopInv /\ [Next]_vars => (TypeOK /\ StopInv)'
    BY TypeStep, StopStep
  <1>3. StopInv => StoppedMeansReleased
    BY DEF StopInv
  <1> QED
    BY <1>1, <1>2, <1>3, InitType, PTL DEF Spec

-----------------------------------------------------------------------------
(* execute runs its own primitive. While it waits between its halves the   *)
(* queue is its own, or the gateway is out of READY and accepts nothing.    *)

HeadIsOwn ==
  \A c \in Callers : cpc[c] = "expected" =>
    /\ queue # <<>> => Head(queue) = cprim[c]
    /\ gstate = READY => queue # <<>>

\* A step that accepts nothing and takes nothing.
QueueKept == queue' \in {queue, <<>>} /\ (gstate' = READY => gstate = READY /\ queue' = queue)

WaitersKept ==
  \A c \in Callers : cpc'[c] = "expected" => cpc[c] = "expected" /\ cprim'[c] = cprim[c]

LEMMA HeadKept == HeadIsOwn /\ QueueKept /\ WaitersKept => HeadIsOwn'
  BY DEF HeadIsOwn, QueueKept, WaitersKept

LEMMA NobodyWaits ==
  ASSUME NEW c \in Callers, execLock \in {c, NoOne}, FlightInv
  PROVE  \A d \in Callers : d # c => cpc[d] = "idle"
  BY GatewayAssumption DEF GatewayAssumption, FlightInv, InsideHoldsLock

LEMMA ReleaseKeepsQueue ==
  ASSUME TypeOK, NEW ok \in BOOLEAN, ReleaseAll(ok)
  PROVE  QueueKept
  BY DEF ReleaseAll, AfterRelease, QueueKept

LEMMA FailClosedKeepsQueue ==
  ASSUME TypeOK, NEW ok \in BOOLEAN, FailClosed(ok)
  PROVE  QueueKept
  BY FailClosedLeaves DEF QueueKept

LEMMA OpenGateIsReady ==
  ASSUME TypeOK, NEW p, NEW t, EnqueueGate(p, t) = "OK"
  PROVE  gstate = READY
  BY GatesShut

LEMMA HeadStep == TypeOK /\ FlightInv /\ HeadIsOwn /\ [Next]_vars => HeadIsOwn'
  <1> SUFFICES ASSUME TypeOK, FlightInv, HeadIsOwn, [Next]_vars PROVE HeadIsOwn'
    OBVIOUS
  <1>0. ASSUME UNCHANGED caller PROVE WaitersKept
    BY <1>0 DEF caller, WaitersKept
  <1>1. ASSUME UNCHANGED gate PROVE QueueKept
    BY <1>1 DEF gate, QueueKept
  <1>2. ASSUME NEW p \in Primitives, Enqueue(p) PROVE HeadIsOwn'
    <2>1. CASE \E ok \in ReleaseOutcomes : FailClosed(ok)
      <3>1. QueueKept
        BY <2>1, FailClosedKeepsQueue, ReleaseOutcomesAreFlags
      <3> QED
        BY <1>0, <1>2, <3>1, HeadKept DEF Enqueue
    <2>2. CASE Accept(p) /\ gstate = READY /\ UNCHANGED gstate
      <3>1. queue \in Seq(Primitives)
        BY DEF TypeOK, GateTypes
      <3>2. queue # <<>> => Append(queue, p) # <<>> /\ Head(Append(queue, p)) = Head(queue)
        BY <3>1
      <3> QED
        BY <1>2, <2>2, <3>2 DEF Enqueue, Accept, HeadIsOwn, caller
    <2> QED
      BY <1>2, <2>1, <2>2, OpenGateIsReady DEF Enqueue
  <1>3. ASSUME NEW c \in Callers, NEW p \in Primitives, Execute(c, p) PROVE HeadIsOwn'
    <2>1. CASE UNCHANGED caller
      <3>1. QueueKept
        BY <1>3, <2>1, FailClosedKeepsQueue, ReleaseOutcomesAreFlags
        DEF Execute, caller, TypeOK, CallTypes
      <3> QED
        BY <1>0, <2>1, <3>1, HeadKept
    <2>2. CASE queue = <<>> /\ Accept(p) /\ execLock = NoOne
               /\ cpc' = [cpc EXCEPT ![c] = "expected"] /\ cprim' = [cprim EXCEPT ![c] = p]
      <3>1. \A d \in Callers : d # c => cpc[d] = "idle"
        BY <2>2, NobodyWaits
      <3>2. queue' # <<>> /\ Head(queue') = p
        BY <2>2 DEF Accept
      <3> QED
        BY <2>2, <3>1, <3>2 DEF HeadIsOwn, TypeOK, CallTypes
    <2> QED
      BY <1>3, <2>1, <2>2 DEF Execute, Executable
  <1>4. ASSUME NEW c \in Callers, NEW p, RunHead(c, p), execLock \in {c, NoOne} PROVE HeadIsOwn'
    <2>1. \A d \in Callers : d # c => cpc[d] = "idle"
      BY <1>4, NobodyWaits
    <2>2. cpc' = [cpc EXCEPT ![c] = "starting"] \/ cpc' = [cpc EXCEPT ![c] = "idle"]
      BY <1>4, Zenon DEF RunHead, Register, Refuse, Finish
    <2> QED
      BY <2>1, <2>2 DEF HeadIsOwn, TypeOK, CallTypes
  <1>5. ASSUME NEW c \in Callers, RunNext(c) \/ RunExpected(c) PROVE HeadIsOwn'
    BY <1>4, <1>5 DEF RunNext, RunExpected, FlightInv, InsideHoldsLock
  <1>6. ASSUME NEW c \in Callers, NEW l, l # "expected", cpc' = [cpc EXCEPT ![c] = l],
               \A d \in Callers : d # c => cprim'[d] = cprim[d]
        PROVE  WaitersKept
    BY <1>6 DEF WaitersKept, TypeOK, CallTypes
  <1>7. ASSUME NEW c \in Callers,
               QueueCleared(c) \/ ClearedStatus(c) \/ StartWorker(c) \/ StartRaises(c)
               \/ StartResolved(c) \/ WatchdogFires(c) \/ Completion(c)
        PROVE  HeadIsOwn'
    <2>1. UNCHANGED gate /\ UNCHANGED cprim
      BY <1>7 DEF QueueCleared, ClearedStatus, StartWorker, StartRaises, StartResolved,
                  WatchdogFires, Completion, OnlyCaller
    <2>2. \E l : l # "expected" /\ cpc' = [cpc EXCEPT ![c] = l]
      BY <1>7, Zenon DEF QueueCleared, ClearedStatus, StartWorker, StartRaises, StartResolved,
                  WatchdogFires, Completion, Abandon
    <2> QED
      BY <1>1, <1>6, <2>1, <2>2, HeadKept
  <1>8. ASSUME NEW c \in Callers, Fail(c) \/ FailRelease(c) \/ ReleaseAfterApply(c) \/ Commit(c)
        PROVE  HeadIsOwn'
    <2>1. QueueKept
      <3>1. CASE Fail(c)
        BY <3>1, FailureStates DEF Fail, FailLocked, QueueKept, TypeOK, GateTypes
      <3>2. CASE FailRelease(c) \/ ReleaseAfterApply(c)
        BY <3>2, ReleaseKeepsQueue, ReleaseOutcomesAreFlags DEF FailRelease, ReleaseAfterApply
      <3>3. CASE Commit(c)
        <4>1. UNCHANGED gate \/ (gstate' = FAULTED /\ queue' = <<>>)
          BY <3>3, Zenon DEF Commit
        <4> QED
          BY <1>1, <4>1 DEF QueueKept
      <3> QED
        BY <1>8, <3>1, <3>2, <3>3
    <2>2. \E l : l # "expected" /\ cpc' = [cpc EXCEPT ![c] = l]
      BY <1>8, Zenon DEF Fail, FailRelease, ReleaseAfterApply, Commit, Finish
    <2>3. \A d \in Callers : d # c => cprim'[d] = cprim[d]
      BY <1>8 DEF Fail, FailRelease, ReleaseAfterApply, Commit, Finish, TypeOK, CallTypes
    <2> QED
      BY <1>6, <2>1, <2>2, <2>3, HeadKept
  <1>9. ASSUME NEW p \in Primitives, WorkerStep(p) PROVE HeadIsOwn'
    <2>1. UNCHANGED caller
      BY <1>9 DEF WorkerStep, WorkerGate, SinkEnter, SinkPress, SinkExit, FinalRelease,
                  Deregister, OnlyWorker
    <2>2. UNCHANGED gate \/ \E ok \in ReleaseOutcomes : ReleaseAll(ok)
      BY <1>9, Zenon DEF WorkerStep, WorkerGate, SinkEnter, SinkPress, SinkExit, FinalRelease,
                  Deregister
    <2> QED
      BY <1>0, <1>1, <2>1, <2>2, HeadKept, ReleaseKeepsQueue, ReleaseOutcomesAreFlags
  <1>10. CASE Takeover \/ Close \/ Disarm \/ Revoked
    <2>1. UNCHANGED caller
      BY <1>10 DEF Takeover, Close, Disarm, Revoked, OnlyStop
    <2>2. UNCHANGED gate \/ (gstate' # READY /\ queue' = <<>>)
      BY <1>10, FailureStates DEF Takeover, Close, Disarm, Revoked, TypeOK, GateTypes
    <2> QED
      BY <1>0, <1>1, <2>1, <2>2, HeadKept DEF QueueKept
  <1>11. ASSUME NEW s \in Stops, StopRelease(s) PROVE HeadIsOwn'
    BY <1>0, <1>11, HeadKept, ReleaseKeepsQueue, ReleaseOutcomesAreFlags DEF StopRelease, OnlyStop
  <1>12. CASE Tick \/ UNCHANGED vars
    BY <1>0, <1>1, <1>12, HeadKept DEF Tick, vars
  <1> QED
    BY <1>2, <1>3, <1>5, <1>7, <1>8, <1>9, <1>10, <1>11, <1>12 DEF Next, CallerStep

\* Between the halves of an execute, with the lock let go, the queue is cleared
\* or still begins with its own primitive.
THEOREM RunsItsOwn == Spec => []ExecuteRunsItsOwn
  <1>1. Init => HeadIsOwn
    BY GatewayAssumption DEF Init, HeadIsOwn
  <1>2. HeadIsOwn => ExecuteRunsItsOwn
    BY DEF HeadIsOwn, ExecuteRunsItsOwn
  <1> QED
    BY <1>1, <1>2, InitType, TypeStep, FlightInit, FlightStep, HeadStep, PTL DEF Spec

-----------------------------------------------------------------------------
(* Nothing is left held. Whoever may still press has somebody who releases  *)
(* after it: itself, once its final release is asked for, or the caller     *)
(* that waits for it.                                                       *)

Waiting == {"waitStart", "waitRejected", "waitApply"}
InApply == {"apply", "held", "leaving"}
WillRelease == Waiting \cup {"release", "failing", "failRelease"}

Watched ==
  \A p \in Primitives : wpc[p] \in {"gate", "enter"} \cup InApply =>
    finalRelease[p] \/ \E c \in Callers : cprim[c] = p /\ cpc[c] \in Waiting

Owed ==
  keyDown /\ ~releaseFaulted =>
    \/ \E p \in Primitives : wpc[p] \in InApply /\ finalRelease[p]
    \/ \E c \in Callers : cpc[c] \in WillRelease

QuietInv == Watched /\ Owed

LEMMA QuietImplies == TypeOK /\ QuietInv => QuietMeansReleased
  BY DEF QuietInv, Owed, QuietMeansReleased, Quiet, WorkerLive, InApply, WillRelease, Waiting,
         TypeOK, FlagTypes

LEMMA ReleasesPay ==
  ASSUME TypeOK, NEW ok \in BOOLEAN, FailClosed(ok) \/ ReleaseAll(ok)
  PROVE  Owed'
  BY DEF FailClosed, ReleaseAll, ReleaseSink, Owed, TypeOK, FlagTypes

LEMMA QuietStep == TypeOK /\ FlightInv /\ QuietInv /\ [Next]_vars => QuietInv'
  <1> SUFFICES ASSUME TypeOK, FlightInv, QuietInv, [Next]_vars PROVE QuietInv'
    OBVIOUS
  <1> USE DEF QuietInv
  <1>0. /\ wpc \in [Primitives -> WorkerLive \cup {"none", "done"}]
        /\ finalRelease \in [Primitives -> BOOLEAN]
        /\ cpc \in [Callers -> CallerPcs]
        /\ \A c \in Callers : cpc[c] # "idle" => cprim[c] \in Primitives
    BY DEF TypeOK, CallTypes, WorkerTypes
  <1>1. ASSUME UNCHANGED <<wpc, finalRelease, cpc, cprim>>,
               Owed' \/ UNCHANGED <<keyDown, releaseFaulted>>
        PROVE  QuietInv'
    BY <1>1 DEF Watched, Owed
  <1>2. ASSUME NEW p \in Primitives, Enqueue(p) PROVE QuietInv'
    <2>1. UNCHANGED <<keyDown, releaseFaulted>> \/ \E ok \in ReleaseOutcomes : FailClosed(ok)
      BY <1>2, Zenon DEF Enqueue, sink
    <2> QED
      BY <1>1, <1>2, <2>1, ReleasesPay, ReleaseOutcomesAreFlags DEF Enqueue, caller, worker
  <1>3. ASSUME NEW c \in Callers, cpc[c] \notin WillRelease, NEW l,
               cpc' = [cpc EXCEPT ![c] = l], UNCHANGED <<wpc, finalRelease>>,
               \A d \in Callers : d # c => cprim'[d] = cprim[d],
               Owed' \/ UNCHANGED <<keyDown, releaseFaulted>>
        PROVE  QuietInv'
    BY <1>0, <1>3 DEF Watched, Owed, WillRelease
  <1>4. ASSUME NEW c \in Callers, NEW p \in Primitives, Execute(c, p) PROVE QuietInv'
    <2>1. CASE UNCHANGED caller
      <3>1. \E ok \in ReleaseOutcomes : FailClosed(ok)
        BY <1>4, <2>1 DEF Execute, caller, TypeOK, CallTypes
      <3> QED
        BY <1>1, <1>4, <2>1, <3>1, ReleasesPay, ReleaseOutcomesAreFlags
        DEF Execute, caller, worker
    <2>2. CASE /\ cpc' = [cpc EXCEPT ![c] = "expected"] /\ cprim' = [cprim EXCEPT ![c] = p]
               /\ UNCHANGED <<sink, releaseFaulted>>
      <3>1. cpc[c] \notin WillRelease
        BY <1>4 DEF Execute, WillRelease, Waiting
      <3>2. \A d \in Callers : d # c => cprim'[d] = cprim[d]
        BY <2>2 DEF TypeOK, CallTypes
      <3> QED
        BY <1>3, <1>4, <2>2, <3>1, <3>2 DEF Execute, worker, sink
    <2> QED
      BY <1>4, <2>1, <2>2 DEF Execute
  <1>5. ASSUME NEW c \in Callers, NEW p \in Primitives, RunHead(c, p),
               cpc[c] \in {"idle", "expected"}
        PROVE  QuietInv'
    <2>1. cpc[c] \notin WillRelease
      BY <1>5 DEF WillRelease, Waiting
    <2>2. CASE \E f : Refuse(c, p, f)
      <3>1. Owed' /\ UNCHANGED <<wpc, finalRelease>> /\ cpc' = [cpc EXCEPT ![c] = "idle"]
            /\ cprim' = [cprim EXCEPT ![c] = NoOne]
        BY <2>2, ReleasesPay, ReleaseOutcomesAreFlags DEF Refuse, Finish, worker
      <3> QED
        BY <1>3, <2>1, <3>1 DEF TypeOK, CallTypes
    <2>3. CASE \E t \in Readings, poseOk \in BOOLEAN :
                 RunGate(p, t, poseOk) = "OK" /\ Register(c, p, t)
      <3>1. active = NoOne /\ \E t \in Readings : Register(c, p, t)
        BY <2>3 DEF RunGate
      <3>2. \A q \in Primitives : wpc[q] \notin WorkerLive
        BY <3>1, GatewayAssumption DEF GatewayAssumption, FlightInv, LiveIsActive
      <3>3. /\ UNCHANGED <<wpc, keyDown, releaseFaulted>>
            /\ cpc' = [cpc EXCEPT ![c] = "starting"]
        BY <3>1 DEF Register, sink
      <3>4. Watched'
        BY <3>2, <3>3 DEF Watched, WorkerLive, InApply
      <3>5. Owed'
        BY <1>0, <2>1, <3>2, <3>3 DEF Owed, WorkerLive, InApply, WillRelease
      <3> QED
        BY <3>4, <3>5
    <2> QED
      BY <1>5, <2>2, <2>3 DEF RunHead
  <1>6. ASSUME NEW c \in Callers, RunNext(c) \/ RunExpected(c) PROVE QuietInv'
    BY <1>0, <1>5, <1>6 DEF RunNext, RunExpected, TypeOK, GateTypes
  <1>7. ASSUME NEW c \in Callers, QueueCleared(c) \/ ClearedStatus(c) \/ Commit(c) PROVE QuietInv'
    <2>1. /\ cpc[c] \notin WillRelease
          /\ \E l : cpc' = [cpc EXCEPT ![c] = l]
          /\ UNCHANGED <<wpc, finalRelease, keyDown, releaseFaulted>>
      BY <1>7 DEF QueueCleared, ClearedStatus, Commit, Finish, worker, sink, WillRelease, Waiting
    <2>2. \A d \in Callers : d # c => cprim'[d] = cprim[d]
      BY <1>7 DEF QueueCleared, ClearedStatus, Commit, Finish, TypeOK, CallTypes
    <2> QED
      BY <1>3, <2>1, <2>2
  <1>8. ASSUME NEW c \in Callers, StartWorker(c) PROVE QuietInv'
    <2>1. cprim[c] \in Primitives /\ wpc[cprim[c]] \notin WorkerLive
      BY <1>0, <1>8 DEF StartWorker, FlightInv, StartingIsActive
    <2>2. /\ cpc[c] = "starting" /\ cpc' = [cpc EXCEPT ![c] = "waitStart"]
          /\ wpc' = [wpc EXCEPT ![cprim[c]] = "gate"]
          /\ UNCHANGED <<finalRelease, cprim, keyDown, releaseFaulted>>
      BY <1>8 DEF StartWorker, OnlyCaller, sink
    <2>3. Watched'
      BY <1>0, <2>1, <2>2 DEF Watched, InApply, Waiting
    <2>4. Owed'
      BY <1>0, <2>1, <2>2 DEF Owed, InApply, WillRelease, Waiting, WorkerLive
    <2> QED
      BY <2>3, <2>4
  <1>9. ASSUME NEW c \in Callers, StartRaises(c) \/ WatchdogFires(c) PROVE QuietInv'
    <2>1. /\ cpc' = [cpc EXCEPT ![c] = "failing"]
          /\ finalRelease' = [finalRelease EXCEPT ![cprim[c]] = TRUE]
          /\ UNCHANGED <<wpc, cprim, keyDown, releaseFaulted>>
      BY <1>9 DEF StartRaises, WatchdogFires, Abandon, OnlyCaller, sink
    <2>2. Watched'
      BY <1>0, <2>1 DEF Watched
    <2>3. Owed'
      BY <1>0, <2>1 DEF Owed, WillRelease
    <2> QED
      BY <2>2, <2>3
  <1>10. ASSUME NEW c \in Callers, StartResolved(c) PROVE QuietInv'
    <2>1. /\ cpc[c] \in Waiting
          /\ \E l \in Waiting : cpc' = [cpc EXCEPT ![c] = l]
          /\ UNCHANGED <<wpc, finalRelease, cprim, keyDown, releaseFaulted>>
      BY <1>10, Zenon DEF StartResolved, OnlyCaller, sink, worker, Waiting
    <2> QED
      BY <1>0, <2>1 DEF Watched, Owed, WillRelease
  <1>11. ASSUME NEW c \in Callers, Completion(c) PROVE QuietInv'
    <2>1. /\ cpc[c] # "idle" /\ wpc[cprim[c]] = "done"
          /\ \E l \in {"release", "failing"} : cpc' = [cpc EXCEPT ![c] = l]
          /\ UNCHANGED <<wpc, finalRelease, cprim, keyDown, releaseFaulted>>
      BY <1>11, Zenon DEF Completion, OnlyCaller, sink, worker
    <2>2. Watched'
      BY <1>0, <2>1 DEF Watched, InApply
    <2>3. Owed'
      BY <1>0, <2>1 DEF Owed, WillRelease
    <2> QED
      BY <2>2, <2>3
  <1>12. ASSUME NEW c \in Callers, Fail(c) PROVE QuietInv'
    <2>1. /\ cpc[c] = "failing" /\ cpc' = [cpc EXCEPT ![c] = "failRelease"]
          /\ UNCHANGED <<wpc, finalRelease, cprim, keyDown, releaseFaulted>>
      BY <1>12 DEF Fail, worker, sink
    <2> QED
      BY <1>0, <2>1 DEF Watched, Owed, WillRelease, Waiting
  <1>13. ASSUME NEW c \in Callers, FailRelease(c) \/ ReleaseAfterApply(c) PROVE QuietInv'
    <2>1. Owed'
      BY <1>13, ReleasesPay, ReleaseOutcomesAreFlags DEF FailRelease, ReleaseAfterApply
    <2>2. /\ cpc[c] \notin Waiting
          /\ \E l : cpc' = [cpc EXCEPT ![c] = l]
          /\ UNCHANGED <<wpc, finalRelease>>
      BY <1>13 DEF FailRelease, ReleaseAfterApply, Finish, worker, Waiting
    <2>3. \A d \in Callers : d # c => cprim'[d] = cprim[d]
      BY <1>13 DEF FailRelease, ReleaseAfterApply, Finish, TypeOK, CallTypes
    <2> QED
      BY <1>0, <2>1, <2>2, <2>3 DEF Watched
  <1>14. ASSUME NEW p \in Primitives, WorkerGate(p) \/ SinkEnter(p) \/ SinkPress(p) \/ SinkExit(p)
         PROVE  QuietInv'
    <2>1. /\ wpc[p] \in {"gate", "enter"} \cup InApply
          /\ \E l \in {"enter"} \cup InApply : wpc' = [wpc EXCEPT ![p] = l]
          /\ UNCHANGED <<finalRelease, cpc, cprim, releaseFaulted>>
      BY <1>14, Zenon DEF WorkerGate, SinkEnter, SinkPress, SinkExit, OnlyWorker, caller, InApply
    <2>2. Watched'
      BY <1>0, <2>1 DEF Watched
    <2>3. keyDown' /\ ~keyDown => wpc'[p] \in InApply
      BY <1>0, <1>14 DEF WorkerGate, SinkEnter, SinkPress, SinkExit, sink, InApply, TypeOK, FlagTypes
    <2>4. wpc[p] \in InApply => wpc'[p] \in InApply
      BY <1>0, <1>14 DEF WorkerGate, SinkEnter, SinkPress, SinkExit, InApply
    <2>5. ASSUME keyDown', ~releaseFaulted' PROVE Owed'
      <3>1. CASE keyDown
        BY <1>0, <2>1, <2>4, <3>1 DEF Owed
      <3>2. CASE ~keyDown
        BY <1>0, <2>1, <2>2, <2>3, <3>2 DEF Owed, Watched, WillRelease
      <3> QED
        BY <3>1, <3>2
    <2> QED
      BY <2>2, <2>5 DEF Owed
  <1>15. ASSUME NEW p \in Primitives, FinalRelease(p) PROVE QuietInv'
    <2>1. /\ wpc[p] = "leaving" /\ wpc' = [wpc EXCEPT ![p] = "dereg"]
          /\ UNCHANGED <<finalRelease, cpc, cprim>>
      BY <1>15 DEF FinalRelease, OnlyWorker, caller
    <2>2. Watched'
      BY <1>0, <2>1 DEF Watched, InApply
    <2>3. CASE finalRelease[p]
      BY <1>15, <2>2, <2>3, ReleasesPay, ReleaseOutcomesAreFlags DEF FinalRelease
    <2>4. CASE ~finalRelease[p]
      BY <1>0, <1>15, <2>1, <2>2, <2>4 DEF FinalRelease, sink, Owed
    <2> QED
      BY <2>3, <2>4
  <1>16. ASSUME NEW p \in Primitives, Deregister(p) PROVE QuietInv'
    <2>1. /\ wpc[p] = "dereg" /\ wpc' = [wpc EXCEPT ![p] = "done"]
          /\ UNCHANGED <<finalRelease, cpc, cprim, keyDown, releaseFaulted>>
      BY <1>16 DEF Deregister, OnlyWorker, caller, sink
    <2> QED
      BY <1>0, <2>1 DEF Watched, Owed, InApply
  <1>17. CASE Takeover \/ Close \/ Disarm \/ Revoked
    <2>1. /\ UNCHANGED <<wpc, cpc, cprim, keyDown, releaseFaulted>>
          /\ \/ finalRelease' = finalRelease
             \/ finalRelease' = [p \in Primitives |-> finalRelease[p] \/ p = active]
      BY <1>17, Zenon DEF Takeover, Close, Disarm, Revoked, CancelActive, OnlyStop, caller, sink
    <2> QED
      BY <1>0, <2>1 DEF Watched, Owed
  <1>18. ASSUME NEW s \in Stops, StopRelease(s) PROVE QuietInv'
    BY <1>1, <1>18, ReleasesPay, ReleaseOutcomesAreFlags DEF StopRelease, OnlyStop, caller
  <1>19. CASE Tick \/ UNCHANGED vars
    BY <1>1, <1>19 DEF Tick, vars, caller, worker, sink
  <1> QED
    BY <1>2, <1>4, <1>6, <1>7, <1>8, <1>9, <1>10, <1>11, <1>12, <1>13, <1>14, <1>15,
       <1>16, <1>17, <1>18, <1>19 DEF Next, CallerStep, WorkerStep

\* When every call, worker and stop is over no control is held, or a failed
\* release was latched, though the sink may press after it was cancelled.
THEOREM QuietIsReleased == Spec => []QuietMeansReleased
  <1>1. Init => QuietInv
    BY DEF Init, QuietInv, Watched, Owed, InApply
  <1>2. TypeOK /\ FlightInv /\ QuietInv /\ [Next]_vars => (TypeOK /\ FlightInv /\ QuietInv)'
    BY TypeStep, FlightStep, QuietStep
  <1> QED
    BY <1>1, <1>2, InitType, FlightInit, QuietImplies, PTL DEF Spec

-----------------------------------------------------------------------------
(* One answer each. The queue holds accepted primitives in sequence order,  *)
(* none of them answered yet, nor is the one a call is busy with, and that  *)
(* one is in the queue no more once it was taken.                           *)

\* The sequence number that entry i of the queue has.
Place(i) == nextSequence - Len(queue) + i - 1

Queued ==
  \A i \in 1..Len(queue) :
    queue[i] \in Honoured \cap seen /\ verdict[queue[i]] = Unset /\ SequenceOf[queue[i]] = Place(i)

Unanswered ==
  /\ \A p \in Primitives : verdict[p] # Unset => p \in seen
  /\ \A c \in Callers : cpc[c] # "idle" => cprim[c] \in seen /\ verdict[cprim[c]] = Unset
  /\ \A c \in Callers : cpc[c] \notin {"idle", "expected"} =>
       \A i \in 1..Len(queue) : queue[i] # cprim[c]

LedgerInv == Queued /\ Unanswered

LEMMA QueueCut ==
  ASSUME TypeOK, LedgerInv, queue' \in {queue, <<>>},
         UNCHANGED <<ledger, cpc, cprim, verdict>>
  PROVE  LedgerInv'
  <1>1. CASE queue' = queue
    BY <1>1 DEF LedgerInv, Queued, Unanswered, Place, ledger
  <1>2. CASE queue' = <<>>
    BY <1>2 DEF LedgerInv, Queued, Unanswered, Place, ledger
  <1> QED BY <1>1, <1>2

\* A call leaves, with an answer for the primitive it was busy with or refused.
LEMMA CallAnswered ==
  ASSUME TypeOK, FlightInv, LedgerInv, NEW c \in Callers, NEW p \in Primitives,
         execLock \in {c, NoOne}, Finish(c), \E v : verdict' = [verdict EXCEPT ![p] = v],
         p \in seen, UNCHANGED ledger,
         \/ queue' = <<>>
         \/ queue' = queue /\ \A i \in 1..Len(queue) : queue[i] # p
  PROVE  LedgerInv'
  <1>1. \A d \in Callers : cpc'[d] = "idle"
    BY NobodyWaits DEF Finish, TypeOK, CallTypes
  <1>2. verdict \in [Primitives -> Failures \cup {"EXECUTED", "OK", Unset}] /\ queue \in Seq(Primitives)
    BY DEF TypeOK, CallTypes, GateTypes
  <1>3. Unanswered'
    BY <1>1, <1>2 DEF LedgerInv, Unanswered, ledger
  <1>4. CASE queue' = <<>>
    BY <1>3, <1>4 DEF LedgerInv, Queued
  <1>5. CASE queue' = queue /\ \A i \in 1..Len(queue) : queue[i] # p
    BY <1>2, <1>3, <1>5 DEF LedgerInv, Queued, Place, ledger
  <1> QED BY <1>4, <1>5

LEMMA AcceptedInPlace ==
  ASSUME TypeOK, LedgerInv, NEW p \in Primitives, NEW t, EnqueueGate(p, t) = "OK", Accept(p),
         UNCHANGED verdict
  PROVE  /\ Queued'
         /\ p \notin seen /\ p \in seen' /\ verdict[p] = Unset
         /\ \A i \in 1..Len(queue') : queue'[i] \in {p} \cup {queue[j] : j \in 1..Len(queue)}
  <1>1. p \in Honoured \ seen /\ SequenceOf[p] = nextSequence
    BY GatesShut DEF EnqueueGate, SessionGate
  <1>2. queue \in Seq(Primitives) /\ nextSequence \in Nat
    BY DEF TypeOK, GateTypes
  <1>3. /\ Len(queue') = Len(queue) + 1 /\ queue'[Len(queue) + 1] = p
        /\ \A i \in 1..Len(queue) : queue'[i] = queue[i]
    BY <1>2 DEF Accept
  <1>4. seen' = seen \cup {p} /\ nextSequence' = nextSequence + 1
    BY DEF Accept
  <1>5. \A i \in 1..Len(queue) : Place(i)' = Place(i)
    BY <1>2, <1>3, <1>4 DEF Place
  <1>6. nextSequence' - Len(queue') + (Len(queue) + 1) - 1 = nextSequence
    BY <1>2, <1>3, <1>4
  <1>7. verdict[p] = Unset
    BY <1>1 DEF LedgerInv, Unanswered
  <1>8. \A i \in 1..Len(queue') : i \in 1..Len(queue) \/ i = Len(queue) + 1
    BY <1>2, <1>3
  <1>9. Queued'
    <2> SUFFICES ASSUME NEW i \in 1..Len(queue')
                 PROVE  queue'[i] \in Honoured \cap seen' /\ verdict[queue'[i]] = Unset
                        /\ SequenceOf[queue'[i]] = Place(i)'
      BY DEF Queued
    <2>1. CASE i \in 1..Len(queue)
      BY <1>3, <1>4, <1>5, <2>1 DEF LedgerInv, Queued
    <2>2. CASE i = Len(queue) + 1
      BY <1>1, <1>3, <1>4, <1>6, <1>7, <2>2 DEF Place
    <2> QED BY <1>8, <2>1, <2>2
  <1> QED BY <1>1, <1>3, <1>4, <1>7, <1>8, <1>9

\* The head that is taken is in its place, and the others stay in theirs.
LEMMA TakenInPlace ==
  ASSUME TypeOK, LedgerInv, queue # <<>>
  PROVE  /\ Head(queue) = queue[1] /\ 1 \in 1..Len(queue)
         /\ Head(queue) \in Honoured \cap seen /\ verdict[Head(queue)] = Unset
         /\ SequenceOf[Head(queue)] = nextSequence - Len(queue)
         /\ Len(Tail(queue)) = Len(queue) - 1
         /\ \A i \in 1..Len(Tail(queue)) :
              /\ Tail(queue)[i] = queue[i + 1] /\ i + 1 \in 1..Len(queue)
              /\ Tail(queue)[i] # Head(queue)
  <1>1. queue \in Seq(Primitives) /\ nextSequence \in Nat
    BY DEF TypeOK, GateTypes
  <1>2. Head(queue) = queue[1] /\ 1 \in 1..Len(queue) /\ Len(Tail(queue)) = Len(queue) - 1
    BY <1>1
  <1>3. \A i \in 1..Len(Tail(queue)) : Tail(queue)[i] = queue[i + 1] /\ i + 1 \in 1..Len(queue)
    BY <1>1
  <1>4. SequenceOf[queue[1]] = nextSequence - Len(queue)
    BY <1>1, <1>2 DEF LedgerInv, Queued, Place
  <1>5. \A i \in 1..Len(queue) : SequenceOf[queue[i]] = nextSequence - Len(queue) + i - 1
    BY DEF LedgerInv, Queued, Place
  <1>6. \A i \in 1..Len(Tail(queue)) : Tail(queue)[i] # Head(queue)
    BY <1>1, <1>2, <1>3, <1>4, <1>5
  <1> QED BY <1>2, <1>3, <1>4, <1>6 DEF LedgerInv, Queued

LEMMA LedgerStep == TypeOK /\ FlightInv /\ LedgerInv /\ [Next]_vars => LedgerInv'
  <1> SUFFICES ASSUME TypeOK, FlightInv, LedgerInv, [Next]_vars PROVE LedgerInv'
    OBVIOUS
  <1>0. /\ cpc \in [Callers -> CallerPcs] /\ cprim \in [Callers -> Primitives \cup {NoOne}]
        /\ queue \in Seq(Primitives) /\ nextSequence \in Nat
        /\ verdict \in [Primitives -> Failures \cup {"EXECUTED", "OK", Unset}]
        /\ \A c \in Callers : cpc[c] # "idle" => cprim[c] \in Primitives
    BY DEF TypeOK, CallTypes, GateTypes
  <1>1. ASSUME NEW ok \in ReleaseOutcomes, FailClosed(ok) \/ ReleaseAll(ok)
        PROVE  queue' \in {queue, <<>>}
    BY <1>1 DEF FailClosed, ReleaseAll
  <1>2. ASSUME NEW p \in Primitives, Enqueue(p) PROVE LedgerInv'
    <2>1. CASE \E ok \in ReleaseOutcomes : FailClosed(ok) /\ UNCHANGED ledger
      BY <1>1, <1>2, <2>1, QueueCut DEF Enqueue, caller, history
    <2>2. CASE \E t \in Readings : EnqueueGate(p, t) = "OK" /\ Accept(p)
      <3>1. UNCHANGED <<cpc, cprim, verdict>>
        BY <1>2 DEF Enqueue, caller, history
      <3>2. /\ Queued' /\ p \notin seen /\ seen' = seen \cup {p}
            /\ \A i \in 1..Len(queue') : queue'[i] \in {p} \cup {queue[j] : j \in 1..Len(queue)}
        BY <2>2, <3>1, AcceptedInPlace DEF Accept
      <3>3. Unanswered'
        BY <3>1, <3>2 DEF LedgerInv, Unanswered
      <3> QED BY <3>2, <3>3 DEF LedgerInv
    <2> QED
      BY <1>2, <2>1, <2>2 DEF Enqueue
  <1>3. ASSUME NEW c \in Callers, NEW p \in Primitives, Execute(c, p) PROVE LedgerInv'
    <2>1. CASE \E ok \in ReleaseOutcomes : FailClosed(ok) /\ UNCHANGED <<ledger, caller>>
      BY <1>1, <1>3, <2>1, QueueCut DEF Execute, caller, history
    <2>2. CASE /\ \E t \in Readings : EnqueueGate(p, t) = "OK" /\ Accept(p)
               /\ cpc' = [cpc EXCEPT ![c] = "expected"] /\ cprim' = [cprim EXCEPT ![c] = p]
      <3>1. execLock = NoOne /\ UNCHANGED verdict
        BY <1>3 DEF Execute, history
      <3>2. /\ Queued' /\ p \in seen' /\ seen' = seen \cup {p} /\ verdict[p] = Unset
        BY <2>2, <3>1, AcceptedInPlace DEF Accept
      <3>3. \A d \in Callers : d # c => cpc[d] = "idle"
        BY <3>1, NobodyWaits
      <3>4. Unanswered'
        BY <1>0, <2>2, <3>1, <3>2, <3>3 DEF LedgerInv, Unanswered
      <3> QED BY <3>2, <3>4 DEF LedgerInv
    <2> QED
      BY <1>3, <2>1, <2>2 DEF Execute
  <1>4. ASSUME NEW c \in Callers, RunHead(c, Head(queue)), execLock \in {c, NoOne}, queue # <<>>
        PROVE  LedgerInv'
    <2> DEFINE p == Head(queue)
    <2>0. p \in seen /\ p \in Primitives
      BY <1>0, <1>4, TakenInPlace, GatewayAssumption DEF GatewayAssumption
    <2>1. CASE \E f : Refuse(c, p, f)
      <3>1. /\ \E ok \in ReleaseOutcomes : FailClosed(ok)
            /\ \E v : verdict' = [verdict EXCEPT ![p] = v]
            /\ Finish(c)
        BY <2>1 DEF Refuse
      <3>2. queue' = <<>> /\ UNCHANGED ledger
        BY <1>4, <3>1 DEF FailClosed, RunHead
      <3> QED
        BY <1>4, <2>0, <3>1, <3>2, CallAnswered
    <2>2. CASE \E t \in Readings : Register(c, p, t)
      <3>1. /\ queue' = Tail(queue) /\ cpc' = [cpc EXCEPT ![c] = "starting"]
            /\ cprim' = [cprim EXCEPT ![c] = p] /\ UNCHANGED <<verdict, nextSequence, seen>>
        BY <1>4, <2>2 DEF Register, RunHead, history, ledger
      <3>2. \A d \in Callers : d # c => cpc[d] = "idle"
        BY <1>4, NobodyWaits
      <3>3. /\ Len(queue') = Len(queue) - 1
            /\ \A i \in 1..Len(queue') : queue'[i] = queue[i + 1] /\ i + 1 \in 1..Len(queue)
                                         /\ queue'[i] # p
        BY <1>4, <3>1, TakenInPlace
      <3>4. \A i \in 1..Len(queue') : Place(i)' = Place(i + 1)
        BY <1>0, <3>1, <3>3 DEF Place
      <3>5. Queued'
        BY <3>1, <3>3, <3>4 DEF LedgerInv, Queued
      <3>6. verdict[p] = Unset
        BY <1>4, TakenInPlace
      <3>7. Unanswered'
        BY <1>0, <2>0, <3>1, <3>2, <3>3, <3>6 DEF LedgerInv, Unanswered
      <3> QED BY <3>5, <3>7 DEF LedgerInv
    <2> QED
      BY <1>4, <2>1, <2>2 DEF RunHead
  <1>5. ASSUME NEW c \in Callers, RunNext(c) \/ RunExpected(c) PROVE LedgerInv'
    BY <1>4, <1>5 DEF RunNext, RunExpected, FlightInv, InsideHoldsLock
  <1>6. ASSUME NEW c \in Callers, NEW l, cpc' = [cpc EXCEPT ![c] = l],
               cpc[c] # "idle", cpc[c] = "expected" => queue = <<>>, l # "expected",
               queue' \in {queue, <<>>}, UNCHANGED <<ledger, cprim, verdict>>
        PROVE  LedgerInv'
    <2>1. Queued'
      BY <1>6 DEF LedgerInv, Queued, Place, ledger
    <2>2. Unanswered'
      BY <1>0, <1>6 DEF LedgerInv, Unanswered, ledger
    <2> QED BY <2>1, <2>2 DEF LedgerInv
  <1>7. ASSUME NEW c \in Callers,
               QueueCleared(c) \/ ClearedStatus(c) \/ StartWorker(c) \/ StartRaises(c)
               \/ StartResolved(c) \/ WatchdogFires(c) \/ Completion(c) \/ Fail(c)
               \/ ReleaseAfterApply(c)
        PROVE  LedgerInv'
    <2>1. \E l : l # "expected" /\ cpc' = [cpc EXCEPT ![c] = l]
      BY <1>7, Zenon DEF QueueCleared, ClearedStatus, StartWorker, StartRaises, StartResolved,
                  WatchdogFires, Completion, Abandon, Fail, ReleaseAfterApply
    <2>2. cpc[c] # "idle" /\ (cpc[c] = "expected" => queue = <<>>)
      BY <1>7 DEF QueueCleared, ClearedStatus, StartWorker, StartRaises, StartResolved,
                  WatchdogFires, Completion, Fail, ReleaseAfterApply
    <2>3. UNCHANGED <<ledger, cprim, verdict>>
      BY <1>7 DEF QueueCleared, ClearedStatus, StartWorker, StartRaises, StartResolved,
                  WatchdogFires, Completion, Fail, ReleaseAfterApply, OnlyCaller, history
    <2>4. queue' \in {queue, <<>>}
      <3>1. CASE ReleaseAfterApply(c)
        BY <1>1, <3>1 DEF ReleaseAfterApply
      <3>2. CASE ~ReleaseAfterApply(c)
        BY <1>7, <3>2 DEF QueueCleared, ClearedStatus, StartWorker, StartRaises, StartResolved,
                  WatchdogFires, Completion, Fail, FailLocked, OnlyCaller, gate
      <3> QED BY <3>1, <3>2
    <2> QED
      BY <1>6, <2>1, <2>2, <2>3, <2>4
  <1>8. ASSUME NEW c \in Callers, FailRelease(c) \/ Commit(c) PROVE LedgerInv'
    <2>1. /\ cpc[c] \notin {"idle", "expected"} /\ Finish(c) /\ UNCHANGED ledger
          /\ \E v : verdict' = [verdict EXCEPT ![cprim[c]] = v]
      BY <1>8 DEF FailRelease, Commit
    <2>2. queue' \in {queue, <<>>}
      BY <1>1, <1>8 DEF FailRelease, Commit, gate
    <2>3. /\ execLock = c /\ cprim[c] \in Primitives /\ cprim[c] \in seen
          /\ \A i \in 1..Len(queue) : queue[i] # cprim[c]
      BY <1>0, <2>1 DEF FlightInv, InsideHoldsLock, LedgerInv, Unanswered
    <2> QED
      BY <2>1, <2>2, <2>3, CallAnswered
  <1>9. ASSUME NEW p \in Primitives, WorkerStep(p) PROVE LedgerInv'
    <2>1. UNCHANGED <<ledger, cpc, cprim, verdict>>
      BY <1>9 DEF WorkerStep, WorkerGate, SinkEnter, SinkPress, SinkExit, FinalRelease,
                  Deregister, OnlyWorker, caller
    <2>2. UNCHANGED gate \/ \E ok \in ReleaseOutcomes : ReleaseAll(ok)
      BY <1>9, Zenon DEF WorkerStep, WorkerGate, SinkEnter, SinkPress, SinkExit, FinalRelease,
                  Deregister
    <2> QED
      BY <1>1, <2>1, <2>2, QueueCut DEF gate
  <1>10. CASE Takeover \/ Close \/ Disarm \/ Revoked
    <2>1. UNCHANGED <<ledger, cpc, cprim, verdict>>
      BY <1>10 DEF Takeover, Close, Disarm, Revoked, OnlyStop, caller, history
    <2>2. queue' \in {queue, <<>>}
      BY <1>10 DEF Takeover, Close, Disarm, Revoked, gate
    <2> QED
      BY <2>1, <2>2, QueueCut
  <1>11. ASSUME NEW s \in Stops, StopRelease(s) PROVE LedgerInv'
    BY <1>1, <1>11, QueueCut DEF StopRelease, OnlyStop, caller, history
  <1>12. CASE Tick \/ UNCHANGED vars
    BY <1>12, QueueCut DEF Tick, vars, gate, caller, history
  <1> QED
    BY <1>2, <1>3, <1>5, <1>7, <1>8, <1>9, <1>10, <1>11, <1>12 DEF Next, CallerStep

LEMMA LedgerHolds == Spec => [](TypeOK /\ FlightInv /\ LedgerInv)
  <1>1. Init => LedgerInv
    BY DEF Init, LedgerInv, Queued, Unanswered
  <1> QED
    BY <1>1, InitType, TypeStep, FlightInit, FlightStep, LedgerStep, PTL DEF Spec

\* Whoever answers late, a published status never changes.
THEOREM AnswersOnce == Spec => AnsweredOnce
  <1>1. TypeOK /\ FlightInv /\ LedgerInv /\ [Next]_vars =>
          [\A p \in Primitives : verdict[p] # Unset => verdict'[p] = verdict[p]]_vars
    <2> SUFFICES ASSUME TypeOK, LedgerInv, Next, NEW p \in Primitives, verdict[p] # Unset
                 PROVE  verdict'[p] = verdict[p]
      OBVIOUS
    <2>1. ASSUME NEW q \in Primitives, NEW v, verdict[q] = Unset, verdict' = [verdict EXCEPT ![q] = v]
          PROVE  verdict'[p] = verdict[p]
      BY <2>1 DEF TypeOK, CallTypes
    <2>2. ASSUME NEW c \in Callers, FailRelease(c) \/ Commit(c) PROVE verdict'[p] = verdict[p]
      <3>1. cpc[c] # "idle" /\ \E v : verdict' = [verdict EXCEPT ![cprim[c]] = v]
        BY <2>2 DEF FailRelease, Commit
      <3>2. cprim[c] \in Primitives /\ verdict[cprim[c]] = Unset
        BY <3>1 DEF LedgerInv, Unanswered, TypeOK, CallTypes
      <3> QED BY <2>1, <3>1, <3>2
    <2>3. ASSUME NEW c \in Callers, queue # <<>>, RunHead(c, Head(queue)) PROVE verdict'[p] = verdict[p]
      <3>1. Head(queue) \in Primitives /\ verdict[Head(queue)] = Unset
        BY <2>3, TakenInPlace, GatewayAssumption DEF GatewayAssumption
      <3>2. UNCHANGED verdict \/ \E v : verdict' = [verdict EXCEPT ![Head(queue)] = v]
        BY <2>3, Zenon DEF RunHead, Refuse, Register, history
      <3> QED BY <2>1, <3>1, <3>2
    <2>4. ASSUME NEW c \in Callers, RunNext(c) \/ RunExpected(c) PROVE verdict'[p] = verdict[p]
      BY <2>3, <2>4 DEF RunNext, RunExpected
    <2>5. ASSUME NEW c \in Callers, CallerStep(c), ~RunExpected(c), ~FailRelease(c), ~Commit(c)
          PROVE  UNCHANGED verdict
      BY <2>5 DEF CallerStep, QueueCleared, ClearedStatus, StartWorker, StartRaises, StartResolved,
                  WatchdogFires, Completion, Fail, ReleaseAfterApply, OnlyCaller, history
    <2>6. ASSUME NEW q \in Primitives, WorkerStep(q) \/ Enqueue(q) \/ \E c \in Callers : Execute(c, q)
          PROVE  UNCHANGED verdict
      BY <2>6 DEF WorkerStep, WorkerGate, SinkEnter, SinkPress, SinkExit, FinalRelease,
                  Deregister, OnlyWorker, Enqueue, Execute, history
    <2>7. ASSUME Takeover \/ Close \/ Disarm \/ Revoked \/ Tick \/ \E s \in Stops : StopRelease(s)
          PROVE  UNCHANGED verdict
      BY <2>7 DEF Takeover, Close, Disarm, Revoked, Tick, StopRelease, OnlyStop, history
    <2> QED
      BY <2>2, <2>4, <2>5, <2>6, <2>7 DEF Next
  <1> QED BY <1>1, LedgerHolds, PTL DEF Spec, AnsweredOnce

-----------------------------------------------------------------------------
(* Order. What was taken from the queue and not yet applied is the primitive *)
(* in flight, if any: a READY gateway never takes the next one before, for   *)
(* a call that ends without its apply leaves READY before it lets go of the  *)
(* execution lock.                                                           *)

\* How many primitives were taken and have not reached the sink.
Due == nextSequence - Len(queue) - FirstSequence - Len(applied)

Counted ==
  /\ IsFiniteSet(seen) /\ Cardinality(seen) <= MaxPrimitives
  /\ nextSequence = FirstSequence + Cardinality(seen)

NextInLine(p) ==
  p \in Honoured /\ SequenceOf[p] = FirstSequence + Len(applied) /\ SequenceOf[p] < nextSequence

Coming ==
  /\ \A c \in Callers : cpc[c] = "starting" => NextInLine(cprim[c])
  /\ \A p \in Primitives : wpc[p] \in {"gate", "enter"} => NextInLine(p)

Attended ==
  gstate = READY =>
    \A p \in Primitives : wpc[p] \in WorkerLive =>
      \E c \in Callers : cprim[c] = p /\ cpc[c] \in Waiting \cup {"failing"}

FailedIsOut == \A c \in Callers : cpc[c] = "failRelease" => gstate # READY

DueIsRight(c) ==
  /\ cpc[c] \in {"expected", "release", "commit"} => Due = 0
  /\ cpc[c] = "starting" => Due = 1
  /\ cpc[c] \in Waiting =>
       /\ wpc[cprim[c]] \in {"gate", "enter"} => Due = 1
       /\ wpc[cprim[c]] \in {"apply", "held"} => Due = 0
       /\ wpc[cprim[c]] \in {"leaving", "dereg", "done"} /\ outcome[cprim[c]] = "COMPLETED" => Due = 0

Settled ==
  gstate = READY =>
    /\ execLock = NoOne => Due = 0
    /\ \A c \in Callers : DueIsRight(c)

Pace == Coming /\ Attended /\ FailedIsOut /\ Settled

OrderInv == Counted /\ Pace /\ InOrderOnce

LEMMA CountedStep == TypeOK /\ Counted /\ [Next]_vars => Counted'
  <1> SUFFICES ASSUME TypeOK, Counted, [Next]_vars PROVE Counted'
    OBVIOUS
  <1>1. ASSUME UNCHANGED ledger PROVE Counted'
    BY <1>1 DEF ledger, Counted
  <1>2. ASSUME NEW p, NEW t \in Readings, EnqueueGate(p, t) = "OK", Accept(p) PROVE Counted'
    <2>1. p \notin seen /\ Cardinality(seen) < MaxPrimitives
      BY <1>2, GatesShut DEF EnqueueGate, SessionGate
    <2>2. Cardinality(seen \cup {p}) = Cardinality(seen) + 1 /\ IsFiniteSet(seen \cup {p})
      BY <2>1, FS_AddElement DEF Counted
    <2>3. Cardinality(seen) \in Nat
      BY FS_CardinalityType DEF Counted
    <2> QED
      BY <1>2, <2>1, <2>2, <2>3, GatewayAssumption DEF Accept, Counted, GatewayAssumption
  <1>3. ASSUME NEW p, Enqueue(p) \/ \E c \in Callers : Execute(c, p) PROVE Counted'
    BY <1>1, <1>2, <1>3, Zenon DEF Enqueue, Execute
  <1>4. ASSUME NEW c, RunNext(c) \/ CallerStep(c) PROVE UNCHANGED ledger
    BY <1>4 DEF RunNext, CallerStep, RunExpected, RunHead, QueueCleared, ClearedStatus, StartWorker,
                StartRaises, StartResolved, WatchdogFires, Completion, Fail, FailRelease,
                ReleaseAfterApply, Commit, OnlyCaller
  <1>5. ASSUME NEW p, WorkerStep(p) PROVE UNCHANGED ledger
    BY <1>5 DEF WorkerStep, WorkerGate, SinkEnter, SinkPress, SinkExit, FinalRelease, Deregister,
                OnlyWorker
  <1>6. CASE Takeover \/ Close \/ Disarm \/ Revoked \/ Tick \/ (\E s \in Stops : StopRelease(s))
             \/ UNCHANGED vars
    BY <1>1, <1>6 DEF Takeover, Close, Disarm, Revoked, Tick, StopRelease, OnlyStop, vars
  <1> QED
    BY <1>1, <1>3, <1>4, <1>5, <1>6 DEF Next

\* A step that moves no worker and no call, and accepts nothing.
LEMMA PaceKept ==
  ASSUME Pace, QueueKept, UNCHANGED <<ledger, wpc, outcome, applied, cpc, cprim, execLock>>
  PROVE  Pace'
  BY DEF Pace, QueueKept, Coming, NextInLine, Attended, FailedIsOut, Settled, DueIsRight, Due, ledger

\* A caller moves on, and no worker does.
LEMMA PaceCaller ==
  ASSUME TypeOK, FlightInv, Pace, NEW c \in Callers, cpc[c] # "idle", NEW l,
         cpc' = [cpc EXCEPT ![c] = l],
         UNCHANGED <<ledger, wpc, outcome, applied, cprim, execLock>>, QueueKept,
         l # "starting",
         gstate' = READY =>
           /\ l # "failRelease"
           /\ wpc[cprim[c]] \in WorkerLive /\ cpc[c] \in Waiting \cup {"failing"}
                => l \in Waiting \cup {"failing"}
           /\ l \in {"expected", "release", "commit"} => Due = 0
           /\ l \in Waiting => cpc[c] \in Waiting
  PROVE  Pace'
  <1>1. execLock = c /\ \A d \in Callers : d # c => cpc[d] = "idle"
    BY NobodyWaits DEF FlightInv, InsideHoldsLock
  <1>2. cpc \in [Callers -> CallerPcs]
    BY DEF TypeOK, CallTypes
  <1>3. cpc'[c] = l /\ \A d \in Callers : d # c => cpc'[d] = "idle"
    BY <1>1, <1>2
  <1>4. gstate' = READY => gstate = READY /\ Due' = Due
    BY DEF QueueKept, Due, ledger
  <1>5. Coming'
    BY <1>3 DEF Pace, Coming, NextInLine, ledger
  <1>6. Attended'
    BY <1>1, <1>3, <1>4 DEF Pace, Attended, Waiting
  <1>7. FailedIsOut'
    BY <1>3 DEF FailedIsOut
  <1>8. Settled'
    BY <1>1, <1>3, <1>4, GatewayAssumption
    DEF GatewayAssumption, Pace, Settled, DueIsRight, Waiting
  <1> QED BY <1>5, <1>6, <1>7, <1>8 DEF Pace

\* A call ends out of READY, or settled.
LEMMA PaceEnds ==
  ASSUME TypeOK, FlightInv, Pace, NEW c \in Callers, execLock \in {c, NoOne}, Finish(c),
         UNCHANGED <<ledger, wpc, outcome, applied>>, QueueKept,
         cpc[c] \notin Waiting \cup {"failing"},
         gstate' = READY => Due = 0
  PROVE  Pace'
  <1>1. \A d \in Callers : d # c => cpc[d] = "idle"
    BY NobodyWaits
  <1>2. \A d \in Callers : cpc'[d] = "idle"
    BY <1>1 DEF Finish, TypeOK, CallTypes
  <1>3. gstate' = READY => gstate = READY /\ Due' = Due
    BY DEF QueueKept, Due, ledger
  <1>4. Coming'
    BY <1>2 DEF Pace, Coming, NextInLine, ledger
  <1>5. Attended'
    BY <1>1, <1>2, <1>3 DEF Pace, Attended, Waiting
  <1> QED
    BY <1>2, <1>3, <1>4, <1>5 DEF Pace, FailedIsOut, Settled, DueIsRight, Waiting

LEMMA PaceAccepts ==
  ASSUME TypeOK, Pace, NEW p \in Primitives, Accept(p), gstate = READY,
         UNCHANGED <<gstate, wpc, outcome, applied>>
  PROVE  /\ Due' = Due
         /\ Attended /\ UNCHANGED <<cpc, cprim>> => Attended'
         /\ \A q : NextInLine(q) => NextInLine(q)'
  <1>1. queue \in Seq(Primitives) /\ nextSequence \in Nat
    BY DEF TypeOK, GateTypes
  <1>2. Len(queue') = Len(queue) + 1 /\ nextSequence' = nextSequence + 1
    BY <1>1 DEF Accept
  <1>3. applied \in Seq(Primitives) /\ FirstSequence \in Nat /\ SequenceOf \in [Primitives -> Nat]
        /\ Honoured \subseteq Primitives
    BY GatewayAssumption DEF TypeOK, WorkerTypes, GatewayAssumption
  <1>4. Due' = Due
    BY <1>1, <1>2, <1>3 DEF Due
  <1>5. \A q : NextInLine(q) => NextInLine(q)'
    BY <1>1, <1>2, <1>3 DEF NextInLine
  <1> QED BY <1>4, <1>5 DEF Attended

LEMMA PaceEnqueue ==
  ASSUME TypeOK, Pace, NEW p \in Primitives, Enqueue(p)
  PROVE  Pace'
  <1>1. CASE \E ok \in ReleaseOutcomes : FailClosed(ok) /\ UNCHANGED ledger
    BY <1>1, FailClosedKeepsQueue, ReleaseOutcomesAreFlags, PaceKept DEF Enqueue, caller, worker, history
  <1>2. CASE Accept(p) /\ gstate = READY /\ UNCHANGED gstate
    <2>1. UNCHANGED <<wpc, outcome, applied, cpc, cprim, execLock>>
      BY DEF Enqueue, worker, history, caller
    <2>2. Due' = Due /\ Attended' /\ \A q : NextInLine(q) => NextInLine(q)'
      BY <1>2, <2>1, PaceAccepts DEF Pace
    <2> QED
      BY <1>2, <2>1, <2>2 DEF Pace, Coming, FailedIsOut, Settled, DueIsRight
  <1> QED
    BY <1>1, <1>2, OpenGateIsReady DEF Enqueue

LEMMA PaceExecute ==
  ASSUME TypeOK, FlightInv, Pace, NEW c \in Callers, NEW p \in Primitives, Execute(c, p)
  PROVE  Pace'
  <1>1. CASE \E ok \in ReleaseOutcomes : FailClosed(ok) /\ UNCHANGED <<ledger, caller>>
    BY <1>1, FailClosedKeepsQueue, ReleaseOutcomesAreFlags, PaceKept DEF Execute, caller, worker, history
  <1>2. CASE /\ Accept(p) /\ gstate = READY /\ UNCHANGED gstate /\ execLock' = c
             /\ cpc' = [cpc EXCEPT ![c] = "expected"] /\ cprim' = [cprim EXCEPT ![c] = p]
    <2>1. execLock = NoOne /\ UNCHANGED <<wpc, outcome, applied>>
      BY DEF Execute, worker, history
    <2>2. \A d \in Callers : cpc[d] = "idle"
      BY <2>1, NobodyWaits DEF Execute
    <2>3. Due' = Due /\ \A q : NextInLine(q) => NextInLine(q)'
      BY <1>2, <2>1, PaceAccepts
    <2>4. Due = 0
      BY <1>2, <2>1 DEF Pace, Settled
    <2>5. cpc'[c] = "expected" /\ \A d \in Callers : d # c => cpc'[d] = "idle"
      BY <1>2, <2>2 DEF TypeOK, CallTypes
    <2>6. \A q \in Primitives : wpc[q] \notin WorkerLive
      BY <1>2, <2>2 DEF Pace, Attended, Waiting
    <2>7. Coming' /\ Attended' /\ FailedIsOut'
      BY <2>1, <2>3, <2>5, <2>6 DEF Pace, Coming, Attended, FailedIsOut, WorkerLive
    <2>8. Settled'
      BY <1>2, <2>3, <2>4, <2>5, GatewayAssumption
      DEF GatewayAssumption, Settled, DueIsRight, Waiting
    <2> QED BY <2>7, <2>8 DEF Pace
  <1> QED
    BY <1>1, <1>2, OpenGateIsReady DEF Execute

AtHead(p) == queue # <<>> /\ p = Head(queue)

LEMMA PaceRuns ==
  ASSUME TypeOK, FlightInv, LedgerInv, Pace, NEW c \in Callers,
         NEW p, AtHead(p), RunHead(c, p),
         \/ execLock = NoOne /\ cpc[c] = "idle"
         \/ execLock = c /\ cpc[c] = "expected"
  PROVE  Pace'
  <1>1. \A d \in Callers : d # c => cpc[d] = "idle"
    BY NobodyWaits
  <1>2. CASE \E f : Refuse(c, p, f)
    <2>1. /\ gstate' # READY /\ queue' = <<>>
          /\ Finish(c) /\ UNCHANGED <<ledger, wpc, outcome, applied>>
      <3>1. PICK f : Refuse(c, p, f)
        BY <1>2
      <3>2. gstate' # READY /\ queue' = <<>>
        BY <3>1, RefuseLeaves
      <3>3. Finish(c) /\ UNCHANGED <<worker, applied>>
        BY <3>1 DEF Refuse
      <3>4. UNCHANGED ledger
        BY DEF RunHead
      <3> QED BY <3>2, <3>3, <3>4 DEF worker
    <2>2. QueueKept
      BY <2>1 DEF QueueKept
    <2>3. cpc[c] \notin Waiting \cup {"failing"}
      BY DEF Waiting
    <2> QED BY <2>1, <2>2, <2>3, PaceEnds
  <1>3. CASE \E t \in Readings, poseOk \in BOOLEAN :
               RunGate(p, t, poseOk) = "OK" /\ Register(c, p, t)
    <2>1. gstate = READY /\ active = NoOne
      BY <1>3, GatesShut DEF RunGate
    <2>2. /\ queue' = Tail(queue) /\ cpc' = [cpc EXCEPT ![c] = "starting"]
          /\ cprim' = [cprim EXCEPT ![c] = p] /\ execLock' = c
          /\ UNCHANGED <<ledger, gstate, wpc, outcome, applied>>
      BY <1>3 DEF Register, RunHead, history
    <2>3. \A q \in Primitives : wpc[q] \notin WorkerLive
      BY <2>1, GatewayAssumption DEF GatewayAssumption, FlightInv, LiveIsActive
    <2>4. Due = 0
      BY <2>1 DEF Pace, Settled, DueIsRight
    <2>5. /\ queue \in Seq(Primitives) /\ nextSequence \in Nat /\ applied \in Seq(Primitives)
          /\ FirstSequence \in Nat
      BY GatewayAssumption DEF GatewayAssumption, TypeOK, GateTypes, WorkerTypes
    <2>6. /\ p \in Honoured /\ SequenceOf[p] = nextSequence - Len(queue)
          /\ Len(queue') = Len(queue) - 1 /\ 1 \in 1..Len(queue)
      BY <2>2, TakenInPlace DEF AtHead
    <2>7. Due' = 1 /\ NextInLine(p)'
      <3>1. nextSequence' = nextSequence /\ applied' = applied /\ Len(queue) \in Nat /\ Len(applied) \in Nat
        BY <2>2, <2>5 DEF ledger
      <3>2. nextSequence - Len(queue) = FirstSequence + Len(applied)
        BY <2>4, <2>5, <3>1 DEF Due
      <3>3. Len(queue) >= 1
        BY <2>6, <3>1
      <3> QED BY <2>5, <2>6, <3>1, <3>2, <3>3 DEF Due, NextInLine
    <2>8. cpc'[c] = "starting" /\ cprim'[c] = p /\ \A d \in Callers : d # c => cpc'[d] = "idle"
      BY <1>1, <2>2 DEF TypeOK, CallTypes
    <2>9. Coming' /\ Attended' /\ FailedIsOut'
      BY <2>2, <2>3, <2>7, <2>8 DEF Coming, Attended, FailedIsOut, WorkerLive
    <2>10. Settled'
      BY <2>2, <2>7, <2>8, GatewayAssumption DEF GatewayAssumption, Settled, DueIsRight, Waiting
    <2> QED BY <2>9, <2>10 DEF Pace
  <1> QED BY <1>2, <1>3 DEF RunHead

LEMMA PaceStarts ==
  ASSUME TypeOK, FlightInv, Pace, NEW c \in Callers, StartWorker(c)
  PROVE  Pace'
  <1>1. /\ cpc[c] = "starting" /\ cpc' = [cpc EXCEPT ![c] = "waitStart"]
        /\ wpc' = [wpc EXCEPT ![cprim[c]] = "gate"]
        /\ UNCHANGED <<gate, ledger, outcome, applied, cprim, execLock>>
    BY DEF StartWorker, OnlyCaller, history
  <1>2. cprim[c] \in Primitives /\ execLock = c /\ \A d \in Callers : d # c => cpc[d] = "idle"
    BY <1>1, NobodyWaits DEF FlightInv, InsideHoldsLock, TypeOK, CallTypes
  <1>3. \A q \in Primitives : wpc[q] \notin WorkerLive
    BY <1>1 DEF FlightInv, LiveIsActive, StartingIsActive
  <1>4. NextInLine(cprim[c])
    BY <1>1 DEF Pace, Coming
  <1>5. /\ cpc'[c] = "waitStart" /\ \A d \in Callers : d # c => cpc'[d] = "idle"
        /\ wpc'[cprim[c]] = "gate" /\ \A q \in Primitives : q # cprim[c] => wpc'[q] = wpc[q]
    BY <1>1, <1>2 DEF TypeOK, CallTypes, WorkerTypes
  <1>6. Due' = Due /\ \A q : NextInLine(q)' <=> NextInLine(q)
    BY <1>1 DEF Due, NextInLine, gate, ledger
  <1>7. Coming' /\ Attended' /\ FailedIsOut'
    BY <1>1, <1>3, <1>4, <1>5, <1>6 DEF Coming, Attended, FailedIsOut, WorkerLive, Waiting
  <1>8. Settled'
    BY <1>1, <1>2, <1>5, <1>6, GatewayAssumption
    DEF GatewayAssumption, Pace, Settled, DueIsRight, Waiting, gate
  <1> QED BY <1>7, <1>8 DEF Pace

LEMMA PaceCalls ==
  ASSUME TypeOK, FlightInv, Pace, NEW c \in Callers,
         QueueCleared(c) \/ ClearedStatus(c) \/ StartRaises(c) \/ StartResolved(c)
         \/ WatchdogFires(c) \/ Completion(c) \/ Fail(c) \/ ReleaseAfterApply(c)
  PROVE  Pace'
  <1> DEFINE Rest == UNCHANGED <<ledger, wpc, outcome, applied, cprim, execLock>>
  <1>0. cprim[c] \in Primitives \/ cpc[c] = "idle"
    BY DEF TypeOK, CallTypes
  <1>1. CASE QueueCleared(c) \/ ClearedStatus(c)
    <2>1. /\ cpc[c] \in {"expected", "cleared"} /\ Rest /\ UNCHANGED gate
          /\ \E l \in {"cleared", "failing"} : cpc' = [cpc EXCEPT ![c] = l]
      BY <1>1, Zenon DEF QueueCleared, ClearedStatus, worker, history
    <2>2. QueueKept
      BY <2>1 DEF gate, QueueKept
    <2> QED BY <2>1, <2>2, PaceCaller DEF Waiting
  <1>2. CASE StartRaises(c) \/ WatchdogFires(c)
    <2>1. /\ cpc[c] \in {"starting"} \cup Waiting /\ Rest /\ UNCHANGED gate
          /\ cpc' = [cpc EXCEPT ![c] = "failing"]
      BY <1>2 DEF StartRaises, WatchdogFires, Abandon, OnlyCaller, history, Waiting
    <2>2. QueueKept
      BY <2>1 DEF gate, QueueKept
    <2> QED BY <2>1, <2>2, PaceCaller DEF Waiting
  <1>3. CASE StartResolved(c)
    <2>1. /\ cpc[c] = "waitStart" /\ Rest /\ UNCHANGED gate
          /\ \E l \in {"waitApply", "waitRejected"} : cpc' = [cpc EXCEPT ![c] = l]
      BY <1>3, Zenon DEF StartResolved, OnlyCaller, history, worker
    <2>2. QueueKept
      BY <2>1 DEF gate, QueueKept
    <2> QED BY <2>1, <2>2, PaceCaller DEF Waiting
  <1>4. CASE Completion(c)
    <2>1. /\ cpc[c] \in Waiting /\ wpc[cprim[c]] = "done" /\ Rest /\ UNCHANGED gate
          /\ \/ outcome[cprim[c]] = "COMPLETED" /\ cpc' = [cpc EXCEPT ![c] = "release"]
             \/ cpc' = [cpc EXCEPT ![c] = "failing"]
      BY <1>4 DEF Completion, OnlyCaller, history, worker, Waiting
    <2>2. QueueKept
      BY <2>1 DEF gate, QueueKept
    <2>3. gstate' = READY /\ outcome[cprim[c]] = "COMPLETED" => Due = 0
      BY <2>1 DEF gate, Pace, Settled, DueIsRight
    <2>4. wpc[cprim[c]] \notin WorkerLive
      BY <2>1 DEF WorkerLive
    <2>5. CASE outcome[cprim[c]] = "COMPLETED" /\ cpc' = [cpc EXCEPT ![c] = "release"]
      BY <2>1, <2>2, <2>3, <2>4, <2>5, PaceCaller DEF Waiting
    <2>6. CASE cpc' = [cpc EXCEPT ![c] = "failing"]
      BY <2>1, <2>2, <2>4, <2>6, PaceCaller DEF Waiting
    <2> QED BY <2>1, <2>5, <2>6
  <1>5. CASE Fail(c)
    <2>1. /\ cpc[c] = "failing" /\ Rest /\ gstate' # READY /\ queue' = <<>>
          /\ cpc' = [cpc EXCEPT ![c] = "failRelease"]
      BY <1>5, FailureStates DEF Fail, FailLocked, worker, history, TypeOK, GateTypes
    <2>2. QueueKept
      BY <2>1 DEF QueueKept
    <2> QED BY <2>1, <2>2, PaceCaller DEF Waiting
  <1>6. CASE ReleaseAfterApply(c)
    <2>1. /\ cpc[c] = "release" /\ Rest /\ cpc' = [cpc EXCEPT ![c] = "commit"]
          /\ QueueKept
      BY <1>6, ReleaseKeepsQueue, ReleaseOutcomesAreFlags DEF ReleaseAfterApply, worker, history
    <2>2. gstate' = READY => Due = 0
      BY <2>1 DEF QueueKept, Pace, Settled, DueIsRight
    <2> QED BY <2>1, <2>2, PaceCaller DEF Waiting
  <1> QED BY <1>1, <1>2, <1>3, <1>4, <1>5, <1>6

LEMMA PaceAnswers ==
  ASSUME TypeOK, FlightInv, Pace, NEW c \in Callers, FailRelease(c) \/ Commit(c)
  PROVE  Pace'
  <1>1. /\ cpc[c] \in {"failRelease", "commit"} /\ Finish(c) /\ execLock = c
        /\ UNCHANGED <<ledger, wpc, outcome, applied>>
    BY DEF FailRelease, Commit, worker, history, FlightInv, InsideHoldsLock
  <1>2. CASE FailRelease(c)
    <2>1. QueueKept
      BY <1>2, ReleaseKeepsQueue, ReleaseOutcomesAreFlags DEF FailRelease
    <2>2. gstate' # READY
      BY <1>2, <2>1 DEF FailRelease, QueueKept, Pace, FailedIsOut
    <2> QED BY <1>1, <2>1, <2>2, PaceEnds DEF Waiting
  <1>3. CASE Commit(c)
    <2>1. UNCHANGED gate \/ (gstate' = FAULTED /\ queue' = <<>>)
      BY <1>3, Zenon DEF Commit
    <2>2. QueueKept
      BY <2>1 DEF gate, QueueKept, READY, FAULTED
    <2>3. gstate' = READY => Due = 0
      BY <1>3, <2>2 DEF Commit, QueueKept, Pace, Settled, DueIsRight
    <2> QED BY <1>1, <2>2, <2>3, PaceEnds DEF Waiting
  <1> QED BY <1>2, <1>3

\* A worker moves on, and applies nothing.
LEMMA PaceWorker ==
  ASSUME TypeOK, FlightInv, Pace, NEW p \in Primitives, NEW l, wpc[p] \in WorkerLive,
         wpc' = [wpc EXCEPT ![p] = l], QueueKept,
         UNCHANGED <<ledger, applied, cpc, cprim, execLock>>,
         \A q \in Primitives : q # p => outcome'[q] = outcome[q],
         l \in {"gate", "enter"} => wpc[p] = "gate",
         l \in {"apply", "held"} => wpc[p] \in {"apply", "held"},
         l \in {"leaving", "dereg", "done"} /\ outcome'[p] = "COMPLETED" =>
           \/ wpc[p] \in {"apply", "held"}
           \/ wpc[p] \in {"leaving", "dereg"} /\ outcome[p] = "COMPLETED"
  PROVE  Pace'
  <1>1. wpc'[p] = l /\ \A q \in Primitives : q # p => wpc'[q] = wpc[q]
    BY DEF TypeOK, WorkerTypes
  <1>2. gstate' = READY => gstate = READY /\ Due' = Due
    BY DEF QueueKept, Due, ledger
  <1>3. \A q : NextInLine(q)' <=> NextInLine(q)
    BY DEF NextInLine, ledger
  <1>4. Coming'
    BY <1>1, <1>3 DEF Pace, Coming
  <1>5. Attended'
    BY <1>1, <1>2 DEF Pace, Attended
  <1>6. FailedIsOut'
    BY <1>2 DEF Pace, FailedIsOut
  <1>7. \A c \in Callers : cpc[c] \in Waiting => cprim[c] \in Primitives
    BY DEF TypeOK, CallTypes, Waiting
  <1>8. ASSUME gstate' = READY, NEW c \in Callers PROVE DueIsRight(c)'
    <2>1. DueIsRight(c) /\ Due' = Due
      BY <1>2, <1>8 DEF Pace, Settled
    <2>2. CASE cprim[c] # p
      BY <1>1, <1>7, <2>1, <2>2 DEF DueIsRight
    <2>3. CASE cprim[c] = p
      BY <1>1, <2>1, <2>3 DEF DueIsRight
    <2> QED BY <2>2, <2>3
  <1>9. Settled'
    BY <1>2, <1>8 DEF Pace, Settled
  <1> QED BY <1>4, <1>5, <1>6, <1>9 DEF Pace

LEMMA PaceEnters ==
  ASSUME TypeOK, FlightInv, Pace, NEW p \in Primitives, SinkEnter(p)
  PROVE  Pace'
  <1>1. /\ wpc[p] = "enter" /\ wpc' = [wpc EXCEPT ![p] = "apply"] /\ applied' = Append(applied, p)
        /\ UNCHANGED <<gate, ledger, outcome, cpc, cprim, execLock>>
    BY DEF SinkEnter, OnlyWorker, caller
  <1>2. active = p
    BY <1>1 DEF FlightInv, LiveIsActive, WorkerLive
  <1>3. /\ wpc'[p] = "apply"
        /\ \A q \in Primitives : q # p => wpc'[q] = wpc[q] /\ wpc[q] \notin WorkerLive
    BY <1>1, <1>2 DEF TypeOK, WorkerTypes, FlightInv, LiveIsActive
  <1>4. \A c \in Callers : cpc[c] # "starting"
    BY <1>1, <1>2 DEF FlightInv, StartingIsActive, WorkerLive
  <1>5. Coming' /\ FailedIsOut'
    BY <1>1, <1>3, <1>4 DEF Pace, Coming, FailedIsOut, WorkerLive, gate
  <1>6. Attended'
    BY <1>1, <1>3 DEF Pace, Attended, gate, WorkerLive
  <1>7. Due' = Due - 1
    BY <1>1, GatewayAssumption
    DEF GatewayAssumption, TypeOK, GateTypes, WorkerTypes, Due, gate, ledger
  <1>8. ASSUME gstate = READY PROVE execLock # NoOne /\ \A c \in Callers : DueIsRight(c)'
    <2>1. PICK c \in Callers : cprim[c] = p /\ cpc[c] \in Waiting \cup {"failing"}
      BY <1>1, <1>8 DEF Pace, Attended, WorkerLive
    <2>2. execLock = c /\ \A d \in Callers : d # c => cpc[d] = "idle"
      BY <2>1, NobodyWaits DEF FlightInv, InsideHoldsLock, Waiting
    <2>3. cpc[c] \in Waiting => Due = 1
      BY <1>1, <1>8, <2>1 DEF Pace, Settled, DueIsRight
    <2>4. DueIsRight(c)'
      BY <1>1, <1>3, <1>7, <2>1, <2>3 DEF DueIsRight, Waiting
    <2>5. \A d \in Callers : d # c => DueIsRight(d)'
      BY <1>1, <2>2 DEF DueIsRight, Waiting
    <2> QED BY <2>2, <2>4, <2>5, GatewayAssumption DEF GatewayAssumption
  <1>9. Settled'
    BY <1>1, <1>8 DEF Settled, gate
  <1> QED BY <1>5, <1>6, <1>9 DEF Pace

LEMMA PaceWorks ==
  ASSUME TypeOK, FlightInv, Pace, NEW p \in Primitives,
         WorkerGate(p) \/ SinkPress(p) \/ SinkExit(p) \/ FinalRelease(p) \/ Deregister(p)
  PROVE  Pace'
  <1>1. UNCHANGED <<ledger, applied, cpc, cprim, execLock>>
    BY DEF WorkerGate, SinkPress, SinkExit, FinalRelease, Deregister, OnlyWorker, caller
  <1>2. QueueKept
    <2>1. UNCHANGED gate \/ \E ok \in ReleaseOutcomes : ReleaseAll(ok)
      BY Zenon DEF WorkerGate, SinkPress, SinkExit, FinalRelease, Deregister
    <2>2. UNCHANGED gate => QueueKept
      BY DEF gate, QueueKept
    <2> QED BY <2>1, <2>2, ReleaseKeepsQueue, ReleaseOutcomesAreFlags
  <1>3. outcome \in [Primitives -> Outcomes \cup {Unset}]
    BY DEF TypeOK, WorkerTypes
  <1>4. CASE WorkerGate(p)
    <2>1. \/ wpc' = [wpc EXCEPT ![p] = "enter"] /\ UNCHANGED outcome
          \/ /\ wpc' = [wpc EXCEPT ![p] = "leaving"]
             /\ outcome' = [outcome EXCEPT ![p] = "START_REJECTED"]
      BY <1>4, Zenon DEF WorkerGate
    <2>2. wpc[p] = "gate"
      BY <1>4 DEF WorkerGate
    <2>3. CASE wpc' = [wpc EXCEPT ![p] = "enter"] /\ UNCHANGED outcome
      BY <1>1, <1>2, <2>2, <2>3, PaceWorker DEF WorkerLive
    <2>4. CASE /\ wpc' = [wpc EXCEPT ![p] = "leaving"]
               /\ outcome' = [outcome EXCEPT ![p] = "START_REJECTED"]
      <3>1. outcome'[p] # "COMPLETED" /\ \A q \in Primitives : q # p => outcome'[q] = outcome[q]
        BY <1>3, <2>4
      <3> QED BY <1>1, <1>2, <2>2, <2>4, <3>1, PaceWorker DEF WorkerLive
    <2> QED BY <2>1, <2>3, <2>4
  <1>5. CASE SinkPress(p)
    <2>1. wpc[p] = "apply" /\ wpc' = [wpc EXCEPT ![p] = "held"] /\ UNCHANGED outcome
      BY <1>5 DEF SinkPress
    <2> QED BY <1>1, <1>2, <2>1, PaceWorker DEF WorkerLive
  <1>6. CASE SinkExit(p)
    <2>1. /\ wpc[p] \in {"apply", "held"} /\ wpc' = [wpc EXCEPT ![p] = "leaving"]
          /\ \E o : outcome' = [outcome EXCEPT ![p] = o]
      BY <1>6, Zenon DEF SinkExit
    <2>2. \A q \in Primitives : q # p => outcome'[q] = outcome[q]
      BY <1>3, <2>1
    <2> QED BY <1>1, <1>2, <2>1, <2>2, PaceWorker DEF WorkerLive
  <1>7. CASE FinalRelease(p) \/ Deregister(p)
    <2>1. /\ wpc[p] \in {"leaving", "dereg"} /\ UNCHANGED outcome
          /\ wpc' = [wpc EXCEPT ![p] = "dereg"] \/ wpc' = [wpc EXCEPT ![p] = "done"]
      BY <1>7 DEF FinalRelease, Deregister
    <2>2. PICK l \in {"dereg", "done"} : wpc' = [wpc EXCEPT ![p] = l]
      BY <2>1
    <2>3. l \notin {"gate", "enter", "apply", "held"} /\ wpc[p] \in WorkerLive
      BY <2>1 DEF WorkerLive
    <2> QED BY <1>1, <1>2, <2>1, <2>2, <2>3, PaceWorker
  <1> QED BY <1>4, <1>5, <1>6, <1>7

LEMMA PaceStep == TypeOK /\ FlightInv /\ LedgerInv /\ Pace /\ [Next]_vars => Pace'
  <1> SUFFICES ASSUME TypeOK, FlightInv, LedgerInv, Pace, [Next]_vars PROVE Pace'
    OBVIOUS
  <1>1. ASSUME NEW p \in Primitives, Enqueue(p) PROVE Pace'
    BY <1>1, PaceEnqueue
  <1>2. ASSUME NEW c \in Callers, NEW p \in Primitives, Execute(c, p) PROVE Pace'
    BY <1>2, PaceExecute
  <1>3. ASSUME NEW c \in Callers, RunNext(c) \/ RunExpected(c) PROVE Pace'
    <2>1. CASE RunNext(c)
      <3>1. PICK p : p = Head(queue)
        OBVIOUS
      <3>2. AtHead(p) /\ RunHead(c, p) /\ execLock = NoOne /\ cpc[c] = "idle"
        BY <2>1, <3>1 DEF RunNext, AtHead
      <3> QED BY <3>2, PaceRuns
    <2>2. CASE RunExpected(c)
      <3>1. cpc[c] = "expected" /\ AtHead(cprim[c]) /\ RunHead(c, cprim[c])
        BY <2>2 DEF RunExpected, AtHead
      <3>2. execLock = c
        BY <3>1 DEF FlightInv, InsideHoldsLock
      <3> QED BY <3>1, <3>2, PaceRuns
    <2> QED BY <1>3, <2>1, <2>2
  <1>4. ASSUME NEW c \in Callers, CallerStep(c), ~RunExpected(c) PROVE Pace'
    BY <1>4, PaceStarts, PaceCalls, PaceAnswers DEF CallerStep
  <1>5. ASSUME NEW p \in Primitives, WorkerStep(p) PROVE Pace'
    BY <1>5, PaceWorks, PaceEnters DEF WorkerStep
  <1>6. CASE Takeover \/ Close \/ Disarm \/ Revoked
    <2>1. UNCHANGED <<ledger, wpc, outcome, applied, cpc, cprim, execLock>>
      BY <1>6 DEF Takeover, Close, Disarm, Revoked, OnlyStop, caller, history
    <2>2. UNCHANGED gate \/ (gstate' \in {Faulted(gstate), MANUAL_TAKEOVER, CLOSED} /\ queue' = <<>>)
      BY <1>6, Zenon DEF Takeover, Close, Disarm, Revoked
    <2>3. Faulted(gstate) # READY /\ MANUAL_TAKEOVER # READY /\ CLOSED # READY
      BY FailureStates DEF TypeOK, GateTypes, READY, MANUAL_TAKEOVER, CLOSED
    <2>4. QueueKept
      BY <2>2, <2>3 DEF gate, QueueKept
    <2> QED BY <2>1, <2>4, PaceKept
  <1>7. ASSUME NEW s \in Stops, StopRelease(s) PROVE Pace'
    BY <1>7, ReleaseKeepsQueue, ReleaseOutcomesAreFlags, PaceKept
    DEF StopRelease, OnlyStop, caller, history
  <1>8. CASE Tick \/ UNCHANGED vars
    <2>1. QueueKept
      BY <1>8 DEF Tick, vars, gate, QueueKept
    <2> QED BY <1>8, <2>1, PaceKept DEF Tick, vars, caller, worker, history
  <1> QED
    BY <1>1, <1>2, <1>3, <1>4, <1>5, <1>6, <1>7, <1>8 DEF Next

LEMMA InOrderStep == TypeOK /\ Counted /\ Pace /\ InOrderOnce /\ [Next]_vars => InOrderOnce'
  <1> SUFFICES ASSUME TypeOK, Counted, Pace, InOrderOnce, [Next]_vars PROVE InOrderOnce'
    OBVIOUS
  <1>1. ASSUME NEW p \in Primitives, SinkEnter(p) PROVE InOrderOnce'
    <2>1. wpc[p] = "enter" /\ applied' = Append(applied, p)
      BY <1>1 DEF SinkEnter
    <2>2. NextInLine(p)
      BY <2>1 DEF Pace, Coming
    <2>3. /\ applied \in Seq(Primitives) /\ FirstSequence \in Nat /\ MaxPrimitives \in Nat
          /\ Cardinality(seen) \in Nat /\ SequenceOf \in [Primitives -> Nat]
      BY FS_CardinalityType, GatewayAssumption
      DEF Counted, TypeOK, WorkerTypes, GatewayAssumption
    <2>4. Len(applied) + 1 <= MaxPrimitives
      BY <2>2, <2>3 DEF NextInLine, Counted
    <2>5. /\ Len(applied') = Len(applied) + 1 /\ applied'[Len(applied) + 1] = p
          /\ \A i \in 1..Len(applied) : applied'[i] = applied[i]
      BY <2>1, <2>3
    <2>6. ASSUME NEW i \in 1..Len(applied')
          PROVE  applied'[i] \in Honoured /\ SequenceOf[applied'[i]] = FirstSequence + i - 1
      <3>1. CASE i \in 1..Len(applied)
        BY <2>5, <3>1 DEF InOrderOnce
      <3>2. CASE i = Len(applied) + 1
        BY <2>2, <2>3, <2>5, <3>2 DEF NextInLine
      <3> QED BY <2>3, <2>5, <3>1, <3>2
    <2> QED BY <2>4, <2>5, <2>6 DEF InOrderOnce
  <1>2. ASSUME UNCHANGED applied PROVE InOrderOnce'
    BY <1>2 DEF InOrderOnce
  <1>3. ASSUME NEW p \in Primitives, WorkerStep(p), ~SinkEnter(p) PROVE UNCHANGED applied
    BY <1>3 DEF WorkerStep, WorkerGate, SinkPress, SinkExit, FinalRelease, Deregister
  <1>4. ASSUME NEW c \in Callers, RunNext(c) \/ CallerStep(c) PROVE UNCHANGED applied
    BY <1>4, Zenon DEF RunNext, CallerStep, RunExpected, RunHead, Register, Refuse, QueueCleared,
                ClearedStatus, StartWorker, StartRaises, StartResolved, WatchdogFires, Completion,
                Fail, FailRelease, ReleaseAfterApply, Commit, OnlyCaller, history
  <1>5. ASSUME NEW p \in Primitives, Enqueue(p) \/ \E c \in Callers : Execute(c, p)
        PROVE  UNCHANGED applied
    BY <1>5 DEF Enqueue, Execute, history
  <1>6. ASSUME Takeover \/ Close \/ Disarm \/ Revoked \/ Tick \/ (\E s \in Stops : StopRelease(s))
               \/ UNCHANGED vars
        PROVE  UNCHANGED applied
    BY <1>6 DEF Takeover, Close, Disarm, Revoked, Tick, StopRelease, OnlyStop, history, vars
  <1> QED
    BY <1>1, <1>2, <1>3, <1>4, <1>5, <1>6 DEF Next, WorkerStep

LEMMA OrderHolds == Spec => []OrderInv
  <1>1. Init => OrderInv
    <2> SUFFICES ASSUME Init PROVE OrderInv
      OBVIOUS
    <2>1. Counted
      BY FS_EmptySet, GatewayAssumption DEF Init, Counted, GatewayAssumption
    <2>2. Pace
      BY GatewayAssumption DEF Init, GatewayAssumption, Pace, Coming, Attended, FailedIsOut,
                               Settled, DueIsRight, Due, WorkerLive, Waiting
    <2>3. InOrderOnce
      BY GatewayAssumption DEF Init, InOrderOnce, GatewayAssumption
    <2> QED BY <2>1, <2>2, <2>3 DEF OrderInv
  <1>2. TypeOK /\ FlightInv /\ LedgerInv /\ OrderInv /\ [Next]_vars => OrderInv'
    BY CountedStep, PaceStep, InOrderStep DEF OrderInv
  <1> QED
    BY <1>1, <1>2, LedgerHolds, PTL DEF Spec

\* The sink gets the primitives of the lease in sequence order, without a gap or
\* a second time, and never more than the lease allows.
THEOREM AppliedInOrder == Spec => []InOrderOnce
  <1>1. OrderInv => InOrderOnce
    BY DEF OrderInv
  <1> QED BY <1>1, OrderHolds, PTL

-----------------------------------------------------------------------------
(* Authority. A call whose envelope was checked against the lease keeps it, *)
(* a call past its apply has a worker that ended well, and what it released *)
(* stays released while the gateway is READY.                               *)

Fit(c) ==
  cpc[c] \in {"starting", "release", "commit"} \cup Waiting => deadline[cprim[c]] <= Horizon

EndedWell(c) ==
  cpc[c] \in {"release", "commit"} => wpc[cprim[c]] = "done" /\ outcome[cprim[c]] = "COMPLETED"

LetGo(c) == cpc[c] = "commit" /\ released[c] /\ gstate = READY => ~keyDown

Entitled == \A c \in Callers : Fit(c) /\ EndedWell(c) /\ LetGo(c)

\* A step that moves no call and no worker, and presses nothing.
LEMMA EntitledKept ==
  ASSUME Entitled, UNCHANGED <<cpc, cprim, released, deadline, wpc, outcome>>,
         keyDown' => keyDown, gstate' = READY => gstate = READY
  PROVE  Entitled'
  BY DEF Entitled, Fit, EndedWell, LetGo

\* The only call inside the gateway moves on.
LEMMA EntitledCall ==
  ASSUME TypeOK, FlightInv, NEW c \in Callers, execLock \in {c, NoOne}, NEW l,
         cpc' = [cpc EXCEPT ![c] = l],
         Fit(c)', EndedWell(c)', LetGo(c)'
  PROVE  Entitled'
  <1>1. \A d \in Callers : d # c => cpc[d] = "idle"
    BY NobodyWaits
  <1>2. \A d \in Callers : d # c => cpc'[d] = "idle"
    BY <1>1 DEF TypeOK, CallTypes
  <1> QED BY <1>2 DEF Entitled, Fit, EndedWell, LetGo, Waiting

\* A worker moves on.
LEMMA EntitledWorker ==
  ASSUME TypeOK, FlightInv, Attended, Entitled, NEW p \in Primitives, wpc[p] \in WorkerLive,
         \A q \in Primitives : q # p => wpc'[q] = wpc[q] /\ outcome'[q] = outcome[q],
         UNCHANGED <<cpc, cprim, released, deadline>>, gstate' = READY => gstate = READY
  PROVE  Entitled'
  <1>1. \A c \in Callers : cpc[c] \in {"release", "commit"} => cprim[c] \in Primitives /\ cprim[c] # p
    BY DEF Entitled, EndedWell, WorkerLive, TypeOK, CallTypes
  <1>2. ASSUME NEW c \in Callers, cpc[c] = "commit" PROVE gstate # READY
    <2>1. SUFFICES ASSUME gstate = READY PROVE FALSE
      OBVIOUS
    <2>2. PICK d \in Callers : cpc[d] \in Waiting \cup {"failing"}
      BY <2>1 DEF Attended
    <2> QED BY <1>2, <2>2 DEF FlightInv, InsideHoldsLock, Waiting
  <1> QED BY <1>1, <1>2 DEF Entitled, Fit, EndedWell, LetGo

LEMMA EntitledRuns ==
  ASSUME TypeOK, FlightInv, Entitled, NEW c \in Callers, execLock \in {c, NoOne},
         NEW p \in Primitives, RunHead(c, p)
  PROVE  Entitled'
  <1>1. CASE \E f : Refuse(c, p, f)
    <2>1. cpc' = [cpc EXCEPT ![c] = "idle"]
      BY <1>1 DEF Refuse, Finish
    <2>2. cpc'[c] = "idle"
      BY <2>1 DEF TypeOK, CallTypes
    <2> QED BY <2>1, <2>2, EntitledCall DEF Fit, EndedWell, LetGo, Waiting
  <1>2. CASE \E t \in Readings, poseOk \in BOOLEAN :
               RunGate(p, t, poseOk) = "OK" /\ Register(c, p, t)
    <2>1. PICK t \in Readings, poseOk \in BOOLEAN :
            RunGate(p, t, poseOk) = "OK" /\ Register(c, p, t)
      BY <1>2
    <2>2. t + Envelope <= Horizon
      <3>1. t \in Int
        BY GatewayAssumption DEF GatewayAssumption, Readings, BadClock, TypeOK, StopTypes
      <3>2. SessionGate(t) = "OK"
        BY <2>1 DEF RunGate
      <3>3. ~(t + Envelope > Horizon)
        BY <2>1, <3>2 DEF RunGate
      <3> QED BY <3>1, <3>3, GatewayAssumption DEF GatewayAssumption
    <2>3. /\ cpc' = [cpc EXCEPT ![c] = "starting"] /\ cprim' = [cprim EXCEPT ![c] = p]
          /\ deadline' = [deadline EXCEPT ![p] = t + Envelope]
      BY <2>1 DEF Register
    <2>4. cpc'[c] = "starting" /\ cprim'[c] = p /\ deadline'[p] = t + Envelope
      BY <2>3 DEF TypeOK, CallTypes, WorkerTypes
    <2> QED BY <2>2, <2>3, <2>4, EntitledCall DEF Fit, EndedWell, LetGo
  <1> QED BY <1>1, <1>2 DEF RunHead

\* What a call inside the gateway does with its own part of the invariant.
LEMMA EntitledCaller ==
  ASSUME TypeOK, FlightInv, Entitled, NEW c \in Callers, CallerStep(c), ~RunExpected(c)
  PROVE  Entitled'
  <1>0. cpc[c] # "idle" /\ execLock = c /\ cprim[c] \in Primitives /\ cpc \in [Callers -> CallerPcs]
    BY DEF CallerStep, QueueCleared, ClearedStatus, StartWorker, StartRaises, StartResolved,
           WatchdogFires, Completion, Fail, FailRelease, ReleaseAfterApply, Commit, FlightInv,
           InsideHoldsLock, TypeOK, CallTypes
  <1>1. ASSUME NEW l \in {"idle", "cleared", "failing", "failRelease"},
               cpc' = [cpc EXCEPT ![c] = l]
        PROVE  Entitled'
    <2>1. cpc'[c] = l
      BY <1>0, <1>1
    <2> QED BY <1>0, <1>1, <2>1, EntitledCall DEF Fit, EndedWell, LetGo, Waiting
  <1>2. CASE \/ QueueCleared(c) \/ ClearedStatus(c) \/ StartRaises(c) \/ WatchdogFires(c)
             \/ Fail(c) \/ FailRelease(c) \/ Commit(c)
    <2>1. \E l \in {"idle", "cleared", "failing", "failRelease"} : cpc' = [cpc EXCEPT ![c] = l]
      BY <1>2 DEF QueueCleared, ClearedStatus, StartRaises, WatchdogFires, Abandon, Fail,
                  FailRelease, Commit, Finish
    <2> QED BY <1>1, <2>1
  <1>3. CASE StartWorker(c) \/ StartResolved(c)
    <2>1. /\ cpc[c] \in {"starting"} \cup Waiting /\ UNCHANGED <<cprim, deadline>>
          /\ \E l \in Waiting : cpc' = [cpc EXCEPT ![c] = l]
      BY <1>3, Zenon DEF StartWorker, StartResolved, OnlyCaller, worker, Waiting
    <2>2. PICK l \in Waiting : cpc' = [cpc EXCEPT ![c] = l]
      BY <2>1
    <2>3. cpc'[c] = l
      BY <1>0, <2>2
    <2>4. Fit(c)'
      BY <2>1 DEF Entitled, Fit
    <2> QED BY <1>0, <2>2, <2>3, <2>4, EntitledCall DEF EndedWell, LetGo, Waiting
  <1>4. CASE Completion(c)
    <2>1. CASE outcome[cprim[c]] = "COMPLETED"
      <3>1. /\ cpc[c] \in Waiting /\ wpc[cprim[c]] = "done" /\ UNCHANGED <<cprim, worker>>
            /\ cpc' = [cpc EXCEPT ![c] = "release"]
        BY <1>4, <2>1 DEF Completion, OnlyCaller, Waiting
      <3>2. cpc'[c] = "release"
        BY <1>0, <3>1
      <3>3. Fit(c)' /\ EndedWell(c)'
        BY <2>1, <3>1, <3>2 DEF Entitled, Fit, EndedWell, worker
      <3> QED BY <1>0, <3>1, <3>2, <3>3, EntitledCall DEF LetGo
    <2>2. CASE outcome[cprim[c]] # "COMPLETED"
      <3>1. cpc' = [cpc EXCEPT ![c] = "failing"]
        BY <1>4, <2>2, Zenon DEF Completion
      <3> QED BY <1>1, <3>1
    <2> QED BY <2>1, <2>2
  <1>5. CASE ReleaseAfterApply(c)
    <2>1. /\ cpc[c] = "release" /\ cpc' = [cpc EXCEPT ![c] = "commit"]
          /\ UNCHANGED <<cprim, deadline, wpc, outcome>>
      BY <1>5 DEF ReleaseAfterApply, worker
    <2>2. PICK ok \in ReleaseOutcomes :
            ReleaseAll(ok) /\ released' = [released EXCEPT ![c] = ok]
      BY <1>5 DEF ReleaseAfterApply
    <2>3. cpc'[c] = "commit" /\ released'[c] = ok /\ keyDown' = (keyDown /\ ~ok)
      BY <1>0, <2>1, <2>2 DEF ReleaseAll, ReleaseSink, TypeOK, CallTypes
    <2>4. Fit(c)' /\ EndedWell(c)'
      BY <2>1 DEF Entitled, Fit, EndedWell
    <2>5. LetGo(c)'
      BY <2>3 DEF LetGo
    <2> QED BY <1>0, <2>1, <2>4, <2>5, EntitledCall
  <1> QED BY <1>2, <1>3, <1>4, <1>5 DEF CallerStep

LEMMA EntitledStep == TypeOK /\ FlightInv /\ Attended /\ Entitled /\ [Next]_vars => Entitled'
  <1> SUFFICES ASSUME TypeOK, FlightInv, Attended, Entitled, [Next]_vars PROVE Entitled'
    OBVIOUS
  <1>0. gstate' = READY => gstate = READY
    BY StaysOutStep DEF StaysOut, vars, gate
  <1>01. \A ok \in ReleaseOutcomes : FailClosed(ok) \/ ReleaseAll(ok) => (keyDown' => keyDown)
    BY ReleaseOutcomesAreFlags DEF FailClosed, ReleaseAll, ReleaseSink, TypeOK, FlagTypes
  <1>1. ASSUME NEW p \in Primitives, Enqueue(p) PROVE Entitled'
    <2>1. keyDown' => keyDown
      BY <1>01, <1>1 DEF Enqueue, sink
    <2> QED BY <1>0, <1>1, <2>1, EntitledKept DEF Enqueue, caller, worker
  <1>2. ASSUME NEW c \in Callers, NEW p \in Primitives, Execute(c, p) PROVE Entitled'
    <2>1. CASE cpc' = [cpc EXCEPT ![c] = "expected"]
      <3>1. cpc'[c] = "expected" /\ execLock = NoOne
        BY <1>2, <2>1 DEF Execute, TypeOK, CallTypes
      <3> QED BY <2>1, <3>1, EntitledCall DEF Fit, EndedWell, LetGo, Waiting
    <2>2. CASE (\E ok \in ReleaseOutcomes : FailClosed(ok)) /\ UNCHANGED caller
      BY <1>0, <1>01, <1>2, <2>2, EntitledKept DEF Execute, caller, worker
    <2> QED BY <1>2, <2>1, <2>2 DEF Execute
  <1>3. ASSUME NEW c \in Callers, RunNext(c) PROVE Entitled'
    <2>1. PICK p \in Primitives : RunHead(c, p)
      BY <1>3 DEF RunNext, TypeOK, GateTypes
    <2> QED BY <1>3, <2>1, EntitledRuns DEF RunNext
  <1>4. ASSUME NEW c \in Callers, RunExpected(c) PROVE Entitled'
    <2>1. cpc[c] # "idle" /\ RunHead(c, cprim[c])
      BY <1>4 DEF RunExpected
    <2>2. cprim[c] \in Primitives /\ execLock = c
      BY <2>1 DEF FlightInv, InsideHoldsLock, TypeOK, CallTypes
    <2> QED BY <2>1, <2>2, EntitledRuns
  <1>5. ASSUME NEW c \in Callers, CallerStep(c), ~RunExpected(c) PROVE Entitled'
    BY <1>5, EntitledCaller
  <1>6. ASSUME NEW p \in Primitives, WorkerStep(p) PROVE Entitled'
    <2>1. wpc[p] \in WorkerLive /\ UNCHANGED <<cpc, cprim, released, deadline>>
      BY <1>6 DEF WorkerStep, WorkerGate, SinkEnter, SinkPress, SinkExit, FinalRelease, Deregister,
                  OnlyWorker, caller, WorkerLive
    <2>2. \E l : wpc' = [wpc EXCEPT ![p] = l]
      BY <1>6, Zenon DEF WorkerStep, WorkerGate, SinkEnter, SinkPress, SinkExit, FinalRelease,
                         Deregister
    <2>3. UNCHANGED outcome \/ \E o : outcome' = [outcome EXCEPT ![p] = o]
      BY <1>6, Zenon DEF WorkerStep, WorkerGate, SinkEnter, SinkPress, SinkExit, FinalRelease,
                         Deregister
    <2>4. \A q \in Primitives : q # p => wpc'[q] = wpc[q] /\ outcome'[q] = outcome[q]
      BY <2>2, <2>3 DEF TypeOK, WorkerTypes
    <2> QED BY <1>0, <2>1, <2>4, EntitledWorker
  <1>7. CASE Takeover \/ Close \/ Disarm \/ Revoked \/ Tick \/ UNCHANGED vars
    BY <1>0, <1>7, EntitledKept
    DEF Takeover, Close, Disarm, Revoked, Tick, OnlyStop, vars, caller, worker, sink
  <1>8. ASSUME NEW s \in Stops, StopRelease(s) PROVE Entitled'
    BY <1>0, <1>01, <1>8, EntitledKept DEF StopRelease, OnlyStop, caller, worker
  <1> QED
    BY <1>1, <1>2, <1>3, <1>4, <1>5, <1>6, <1>7, <1>8 DEF Next

\* EXECUTED is published by _commit_after_apply only, with what it has checked
\* and what the invariant keeps.
LEMMA AuthorityStep == TypeOK /\ Entitled /\ ReleaseFaultVisible /\ [Next]_vars => [WithAuthority]_vars
  <1> SUFFICES ASSUME TypeOK, Entitled, ReleaseFaultVisible, [Next]_vars, NEW p \in Primitives,
                      verdict'[p] = "EXECUTED", verdict[p] # "EXECUTED"
               PROVE  /\ gstate = READY /\ ~cancelled /\ armActive
                      /\ ~keyDown /\ ~releaseFaulted
                      /\ wpc[p] = "done" /\ outcome[p] = "COMPLETED"
                      /\ \E c \in Callers : /\ cprim[c] = p
                                            /\ completedAt[c] <= deadline[p]
                                            /\ deadline[p] <= Horizon
    BY DEF WithAuthority
  <1>0. verdict \in [Primitives -> Failures \cup {"EXECUTED", "OK", Unset}] /\ verdict' # verdict
    BY DEF TypeOK, CallTypes
  <1>1. ASSUME NEW c \in Callers, CallerStep(c), ~Commit(c), ~FailRelease(c), ~RunExpected(c)
        PROVE  FALSE
    BY <1>0, <1>1, Zenon
    DEF CallerStep, QueueCleared, ClearedStatus, StartWorker, StartRaises, StartResolved,
        WatchdogFires, Completion, Fail, ReleaseAfterApply, OnlyCaller, history
  <1>2. ASSUME NEW c \in Callers, NEW s, s # "EXECUTED", NEW q, verdict' = [verdict EXCEPT ![q] = s]
        PROVE  FALSE
    BY <1>0, <1>2
  <1>3. ASSUME NEW c \in Callers, FailRelease(c) PROVE FALSE
    <2>1. PICK ok : verdict' = [verdict EXCEPT ![cprim[c]] = Published(cfailure[c], ok)]
      BY <1>3 DEF FailRelease
    <2>2. Published(cfailure[c], ok) # "EXECUTED"
      BY DEF Published, TypeOK, CallTypes, Failures, Unset
    <2> QED BY <1>2, <2>1, <2>2
  <1>4. ASSUME NEW c \in Callers, NEW q \in Primitives, RunHead(c, q) PROVE FALSE
    <2>1. PICK t \in Readings, poseOk \in BOOLEAN : Refuse(c, q, RunGate(q, t, poseOk))
      BY <1>0, <1>4, Zenon DEF RunHead, Register, history
    <2>2. RunGate(q, t, poseOk) # "EXECUTED"
      BY RunGateStatus DEF TypeOK, Failures
    <2>3. PICK ok : verdict' = [verdict EXCEPT ![q] = Published(RunGate(q, t, poseOk), ok)]
      BY <2>1 DEF Refuse
    <2>4. Published(RunGate(q, t, poseOk), ok) # "EXECUTED"
      BY <2>2 DEF Published
    <2> QED BY <1>2, <2>3, <2>4
  <1>5. ASSUME NEW c \in Callers, RunNext(c) \/ RunExpected(c) PROVE FALSE
    <2>1. \E q \in Primitives : RunHead(c, q)
      BY <1>5 DEF RunNext, RunExpected, TypeOK, GateTypes, CallTypes
    <2> QED BY <1>4, <2>1
  <1>6. ASSUME NEW q \in Primitives, \/ Enqueue(q) \/ WorkerStep(q)
                                     \/ \E c \in Callers : Execute(c, q)
        PROVE  FALSE
    BY <1>0, <1>6, Zenon
    DEF Enqueue, Execute, WorkerStep, WorkerGate, SinkEnter, SinkPress, SinkExit, FinalRelease,
        Deregister, OnlyWorker, history
  <1>7. ASSUME \/ Takeover \/ Close \/ Disarm \/ Revoked \/ Tick \/ UNCHANGED vars
               \/ \E s \in Stops : StopRelease(s)
        PROVE  FALSE
    BY <1>0, <1>7
    DEF Takeover, Close, Disarm, Revoked, Tick, StopRelease, OnlyStop, history, vars
  <1>8. PICK c \in Callers : Commit(c)
    BY <1>1, <1>3, <1>5, <1>6, <1>7 DEF Next
  <1>9. cpc[c] = "commit" /\ verdict' = [verdict EXCEPT ![cprim[c]] = CommitStatus(c)]
    BY <1>8 DEF Commit
  <1>10. CommitStatus(c) = "EXECUTED" /\ cprim[c] = p
    BY <1>0, <1>9
  <1>11. CancellationStatus # "EXECUTED"
    BY CancellationIsFailure DEF TypeOK, GateTypes, FlagTypes, Failures
  <1>12. released[c] /\ ~cancelled /\ gstate = READY
    BY <1>10, <1>11 DEF CommitStatus
  <1>13. ~(completedAt[c] > deadline[p]) /\ SessionGate(completedAt[c]) = "OK"
    <2>1. SessionGate(completedAt[c]) # "EXECUTED"
      BY SessionGateStatus DEF TypeOK, GateTypes, FlagTypes, Failures
    <2> QED BY <1>10, <1>11, <2>1 DEF CommitStatus
  <1>14. armActive
    BY <1>12, <1>13 DEF SessionGate, Stopped
  <1>15. completedAt[c] <= deadline[p]
    BY <1>13 DEF TypeOK, CallTypes, WorkerTypes
  <1>16. deadline[p] <= Horizon /\ wpc[p] = "done" /\ outcome[p] = "COMPLETED" /\ ~keyDown
    BY <1>9, <1>10, <1>12 DEF Entitled, Fit, EndedWell, LetGo
  <1> QED
    BY <1>10, <1>12, <1>14, <1>15, <1>16 DEF ReleaseFaultVisible

LEMMA EntitledHolds == Spec => []Entitled
  <1>1. Init => Entitled
    BY DEF Init, Entitled, Fit, EndedWell, LetGo, Waiting
  <1>2. OrderInv => Attended
    BY DEF OrderInv, Pace
  <1> QED
    BY <1>1, <1>2, EntitledStep, LedgerHolds, OrderHolds, PTL DEF Spec

\* EXECUTED is published only by the gateway the execution was registered with:
\* READY, not cancelled, armed, with every control released by a worker that
\* has ended, and inside its deadline and the lease's expiry.
THEOREM ExecutedWithAuthority == Spec => ExecutedOnlyWithAuthority
  BY EntitledHolds, AuthorityStep, LedgerHolds, FaultStaysVisible, PTL
  DEF Spec, ExecutedOnlyWithAuthority

-----------------------------------------------------------------------------
(* The lease. Three things are needed beyond the order and the authority:  *)
(* a READY gateway has let nobody's epoch pass and is cancelled only while *)
(* a call is failing; what a call will publish as a failure is one; and    *)
(* what the sink was handed has its answer or a call that will give it.    *)

EpochShut == epochMoved => gstate # READY

CancelShut == cancelled /\ gstate = READY => \E c \in Callers : cpc[c] = "failing"

ShutInv == EpochShut /\ CancelShut

\* A failing call that stays in a READY gateway has not moved.
LEMMA FailingStays ==
  ASSUME TypeOK, FlightInv, [Next]_vars, NEW c \in Callers, cpc[c] = "failing", gstate' = READY
  PROVE  cpc'[c] = "failing"
  <1>1. execLock = c /\ c # NoOne
    BY GatewayAssumption DEF GatewayAssumption, FlightInv, InsideHoldsLock
  <1>2. \A d \in Callers : d # c => cpc[d] = "idle"
    BY <1>1 DEF FlightInv, InsideHoldsLock
  <1>3. ASSUME NEW p \in Primitives, Enqueue(p) \/ WorkerStep(p) PROVE UNCHANGED cpc
    BY <1>3 DEF Enqueue, WorkerStep, WorkerGate, SinkEnter, SinkPress, SinkExit, FinalRelease,
                Deregister, OnlyWorker, caller
  <1>4. ASSUME NEW d \in Callers, RunNext(d) \/ \E p \in Primitives : Execute(d, p) PROVE FALSE
    BY <1>1, <1>4 DEF RunNext, Execute
  <1>5. ASSUME NEW d \in Callers, CallerStep(d) PROVE FALSE
    <2>1. cpc[d] # "idle" /\ (cpc[d] = "failing" => Fail(d))
      BY <1>5 DEF CallerStep, QueueCleared, ClearedStatus, StartWorker, StartRaises, StartResolved,
                  WatchdogFires, Completion, Fail, FailRelease, ReleaseAfterApply, Commit,
                  RunExpected
    <2>2. Fail(c)
      BY <1>2, <2>1
    <2> QED BY <2>2, FailureStates DEF Fail, FailLocked, TypeOK, GateTypes
  <1>6. CASE Takeover \/ Close \/ Disarm \/ Revoked \/ Tick \/ (\E s \in Stops : StopRelease(s))
             \/ UNCHANGED vars
    BY <1>6 DEF Takeover, Close, Disarm, Revoked, Tick, StopRelease, OnlyStop, caller, vars
  <1> QED BY <1>3, <1>4, <1>5, <1>6 DEF Next

\* In a gateway that stays READY no step moves the epoch.
LEMMA EpochStep ==
  ASSUME TypeOK, [Next]_vars, gstate' = READY, epochMoved'
  PROVE  epochMoved
  <1>0. gstate = READY
    BY StaysOutStep DEF StaysOut, vars, gate
  <1>1. ASSUME NEW ok \in ReleaseOutcomes, FailClosed(ok) PROVE FALSE
    BY <1>1, ReleaseOutcomesAreFlags, FailClosedLeaves
  <1>2. ASSUME NEW ok \in ReleaseOutcomes, ReleaseAll(ok) PROVE epochMoved
    BY <1>0, <1>2 DEF ReleaseAll, AfterRelease
  <1>3. ASSUME NEW p \in Primitives, Enqueue(p) \/ \E c \in Callers : Execute(c, p) PROVE epochMoved
    BY <1>1, <1>3, Zenon DEF Enqueue, Execute
  <1>4. ASSUME NEW c \in Callers, NEW p, RunHead(c, p) PROVE epochMoved
    BY <1>1, <1>4, Zenon DEF RunHead, Refuse, Register
  <1>5. ASSUME NEW c \in Callers, RunNext(c) \/ CallerStep(c) PROVE epochMoved
    <2>1. CASE RunNext(c) \/ RunExpected(c)
      BY <1>4, <2>1 DEF RunNext, RunExpected
    <2>2. CASE Fail(c) \/ Commit(c)
      <3>1. gstate' # READY \/ UNCHANGED gate
        BY <2>2, FailureStates, Zenon DEF Fail, FailLocked, Commit, TypeOK, GateTypes
      <3> QED BY <3>1 DEF gate
    <2>3. CASE FailRelease(c) \/ ReleaseAfterApply(c)
      BY <1>2, <2>3 DEF FailRelease, ReleaseAfterApply
    <2>4. CASE QueueCleared(c) \/ ClearedStatus(c) \/ StartWorker(c) \/ StartRaises(c)
               \/ StartResolved(c) \/ WatchdogFires(c) \/ Completion(c)
      BY <2>4 DEF QueueCleared, ClearedStatus, StartWorker, StartRaises, StartResolved,
                  WatchdogFires, Completion, OnlyCaller, gate
    <2> QED BY <1>5, <2>1, <2>2, <2>3, <2>4 DEF CallerStep
  <1>6. ASSUME NEW p \in Primitives, WorkerStep(p) PROVE epochMoved
    BY <1>2, <1>6, Zenon DEF WorkerStep, WorkerGate, SinkEnter, SinkPress, SinkExit, FinalRelease,
                             Deregister, gate
  <1>7. CASE Takeover \/ Close \/ Disarm \/ Revoked \/ Tick \/ UNCHANGED vars
    BY <1>0, <1>7, FailureStates
    DEF Takeover, Close, Disarm, Revoked, Tick, vars, gate, TypeOK, GateTypes
  <1>8. ASSUME NEW s \in Stops, StopRelease(s) PROVE epochMoved
    BY <1>2, <1>8 DEF StopRelease
  <1> QED BY <1>3, <1>5, <1>6, <1>7, <1>8 DEF Next

\* A gateway that stays READY is cancelled by nobody but a call that now fails.
LEMMA CancelStep ==
  ASSUME TypeOK, [Next]_vars, gstate' = READY, cancelled'
  PROVE  cancelled \/ \E c \in Callers : cpc'[c] = "failing"
  <1>1. ASSUME NEW p \in Primitives, Enqueue(p) \/ WorkerStep(p) \/ \E c \in Callers : Execute(c, p)
        PROVE  cancelled
    BY <1>1 DEF Enqueue, Execute, WorkerStep, WorkerGate, SinkEnter, SinkPress, SinkExit,
                FinalRelease, Deregister, OnlyWorker
  <1>2. ASSUME NEW c \in Callers, StartRaises(c) \/ WatchdogFires(c) PROVE cpc'[c] = "failing"
    BY <1>2 DEF StartRaises, WatchdogFires, Abandon, TypeOK, CallTypes
  <1>3. ASSUME NEW c \in Callers, RunNext(c) \/ CallerStep(c), ~StartRaises(c), ~WatchdogFires(c)
        PROVE  cancelled
    BY <1>3, Zenon DEF RunNext, RunHead, CallerStep, QueueCleared, ClearedStatus, RunExpected, StartWorker,
                StartResolved, Completion, Fail, FailRelease, ReleaseAfterApply, Commit
  <1>4. CASE Takeover \/ Close \/ Disarm \/ Revoked \/ Tick \/ UNCHANGED vars
    BY <1>4, FailureStates DEF Takeover, Close, Disarm, Revoked, Tick, vars, gate, TypeOK, GateTypes
  <1>5. ASSUME NEW s \in Stops, StopRelease(s) PROVE cancelled
    BY <1>5 DEF StopRelease
  <1> QED BY <1>1, <1>2, <1>3, <1>4, <1>5 DEF Next, CallerStep

LEMMA ShutStep == TypeOK /\ FlightInv /\ ShutInv /\ [Next]_vars => ShutInv'
  <1> SUFFICES ASSUME TypeOK, FlightInv, ShutInv, [Next]_vars PROVE ShutInv'
    OBVIOUS
  <1>1. gstate' = READY => gstate = READY
    BY StaysOutStep DEF StaysOut, vars, gate
  <1>2. EpochShut'
    BY <1>1, EpochStep DEF ShutInv, EpochShut
  <1>3. CancelShut'
    BY <1>1, CancelStep, FailingStays DEF ShutInv, CancelShut
  <1> QED BY <1>2, <1>3 DEF ShutInv

\* A worker whose start was refused says why, and with a failure status.
RejectedKnown ==
  \A p \in Primitives :
    wpc[p] \in {"leaving", "dereg", "done"} /\ outcome[p] = "START_REJECTED"
      => startFailure[p] \in Failures

FailureKnown ==
  \A c \in Callers : cpc[c] \in {"failing", "failRelease"} => cfailure[c] \in Failures

RefusalInv == RejectedKnown /\ FailureKnown

LEMMA RejectedStep == TypeOK /\ RejectedKnown /\ [Next]_vars => RejectedKnown'
  <1> SUFFICES ASSUME TypeOK, RejectedKnown, [Next]_vars PROVE RejectedKnown'
    OBVIOUS
  <1>0. /\ wpc \in [Primitives -> WorkerLive \cup {"none", "done"}]
        /\ outcome \in [Primitives -> Outcomes \cup {Unset}]
        /\ startFailure \in [Primitives -> Failures \cup {"OK", Unset}]
    BY DEF TypeOK, WorkerTypes
  <1>1. ASSUME NEW p \in Primitives, WorkerGate(p) PROVE RejectedKnown'
    <2>1. PICK t \in Readings :
            /\ startFailure' = [startFailure EXCEPT ![p] = StartGate(p, t)]
            /\ IF StartGate(p, t) = "OK"
               THEN wpc' = [wpc EXCEPT ![p] = "enter"] /\ UNCHANGED outcome
               ELSE /\ wpc' = [wpc EXCEPT ![p] = "leaving"]
                    /\ outcome' = [outcome EXCEPT ![p] = "START_REJECTED"]
      BY <1>1 DEF WorkerGate
    <2>2. StartGate(p, t) \in Failures \cup {"OK"}
      BY StartGateStatus
    <2>3. CASE StartGate(p, t) = "OK"
      BY <1>0, <2>1, <2>3 DEF RejectedKnown
    <2>4. CASE StartGate(p, t) # "OK"
      BY <1>0, <2>1, <2>2, <2>4 DEF RejectedKnown
    <2> QED BY <2>3, <2>4
  <1>2. ASSUME NEW p \in Primitives, SinkEnter(p) \/ SinkPress(p) PROVE RejectedKnown'
    <2>1. \E l \in {"apply", "held"} : wpc' = [wpc EXCEPT ![p] = l]
      BY <1>2 DEF SinkEnter, SinkPress
    <2>2. UNCHANGED <<outcome, startFailure>>
      BY <1>2 DEF SinkEnter, SinkPress
    <2> QED BY <1>0, <2>1, <2>2 DEF RejectedKnown
  <1>3. ASSUME NEW p \in Primitives, SinkExit(p) PROVE RejectedKnown'
    <2>1. \E o \in {"COMPLETED", "CANCELLED", "EXCEPTION"} : outcome' = [outcome EXCEPT ![p] = o]
      BY <1>3 DEF SinkExit
    <2>2. wpc' = [wpc EXCEPT ![p] = "leaving"] /\ UNCHANGED startFailure
      BY <1>3 DEF SinkExit
    <2> QED BY <1>0, <2>1, <2>2 DEF RejectedKnown
  <1>4. ASSUME NEW p \in Primitives, FinalRelease(p) \/ Deregister(p) PROVE RejectedKnown'
    <2>1. /\ wpc[p] \in {"leaving", "dereg"} /\ UNCHANGED <<outcome, startFailure>>
          /\ \E l : wpc' = [wpc EXCEPT ![p] = l]
      BY <1>4, Zenon DEF FinalRelease, Deregister
    <2> QED BY <1>0, <2>1 DEF RejectedKnown
  <1>5. ASSUME NEW c \in Callers, StartWorker(c) PROVE RejectedKnown'
    <2>1. wpc' = [wpc EXCEPT ![cprim[c]] = "gate"] /\ UNCHANGED <<outcome, startFailure>>
      BY <1>5 DEF StartWorker
    <2> QED BY <1>0, <2>1 DEF RejectedKnown
  <1>6. ASSUME NEW c \in Callers, RunNext(c) \/ CallerStep(c), ~StartWorker(c) PROVE RejectedKnown'
    <2>1. UNCHANGED <<wpc, outcome, startFailure>>
      BY <1>6, Zenon DEF RunNext, RunHead, Refuse, Register, CallerStep, QueueCleared, ClearedStatus,
                         RunExpected, StartRaises, StartResolved, WatchdogFires, Completion, Fail,
                         FailRelease, ReleaseAfterApply, Commit, worker
    <2> QED BY <2>1 DEF RejectedKnown
  <1>7. ASSUME NEW p \in Primitives, Enqueue(p) \/ \E c \in Callers : Execute(c, p)
        PROVE  RejectedKnown'
    BY <1>7 DEF Enqueue, Execute, worker, RejectedKnown
  <1>8. CASE Takeover \/ Close \/ Disarm \/ Revoked \/ Tick \/ (\E s \in Stops : StopRelease(s))
             \/ UNCHANGED vars
    BY <1>8 DEF Takeover, Close, Disarm, Revoked, Tick, StopRelease, OnlyStop, worker, vars,
                RejectedKnown
  <1> QED BY <1>1, <1>2, <1>3, <1>4, <1>5, <1>6, <1>7, <1>8 DEF Next, CallerStep, WorkerStep

LEMMA FailureStep == TypeOK /\ RejectedKnown /\ FailureKnown /\ [Next]_vars => FailureKnown'
  <1> SUFFICES ASSUME TypeOK, RejectedKnown, FailureKnown, [Next]_vars PROVE FailureKnown'
    OBVIOUS
  <1>0. cpc \in [Callers -> CallerPcs] /\ cfailure \in [Callers -> Failures \cup {"OK", Unset}]
    BY DEF TypeOK, CallTypes
  <1>1. ASSUME NEW c \in Callers, NEW f \in Failures, cpc' = [cpc EXCEPT ![c] = "failing"],
               cfailure' = [cfailure EXCEPT ![c] = f]
        PROVE  FailureKnown'
    BY <1>0, <1>1 DEF FailureKnown
  <1>2. ASSUME NEW c \in Callers, NEW l, l \notin {"failing", "failRelease"},
               cpc' = [cpc EXCEPT ![c] = l],
               UNCHANGED cfailure \/ \E f : cfailure' = [cfailure EXCEPT ![c] = f]
        PROVE  FailureKnown'
    BY <1>0, <1>2 DEF FailureKnown
  <1>3. ASSUME UNCHANGED caller PROVE FailureKnown'
    BY <1>3 DEF FailureKnown, caller
  <1>4. ASSUME NEW c \in Callers, ClearedStatus(c) PROVE FailureKnown'
    <2>1. \E f \in Failures : cfailure' = [cfailure EXCEPT ![c] = f]
      BY <1>4 DEF ClearedStatus, Failures
    <2> QED BY <1>1, <1>4, <2>1 DEF ClearedStatus
  <1>5. ASSUME NEW c \in Callers, StartRaises(c) \/ WatchdogFires(c) PROVE FailureKnown'
    BY <1>1, <1>5 DEF StartRaises, WatchdogFires, Abandon, Failures
  <1>6. ASSUME NEW c \in Callers, Completion(c) PROVE FailureKnown'
    <2>1. CASE outcome[cprim[c]] = "COMPLETED"
      <3>1. cpc' = [cpc EXCEPT ![c] = "release"] /\ UNCHANGED cfailure
        BY <1>6, <2>1 DEF Completion
      <3> QED BY <1>2, <3>1
    <2>2. CASE outcome[cprim[c]] # "COMPLETED"
      <3> DEFINE f == CASE outcome[cprim[c]] = "START_REJECTED" -> startFailure[cprim[c]]
                        [] outcome[cprim[c]] = "CANCELLED" ->
                             IF cancelled THEN CancellationStatus ELSE "FAILED"
                        [] OTHER -> "FAILED"
      <3>1. /\ cpc' = [cpc EXCEPT ![c] = "failing"] /\ cfailure' = [cfailure EXCEPT ![c] = f]
            /\ wpc[cprim[c]] = "done" /\ cpc[c] # "idle"
        BY <1>6, <2>2 DEF Completion
      <3>2. outcome[cprim[c]] = "START_REJECTED" => startFailure[cprim[c]] \in Failures
        BY <3>1 DEF RejectedKnown, TypeOK, CallTypes
      <3>3. CancellationStatus \in Failures
        BY CancellationIsFailure DEF TypeOK, GateTypes, FlagTypes
      <3>4. f \in Failures
        BY <3>2, <3>3 DEF Failures
      <3> QED BY <1>1, <3>1, <3>4
    <2> QED BY <2>1, <2>2
  <1>7. ASSUME NEW c \in Callers, Fail(c) PROVE FailureKnown'
    BY <1>0, <1>7 DEF Fail, FailureKnown
  <1>8. ASSUME NEW c \in Callers,
               \/ QueueCleared(c) \/ StartWorker(c) \/ StartResolved(c) \/ FailRelease(c)
               \/ ReleaseAfterApply(c) \/ Commit(c) \/ \E p : RunHead(c, p)
        PROVE  FailureKnown'
    <2>1. /\ \E l \in CallerPcs \ {"failing", "failRelease"} : cpc' = [cpc EXCEPT ![c] = l]
          /\ UNCHANGED cfailure \/ \E f : cfailure' = [cfailure EXCEPT ![c] = f]
      BY <1>8, Zenon DEF QueueCleared, StartWorker, StartResolved, FailRelease, ReleaseAfterApply,
                         Commit, RunHead, Refuse, Register, Finish, CallerPcs
    <2> QED BY <1>2, <2>1
  <1>9. ASSUME NEW c \in Callers, RunNext(c) \/ CallerStep(c) PROVE FailureKnown'
    BY <1>4, <1>5, <1>6, <1>7, <1>8, <1>9 DEF RunNext, CallerStep, RunExpected
  <1>10. ASSUME NEW p \in Primitives, Enqueue(p) \/ WorkerStep(p) PROVE UNCHANGED caller
    BY <1>10 DEF Enqueue, WorkerStep, WorkerGate, SinkEnter, SinkPress, SinkExit, FinalRelease,
                 Deregister, OnlyWorker
  <1>11. ASSUME NEW c \in Callers, NEW p \in Primitives, Execute(c, p) PROVE FailureKnown'
    <2>1. UNCHANGED caller
          \/ (cpc' = [cpc EXCEPT ![c] = "expected"] /\ UNCHANGED cfailure)
      BY <1>11 DEF Execute
    <2> QED BY <1>2, <1>3, <2>1
  <1>12. CASE Takeover \/ Close \/ Disarm \/ Revoked \/ Tick \/ (\E s \in Stops : StopRelease(s))
              \/ UNCHANGED vars
    BY <1>3, <1>12 DEF Takeover, Close, Disarm, Revoked, Tick, StopRelease, OnlyStop, vars
  <1> QED BY <1>3, <1>9, <1>10, <1>11, <1>12 DEF Next

LEMMA RefusalStep == TypeOK /\ RefusalInv /\ [Next]_vars => RefusalInv'
  BY RejectedStep, FailureStep DEF RefusalInv

AppliedIsHanded ==
  \A p \in Primitives :
    wpc[p] \in {"apply", "held"} \/ outcome[p] = "COMPLETED" => p \in Lease!Handed

ActiveIsBusy ==
  active # NoOne =>
    \/ wpc[active] \in WorkerLive
    \/ \E c \in Callers : cpc[c] = "starting" /\ cprim[c] = active

Answering == Waiting \cup {"failing", "release", "commit"}

HandedAnswered ==
  gstate = READY =>
    \A p \in Lease!Handed :
      verdict[p] = "EXECUTED" \/ \E c \in Callers : cpc[c] \in Answering /\ cprim[c] = p

LEMMA HandedGrows ==
  ASSUME TypeOK, NEW p \in Primitives, applied' = Append(applied, p)
  PROVE  Lease!Handed' = Lease!Handed \cup {p}
  <1>1. /\ applied \in Seq(Primitives) /\ Len(applied') = Len(applied) + 1
        /\ applied'[Len(applied) + 1] = p
        /\ \A i \in 1..Len(applied) : applied'[i] = applied[i]
    BY DEF TypeOK, WorkerTypes
  <1>2. 1..Len(applied') = 1..Len(applied) \cup {Len(applied) + 1}
    BY <1>1
  <1> QED BY <1>1, <1>2 DEF Lease!Handed

LEMMA AppliedStep == TypeOK /\ AppliedIsHanded /\ [Next]_vars => AppliedIsHanded'
  <1> SUFFICES ASSUME TypeOK, AppliedIsHanded, [Next]_vars PROVE AppliedIsHanded'
    OBVIOUS
  <1>0. wpc \in [Primitives -> WorkerLive \cup {"none", "done"}]
        /\ outcome \in [Primitives -> Outcomes \cup {Unset}]
    BY DEF TypeOK, WorkerTypes
  <1>1. ASSUME NEW p \in Primitives, SinkEnter(p) PROVE AppliedIsHanded'
    <2>1. Lease!Handed' = Lease!Handed \cup {p} /\ wpc' = [wpc EXCEPT ![p] = "apply"]
          /\ UNCHANGED outcome
      BY <1>1, HandedGrows DEF SinkEnter
    <2> QED BY <1>0, <2>1 DEF AppliedIsHanded
  <1>2. ASSUME NEW p \in Primitives, SinkPress(p) \/ SinkExit(p) PROVE AppliedIsHanded'
    <2>1. p \in Lease!Handed
      BY <1>2 DEF SinkPress, SinkExit, AppliedIsHanded
    <2>2. \E l : wpc' = [wpc EXCEPT ![p] = l]
      BY <1>2 DEF SinkPress, SinkExit
    <2>3. UNCHANGED outcome \/ \E o : outcome' = [outcome EXCEPT ![p] = o]
      BY <1>2, Zenon DEF SinkPress, SinkExit
    <2>4. Lease!Handed' = Lease!Handed
      BY <1>2 DEF SinkPress, SinkExit, Lease!Handed
    <2> QED BY <1>0, <2>1, <2>2, <2>3, <2>4 DEF AppliedIsHanded
  <1>3. ASSUME NEW p \in Primitives, WorkerGate(p) \/ FinalRelease(p) \/ Deregister(p)
        PROVE  AppliedIsHanded'
    <2>1. \E l \in {"enter", "leaving", "dereg", "done"} : wpc' = [wpc EXCEPT ![p] = l]
      BY <1>3, Zenon DEF WorkerGate, FinalRelease, Deregister
    <2>2. UNCHANGED outcome \/ outcome' = [outcome EXCEPT ![p] = "START_REJECTED"]
      BY <1>3, Zenon DEF WorkerGate, FinalRelease, Deregister
    <2>3. Lease!Handed' = Lease!Handed
      BY <1>3 DEF WorkerGate, FinalRelease, Deregister, Lease!Handed
    <2> QED BY <1>0, <2>1, <2>2, <2>3 DEF AppliedIsHanded
  <1>4. ASSUME NEW c \in Callers, RunNext(c) \/ CallerStep(c)
        PROVE  UNCHANGED <<outcome, applied>> /\ (UNCHANGED wpc \/ StartWorker(c))
    BY <1>4, Zenon DEF RunNext, RunHead, Refuse, Register, CallerStep, QueueCleared, ClearedStatus,
                RunExpected, StartWorker, StartRaises, StartResolved, WatchdogFires, Completion, Fail,
                FailRelease, ReleaseAfterApply, Commit, OnlyCaller, worker, history
  <1>5. ASSUME NEW c \in Callers, RunNext(c) \/ CallerStep(c) PROVE AppliedIsHanded'
    <2>1. UNCHANGED <<outcome, applied>> /\ (UNCHANGED wpc \/ wpc' = [wpc EXCEPT ![cprim[c]] = "gate"])
      BY <1>4, <1>5 DEF StartWorker
    <2> QED BY <1>0, <2>1 DEF AppliedIsHanded, Lease!Handed
  <1>6. ASSUME NEW p \in Primitives, Enqueue(p) \/ \E c \in Callers : Execute(c, p)
        PROVE  AppliedIsHanded'
    BY <1>6 DEF Enqueue, Execute, worker, history, AppliedIsHanded, Lease!Handed
  <1>7. CASE Takeover \/ Close \/ Disarm \/ Revoked \/ Tick \/ (\E s \in Stops : StopRelease(s))
             \/ UNCHANGED vars
    BY <1>7 DEF Takeover, Close, Disarm, Revoked, Tick, StopRelease, OnlyStop, worker, history, vars,
                AppliedIsHanded, Lease!Handed
  <1> QED BY <1>1, <1>2, <1>3, <1>5, <1>6, <1>7 DEF Next, WorkerStep

LEMMA BusyStep == TypeOK /\ FlightInv /\ ActiveIsBusy /\ [Next]_vars => ActiveIsBusy'
  <1> SUFFICES ASSUME TypeOK, FlightInv, ActiveIsBusy, [Next]_vars PROVE ActiveIsBusy'
    OBVIOUS
  <1>0. /\ wpc \in [Primitives -> WorkerLive \cup {"none", "done"}]
        /\ cpc \in [Callers -> CallerPcs] /\ cprim \in [Callers -> Primitives \cup {NoOne}]
        /\ active \in Primitives \cup {NoOne}
    BY DEF TypeOK, WorkerTypes, CallTypes, GateTypes
  <1>1. ASSUME NEW p \in Primitives, WorkerStep(p), ~Deregister(p) PROVE ActiveIsBusy'
    <2>1. /\ UNCHANGED <<active, cpc, cprim>> /\ wpc[p] \in WorkerLive
          /\ \E l \in WorkerLive : wpc' = [wpc EXCEPT ![p] = l]
      BY <1>1, Zenon DEF WorkerStep, WorkerGate, SinkEnter, SinkPress, SinkExit, FinalRelease,
                         OnlyWorker, caller, WorkerLive
    <2> QED BY <1>0, <2>1 DEF ActiveIsBusy
  <1>2. ASSUME NEW p \in Primitives, Deregister(p) PROVE ActiveIsBusy'
    <2>1. active = p
      BY <1>2 DEF Deregister, FlightInv, LiveIsActive, WorkerLive
    <2> QED BY <1>2, <2>1 DEF Deregister, ActiveIsBusy
  <1>3. ASSUME NEW c \in Callers, StartRaises(c) PROVE ActiveIsBusy'
    <2>1. active = cprim[c]
      BY <1>3 DEF StartRaises, FlightInv, StartingIsActive
    <2> QED BY <1>3, <2>1 DEF StartRaises, ActiveIsBusy
  <1>4. ASSUME NEW c \in Callers, StartWorker(c) PROVE ActiveIsBusy'
    <2>1. active = cprim[c] /\ UNCHANGED active /\ wpc' = [wpc EXCEPT ![cprim[c]] = "gate"]
          /\ cpc[c] = "starting"
      BY <1>4 DEF StartWorker, FlightInv, StartingIsActive
    <2>2. cprim[c] \in Primitives
      BY <2>1 DEF TypeOK, CallTypes
    <2> QED BY <1>0, <2>1, <2>2 DEF ActiveIsBusy, WorkerLive
  <1>5. ASSUME NEW c \in Callers, NEW p \in Primitives, NEW t, Register(c, p, t) PROVE ActiveIsBusy'
    <2>1. cpc'[c] = "starting" /\ cprim'[c] = p /\ active' = p
      BY <1>0, <1>5 DEF Register
    <2> QED BY <2>1 DEF ActiveIsBusy
  <1>6. ASSUME NEW c \in Callers, cpc[c] # "starting", UNCHANGED <<active, wpc>>,
               \A d \in Callers : d # c => cpc'[d] = cpc[d] /\ cprim'[d] = cprim[d]
        PROVE  ActiveIsBusy'
    BY <1>6 DEF ActiveIsBusy
  <1>7. ASSUME NEW c \in Callers, NEW p \in Primitives, NEW f, Refuse(c, p, f),
               cpc[c] # "starting"
        PROVE  ActiveIsBusy'
    <2>1. \A d \in Callers : d # c => cpc'[d] = cpc[d] /\ cprim'[d] = cprim[d]
      BY <1>0, <1>7 DEF Refuse, Finish
    <2> QED BY <1>6, <1>7, <2>1 DEF Refuse, worker
  <1>8. ASSUME NEW c \in Callers, RunNext(c) \/ RunExpected(c) PROVE ActiveIsBusy'
    <2>1. cpc[c] # "starting" /\ \E p \in Primitives : RunHead(c, p)
      BY <1>8 DEF RunNext, RunExpected, TypeOK, GateTypes, CallTypes
    <2> QED BY <1>5, <1>7, <2>1 DEF RunHead
  <1>9. ASSUME NEW c \in Callers, NEW p \in Primitives, Execute(c, p) PROVE ActiveIsBusy'
    <2>1. cpc[c] # "starting" /\ UNCHANGED <<active, wpc>>
      BY <1>9 DEF Execute, worker
    <2>2. \A d \in Callers : d # c => cpc'[d] = cpc[d] /\ cprim'[d] = cprim[d]
      BY <1>0, <1>9 DEF Execute, caller
    <2> QED BY <1>6, <2>1, <2>2
  <1>10. ASSUME NEW c \in Callers, CallerStep(c), ~RunExpected(c), ~StartWorker(c), ~StartRaises(c)
         PROVE  ActiveIsBusy'
    <2>1. cpc[c] # "starting" /\ UNCHANGED <<active, wpc>>
      BY <1>10 DEF CallerStep, QueueCleared, ClearedStatus, StartResolved, WatchdogFires, Completion,
                   Fail, FailRelease, ReleaseAfterApply, Commit, worker
    <2>2. /\ \E l : cpc' = [cpc EXCEPT ![c] = l]
          /\ UNCHANGED cprim \/ cprim' = [cprim EXCEPT ![c] = NoOne]
      BY <1>10, Zenon DEF CallerStep, QueueCleared, ClearedStatus, StartResolved, WatchdogFires,
                   Abandon, Completion, Fail, FailRelease, ReleaseAfterApply, Commit, Finish, OnlyCaller
    <2> QED BY <1>0, <1>6, <2>1, <2>2
  <1>11. ASSUME NEW p \in Primitives, Enqueue(p) PROVE ActiveIsBusy'
    BY <1>11 DEF Enqueue, caller, worker, ActiveIsBusy
  <1>12. CASE Takeover \/ Close \/ Disarm \/ Revoked \/ Tick \/ (\E s \in Stops : StopRelease(s))
              \/ UNCHANGED vars
    BY <1>12 DEF Takeover, Close, Disarm, Revoked, Tick, StopRelease, OnlyStop, caller, worker, vars,
                 ActiveIsBusy
  <1> QED BY <1>1, <1>2, <1>3, <1>4, <1>8, <1>9, <1>10, <1>11, <1>12 DEF Next, CallerStep, WorkerStep

\* A step that hands nothing over, takes no answer back and lets no caller go.
LEMMA AnsweringKept ==
  ASSUME HandedAnswered, gstate' = READY => gstate = READY, UNCHANGED <<applied, verdict>>,
         \A c \in Callers : cpc[c] \in Answering /\ gstate' = READY =>
           cpc'[c] \in Answering /\ cprim'[c] = cprim[c]
  PROVE  HandedAnswered'
  BY DEF HandedAnswered, Lease!Handed

\* What EXECUTED needs is there when the gateway stays READY over a commit.
LEMMA CommitsReady ==
  ASSUME TypeOK, FlightInv, ShutInv, NEW c \in Callers, Commit(c), gstate' = READY
  PROVE  CommitStatus(c) = "EXECUTED" /\ UNCHANGED gate
  <1>1. released[c] /\ UNCHANGED gate
        /\ (cancelled \/ epochMoved \/ gstate # READY \/ CommitStatus(c) = "EXECUTED")
    BY DEF Commit
  <1>2. gstate = READY /\ ~epochMoved
    BY <1>1 DEF gate, ShutInv, EpochShut
  <1>3. \A d \in Callers : cpc[d] # "failing"
    BY GatewayAssumption DEF Commit, FlightInv, InsideHoldsLock, GatewayAssumption
  <1>4. ~cancelled
    BY <1>2, <1>3 DEF ShutInv, CancelShut
  <1> QED BY <1>1, <1>2, <1>4

LEMMA AnsweredStep ==
  TypeOK /\ FlightInv /\ Attended /\ FailedIsOut /\ ShutInv /\ HandedAnswered /\ [Next]_vars
    => HandedAnswered'
  <1> SUFFICES ASSUME TypeOK, FlightInv, Attended, FailedIsOut, ShutInv, HandedAnswered, [Next]_vars
               PROVE  HandedAnswered'
    OBVIOUS
  <1>0. /\ cpc \in [Callers -> CallerPcs] /\ cprim \in [Callers -> Primitives \cup {NoOne}]
        /\ verdict \in [Primitives -> Failures \cup {"EXECUTED", "OK", Unset}]
        /\ gstate' = READY => gstate = READY
    BY StaysOutStep DEF StaysOut, vars, gate, TypeOK, CallTypes
  <1>1. ASSUME NEW p \in Primitives, SinkEnter(p) PROVE HandedAnswered'
    <2>1. Lease!Handed' = Lease!Handed \cup {p} /\ UNCHANGED <<cpc, cprim, verdict>>
      BY <1>1, HandedGrows DEF SinkEnter, OnlyWorker, caller
    <2>2. gstate = READY => \E c \in Callers : cpc[c] \in Answering /\ cprim[c] = p
      BY <1>1 DEF SinkEnter, Attended, WorkerLive, Answering
    <2> QED BY <1>0, <2>1, <2>2 DEF HandedAnswered
  <1>2. ASSUME NEW p \in Primitives, Enqueue(p) \/ (WorkerStep(p) /\ ~SinkEnter(p))
        PROVE  HandedAnswered'
    <2>1. UNCHANGED <<applied, verdict, cpc, cprim>>
      BY <1>2 DEF Enqueue, WorkerStep, WorkerGate, SinkPress, SinkExit, FinalRelease, Deregister,
                  OnlyWorker, caller, history
    <2> QED BY <1>0, <2>1, AnsweringKept
  <1>3. ASSUME NEW c \in Callers, cpc[c] \notin Answering, UNCHANGED <<applied, verdict>>,
               \A d \in Callers : d # c => cpc'[d] = cpc[d] /\ cprim'[d] = cprim[d]
        PROVE  HandedAnswered'
    BY <1>0, <1>3, AnsweringKept
  <1>4. ASSUME NEW c \in Callers, NEW p \in Primitives, Execute(c, p) PROVE HandedAnswered'
    <2>1. cpc[c] = "idle" /\ UNCHANGED <<applied, verdict>>
      BY <1>4 DEF Execute, history
    <2>2. \A d \in Callers : d # c => cpc'[d] = cpc[d] /\ cprim'[d] = cprim[d]
      BY <1>0, <1>4 DEF Execute, caller
    <2> QED BY <1>3, <2>1, <2>2 DEF Answering, Waiting
  <1>5. ASSUME NEW c \in Callers, RunNext(c) \/ RunExpected(c) PROVE HandedAnswered'
    <2>1. cpc[c] \in {"idle", "expected"} /\ \E p : RunHead(c, p)
      BY <1>5 DEF RunNext, RunExpected
    <2>2. CASE \E p, f : Refuse(c, p, f)
      BY <2>2, RefuseLeaves DEF HandedAnswered
    <2>3. CASE \E p, t : Register(c, p, t)
      <3>1. UNCHANGED <<applied, verdict>>
        BY <2>3 DEF Register, history
      <3>2. \A d \in Callers : d # c => cpc'[d] = cpc[d] /\ cprim'[d] = cprim[d]
        BY <1>0, <2>3 DEF Register
      <3> QED BY <1>3, <2>1, <3>1, <3>2 DEF Answering, Waiting
    <2> QED BY <2>1, <2>2, <2>3 DEF RunHead
  <1>6. ASSUME NEW c \in Callers, QueueCleared(c) \/ ClearedStatus(c) PROVE HandedAnswered'
    <2>1. cpc[c] \in {"expected", "cleared"} /\ UNCHANGED <<applied, verdict, cprim>>
      BY <1>6 DEF QueueCleared, ClearedStatus, history
    <2>2. \A d \in Callers : d # c => cpc'[d] = cpc[d]
      BY <1>0, <1>6 DEF QueueCleared, ClearedStatus
    <2> QED BY <1>3, <2>1, <2>2 DEF Answering, Waiting
  <1>7. ASSUME NEW c \in Callers,
               \/ StartWorker(c) \/ StartRaises(c) \/ StartResolved(c) \/ WatchdogFires(c)
               \/ Completion(c) \/ ReleaseAfterApply(c)
        PROVE  HandedAnswered'
    <2>1. UNCHANGED <<applied, verdict, cprim>>
      BY <1>7 DEF StartWorker, StartRaises, StartResolved, WatchdogFires, Completion,
                  ReleaseAfterApply, OnlyCaller, history
    <2>2. \E l \in Answering : cpc' = [cpc EXCEPT ![c] = l]
      BY <1>7, Zenon DEF StartWorker, StartRaises, StartResolved, WatchdogFires, Completion, Abandon,
                  ReleaseAfterApply, Answering, Waiting
    <2>3. \A d \in Callers : cpc[d] \in Answering => cpc'[d] \in Answering
      BY <1>0, <2>2
    <2> QED BY <1>0, <2>1, <2>3, AnsweringKept
  <1>8. ASSUME NEW c \in Callers, Fail(c) \/ FailRelease(c) PROVE HandedAnswered'
    <2>1. gstate' # READY
      BY <1>8, FailureStates, ReleaseLeaves, ReleaseOutcomesAreFlags
      DEF Fail, FailLocked, FailRelease, FailedIsOut, TypeOK, GateTypes
    <2> QED BY <2>1 DEF HandedAnswered
  <1>9. ASSUME NEW c \in Callers, Commit(c) PROVE HandedAnswered'
    <2> SUFFICES ASSUME gstate' = READY PROVE HandedAnswered'
      BY DEF HandedAnswered
    <2>1. CommitStatus(c) = "EXECUTED"
      BY <1>9, CommitsReady
    <2>2. cprim[c] \in Primitives /\ UNCHANGED applied
      BY <1>9 DEF Commit, TypeOK, CallTypes
    <2>3. verdict'[cprim[c]] = "EXECUTED"
          /\ \A q : q # cprim[c] /\ verdict[q] = "EXECUTED" => verdict'[q] = "EXECUTED"
      BY <1>0, <1>9, <2>1, <2>2 DEF Commit
    <2>4. \A d \in Callers : d # c => cpc'[d] = cpc[d] /\ cprim'[d] = cprim[d]
      BY <1>0, <1>9 DEF Commit, Finish
    <2> QED BY <1>0, <2>2, <2>3, <2>4 DEF HandedAnswered, Lease!Handed
  <1>10. CASE Takeover \/ Close \/ Disarm \/ Revoked \/ Tick \/ (\E s \in Stops : StopRelease(s))
              \/ UNCHANGED vars
    <2>1. UNCHANGED <<applied, verdict, cpc, cprim>>
      BY <1>10 DEF Takeover, Close, Disarm, Revoked, Tick, StopRelease, OnlyStop, caller, history, vars
    <2> QED BY <1>0, <2>1, AnsweringKept
  <1> QED BY <1>1, <1>2, <1>4, <1>5, <1>6, <1>7, <1>8, <1>9, <1>10 DEF Next, CallerStep, WorkerStep

-----------------------------------------------------------------------------
(* The refinement, one kind of step at a time.                             *)

\* Nothing in view changes, except that the service may end.
LEMMA LeaseRests ==
  ASSUME TypeOK, [Next]_vars, UNCHANGED <<active, Cleared, applied, verdict>>
  PROVE  [Lease!LeaseNext]_(Lease!leaseVars)
  <1>1. gstate' = READY => gstate = READY
    BY StaysOutStep DEF StaysOut, vars, gate
  <1>2. CASE (gstate' = READY) = (gstate = READY)
    BY <1>2 DEF Lease!leaseVars
  <1>3. CASE gstate' # READY
    BY <1>3 DEF Lease!LeaseNext, Lease!EndService
  <1> QED BY <1>1, <1>2, <1>3

\* While a live worker is elsewhere, or none lives, nobody is cleared.
LEMMA NotCleared ==
  ASSUME TypeOK, FlightInv
  PROVE  /\ \A p \in Primitives : wpc[p] \in WorkerLive \ {"enter"} => ~Cleared
         /\ \A c \in Callers : cpc[c] = "starting" => ~Cleared
         /\ active = NoOne => ~Cleared
  BY GatewayAssumption DEF GatewayAssumption, FlightInv, LiveIsActive, StartingIsActive, Cleared, WorkerLive

LEMMA LeaseTakes ==
  ASSUME TypeOK, FlightInv, LedgerInv, Counted, Settled, HandedAnswered, NEW c \in Callers,
         NEW p \in Primitives, NEW t \in Readings, NEW poseOk \in BOOLEAN,
         AtHead(p), RunGate(p, t, poseOk) = "OK", Register(c, p, t),
         (execLock = NoOne /\ cpc[c] = "idle") \/ (execLock = c /\ cpc[c] = "expected")
  PROVE  Lease!Take(p)
  <1>1. gstate = READY /\ SessionGate(t) = "OK"
    BY GatesShut DEF RunGate
  <1>2. active = NoOne
    BY <1>1 DEF RunGate
  <1>3. /\ p \in Honoured /\ verdict[p] = Unset /\ SequenceOf[p] = nextSequence - Len(queue)
        /\ Len(queue) > 0
    BY TakenInPlace DEF AtHead, TypeOK, GateTypes
  <1>4. Due = 0
    BY <1>1 DEF Settled, DueIsRight
  <1>5. /\ applied \in Seq(Primitives) /\ FirstSequence \in Nat /\ MaxPrimitives \in Nat
        /\ Cardinality(seen) \in Nat /\ nextSequence \in Nat /\ Len(queue) \in Nat
        /\ Len(applied) \in Nat
    BY FS_CardinalityType, GatewayAssumption
    DEF Counted, TypeOK, WorkerTypes, GateTypes, GatewayAssumption
  <1>6. SequenceOf[p] = FirstSequence + Len(applied)
    BY <1>3, <1>4, <1>5 DEF Due
  <1>7. Len(applied) < MaxPrimitives
    BY <1>3, <1>5, <1>6 DEF Counted
  <1>8. \A d \in Callers : cpc[d] \notin Answering
    BY NobodyWaits DEF Answering, Waiting
  <1>9. \A q \in Lease!Handed : verdict[q] = "EXECUTED"
    BY <1>1, <1>8 DEF HandedAnswered
  <1>10. active' = p /\ UNCHANGED <<gstate, applied, verdict, Cleared>>
    BY DEF Register, history, Cleared
  <1> QED BY <1>1, <1>2, <1>3, <1>6, <1>7, <1>9, <1>10 DEF Lease!Take

LEMMA LeaseClears ==
  ASSUME TypeOK, FlightInv, Coming, InOrderOnce, [Next]_vars, NEW p \in Primitives, WorkerGate(p)
  PROVE  [Lease!LeaseNext]_(Lease!leaseVars)
  <1>0. /\ wpc[p] = "gate" /\ active = p /\ active # NoOne
        /\ UNCHANGED <<gstate, active, applied, verdict>>
        /\ wpc \in [Primitives -> WorkerLive \cup {"none", "done"}]
    BY GatewayAssumption
    DEF GatewayAssumption, WorkerGate, gate, OnlyWorker, FlightInv, LiveIsActive, WorkerLive,
        TypeOK, WorkerTypes
  <1>1. ~Cleared
    BY <1>0, NotCleared DEF WorkerLive
  <1>2. CASE \E t : StartGate(p, t) = "OK" /\ wpc' = [wpc EXCEPT ![p] = "enter"]
    <2>1. gstate = READY
      BY <1>2, GatesShut
    <2>2. Cleared'
      BY <1>0, <1>2 DEF Cleared
    <2>3. p \notin Lease!Handed
      <3>1. SequenceOf[p] = FirstSequence + Len(applied)
        BY <1>0 DEF Coming, NextInLine
      <3>2. \A i \in 1..Len(applied) : SequenceOf[applied[i]] = FirstSequence + i - 1
        BY DEF InOrderOnce
      <3>3. applied \in Seq(Primitives) /\ FirstSequence \in Nat
        BY GatewayAssumption DEF TypeOK, WorkerTypes, GatewayAssumption
      <3> QED BY <3>1, <3>2, <3>3 DEF Lease!Handed
    <2>4. Lease!Clear
      BY <1>0, <1>1, <2>1, <2>2, <2>3 DEF Lease!Clear
    <2> QED BY <2>4 DEF Lease!LeaseNext
  <1>3. CASE wpc' = [wpc EXCEPT ![p] = "leaving"]
    <2>1. UNCHANGED Cleared
      BY <1>0, <1>1, <1>3 DEF Cleared
    <2> QED BY <1>0, <2>1, LeaseRests
  <1> QED BY <1>2, <1>3 DEF WorkerGate

LEMMA LeaseHandsOver ==
  ASSUME TypeOK, FlightInv, NEW p \in Primitives, SinkEnter(p)
  PROVE  Lease!HandOver
  <1>1. /\ wpc[p] = "enter" /\ active = p /\ wpc' = [wpc EXCEPT ![p] = "apply"]
        /\ applied' = Append(applied, active) /\ UNCHANGED <<gstate, active, verdict>>
        /\ wpc \in [Primitives -> WorkerLive \cup {"none", "done"}]
    BY DEF SinkEnter, gate, OnlyWorker, FlightInv, LiveIsActive, WorkerLive, TypeOK, WorkerTypes
  <1>2. \A q \in Primitives : q # p => wpc[q] # "enter"
    BY <1>1 DEF FlightInv, LiveIsActive, WorkerLive
  <1>3. Cleared /\ Cleared' = FALSE
    BY <1>1, <1>2 DEF Cleared
  <1> QED BY <1>1, <1>3 DEF Lease!HandOver

\* A worker elsewhere than at the sink's door moves, and its invocation stays.
LEMMA LeaseWorks ==
  ASSUME TypeOK, FlightInv, [Next]_vars, NEW p \in Primitives,
         SinkPress(p) \/ SinkExit(p) \/ FinalRelease(p)
  PROVE  [Lease!LeaseNext]_(Lease!leaseVars)
  <1>1. /\ wpc[p] \in WorkerLive \ {"enter"} /\ UNCHANGED <<active, applied, verdict>>
        /\ \E l \in {"held", "leaving", "dereg"} : wpc' = [wpc EXCEPT ![p] = l]
    BY DEF SinkPress, SinkExit, FinalRelease, OnlyWorker, WorkerLive
  <1>2. ~Cleared
    BY <1>1, NotCleared
  <1>3. UNCHANGED Cleared
    BY <1>1, <1>2 DEF Cleared, TypeOK, WorkerTypes
  <1> QED BY <1>1, <1>3, LeaseRests

LEMMA LeaseLands ==
  ASSUME TypeOK, FlightInv,
         (\E p \in Primitives : Deregister(p)) \/ (\E c \in Callers : StartRaises(c))
  PROVE  Lease!Land
  <1>1. ASSUME NEW p \in Primitives, Deregister(p) PROVE Lease!Land
    <2>1. wpc[p] = "dereg" /\ active = p /\ active # NoOne /\ ~Cleared
      BY <1>1, NotCleared, GatewayAssumption
      DEF Deregister, GatewayAssumption, FlightInv, LiveIsActive, WorkerLive
    <2>2. active' = NoOne /\ UNCHANGED <<gstate, applied, verdict>>
      BY <1>1, <2>1 DEF Deregister, gate, OnlyWorker
    <2>3. UNCHANGED Cleared
      BY <1>1, <2>1 DEF Deregister, Cleared, TypeOK, WorkerTypes
    <2> QED BY <2>1, <2>2, <2>3 DEF Lease!Land
  <1>2. ASSUME NEW c \in Callers, StartRaises(c) PROVE Lease!Land
    <2>1. cpc[c] = "starting" /\ active = cprim[c] /\ cprim[c] \in Primitives /\ ~Cleared
      BY <1>2, NotCleared DEF StartRaises, FlightInv, StartingIsActive, TypeOK, CallTypes
    <2>2. active' = NoOne /\ UNCHANGED <<gstate, applied, verdict, wpc>>
      BY <1>2, <2>1 DEF StartRaises, OnlyCaller, gate, history
    <2> QED BY <2>1, <2>2, GatewayAssumption DEF Lease!Land, GatewayAssumption, Cleared
  <1> QED BY <1>1, <1>2

\* An answer other than EXECUTED, by a gateway that is not READY afterwards.
LEMMA LeaseRefuses ==
  ASSUME TypeOK, NEW p \in Primitives, verdict[p] = Unset, NEW s \in Failures,
         verdict' = [verdict EXCEPT ![p] = s], gstate' # READY,
         UNCHANGED <<active, wpc, applied>>
  PROVE  Lease!LeaseNext
  <1>1. Lease!Refuse(p, s)
    BY DEF Lease!Refuse, Cleared
  <1> QED BY <1>1 DEF Lease!LeaseNext

\* A call that commits while the gateway is READY has nothing in flight.
LEMMA CommitsGrounded ==
  ASSUME TypeOK, FlightInv, Attended, ActiveIsBusy, NEW c \in Callers, cpc[c] = "commit",
         gstate = READY
  PROVE  active = NoOne
  <1>1. execLock = c /\ c # NoOne
    BY GatewayAssumption DEF GatewayAssumption, FlightInv, InsideHoldsLock
  <1>2. \A d \in Callers : cpc[d] \notin Waiting \cup {"failing", "starting"}
    BY <1>1 DEF FlightInv, InsideHoldsLock, Waiting
  <1>3. active # NoOne => active \in Primitives
    BY DEF TypeOK, GateTypes
  <1> QED BY <1>2, <1>3 DEF ActiveIsBusy, Attended

LEMMA LeaseCommits ==
  ASSUME TypeOK, FlightInv, LedgerInv, Attended, Entitled, ShutInv, AppliedIsHanded, ActiveIsBusy,
         NEW c \in Callers, Commit(c)
  PROVE  Lease!LeaseNext
  <1>1. /\ cprim[c] \in Primitives /\ verdict[cprim[c]] = Unset /\ cpc[c] = "commit"
        /\ verdict' = [verdict EXCEPT ![cprim[c]] = CommitStatus(c)]
        /\ UNCHANGED <<active, wpc, applied>>
    BY DEF Commit, worker, LedgerInv, Unanswered, TypeOK, CallTypes
  <1>2. CASE gstate' = READY
    <2>1. CommitStatus(c) = "EXECUTED" /\ gstate = READY
      BY <1>2, CommitsReady DEF gate
    <2>2. active = NoOne
      BY <1>1, <2>1, CommitsGrounded
    <2>3. cprim[c] \in Lease!Handed
      BY <1>1 DEF Entitled, EndedWell, AppliedIsHanded
    <2>4. Lease!Succeed(cprim[c])
      BY <1>1, <1>2, <2>1, <2>2, <2>3 DEF Lease!Succeed, Cleared
    <2> QED BY <1>1, <2>4 DEF Lease!LeaseNext
  <1>3. CASE gstate' # READY
    <2>1. CommitStatus(c) # "EXECUTED"
      <3>1. SUFFICES ASSUME CommitStatus(c) = "EXECUTED" PROVE FALSE
        OBVIOUS
      <3>2. CancellationStatus # "EXECUTED"
        BY CancellationIsFailure DEF TypeOK, GateTypes, FlagTypes, Failures
      <3>3. released[c] /\ ~(cancelled \/ epochMoved \/ gstate # READY)
        BY <3>1, <3>2 DEF CommitStatus
      <3>4. UNCHANGED gate
        BY <3>1, <3>3 DEF Commit
      <3> QED BY <1>3, <3>3, <3>4 DEF gate
    <2>2. CommitStatus(c) \in Failures
      BY <2>1, CommitStatusKnown
    <2> QED BY <1>1, <1>3, <2>2, LeaseRefuses
  <1> QED BY <1>2, <1>3

LEMMA LeaseRuns ==
  ASSUME TypeOK, FlightInv, LedgerInv, Counted, Settled, HandedAnswered, NEW c \in Callers,
         NEW p \in Primitives, AtHead(p), RunHead(c, p),
         (execLock = NoOne /\ cpc[c] = "idle") \/ (execLock = c /\ cpc[c] = "expected")
  PROVE  Lease!LeaseNext
  <1>1. ASSUME NEW t \in Readings, NEW poseOk \in BOOLEAN, RunGate(p, t, poseOk) = "OK",
               Register(c, p, t)
        PROVE  Lease!LeaseNext
    BY <1>1, LeaseTakes DEF Lease!LeaseNext
  <1>2. ASSUME NEW t \in Readings, NEW poseOk \in BOOLEAN, RunGate(p, t, poseOk) # "OK",
               Refuse(c, p, RunGate(p, t, poseOk))
        PROVE  Lease!LeaseNext
    <2>1. verdict[p] = Unset
      BY TakenInPlace DEF AtHead
    <2>2. PICK ok : verdict' = [verdict EXCEPT ![p] = Published(RunGate(p, t, poseOk), ok)]
      BY <1>2 DEF Refuse
    <2>3. Published(RunGate(p, t, poseOk), ok) \in Failures
      BY <1>2, RunGateStatus DEF Published, Failures
    <2>4. gstate' # READY /\ UNCHANGED wpc
      BY <1>2, RefuseLeaves
    <2>5. UNCHANGED <<active, applied>>
      BY <1>2 DEF Refuse
    <2> QED BY <2>1, <2>2, <2>3, <2>4, <2>5, LeaseRefuses
  <1> QED BY <1>1, <1>2 DEF RunHead

LEMMA LeaseFails ==
  ASSUME TypeOK, LedgerInv, FailedIsOut, FailureKnown, NEW c \in Callers, FailRelease(c)
  PROVE  Lease!LeaseNext
  <1>1. /\ cprim[c] \in Primitives /\ verdict[cprim[c]] = Unset /\ cpc[c] = "failRelease"
        /\ UNCHANGED <<active, wpc, applied>>
    BY DEF FailRelease, worker, LedgerInv, Unanswered, TypeOK, CallTypes
  <1>2. gstate' # READY
    BY <1>1, ReleaseLeaves, ReleaseOutcomesAreFlags DEF FailRelease, FailedIsOut
  <1>3. PICK ok : verdict' = [verdict EXCEPT ![cprim[c]] = Published(cfailure[c], ok)]
    BY DEF FailRelease
  <1>4. Published(cfailure[c], ok) \in Failures
    BY <1>1 DEF Published, FailureKnown, Failures
  <1> QED BY <1>1, <1>2, <1>3, <1>4, LeaseRefuses

\* What the refinement needs of the gateway.
LeaseInv == ShutInv /\ RefusalInv /\ AppliedIsHanded /\ ActiveIsBusy /\ HandedAnswered

LEMMA LeaseInvInit == Init => LeaseInv
  BY GatewayAssumption
  DEF Unset, Init, GatewayAssumption, LeaseInv, ShutInv, EpochShut, CancelShut, RefusalInv, RejectedKnown,
      FailureKnown, AppliedIsHanded, ActiveIsBusy, HandedAnswered, Lease!Handed

LEMMA LeaseInvStep ==
  TypeOK /\ FlightInv /\ OrderInv /\ LeaseInv /\ [Next]_vars => LeaseInv'
  BY ShutStep, RefusalStep, AppliedStep, BusyStep, AnsweredStep DEF LeaseInv, OrderInv, Pace

LEMMA LeaseStep ==
  TypeOK /\ FlightInv /\ LedgerInv /\ OrderInv /\ Entitled /\ LeaseInv /\ [Next]_vars
    => [Lease!LeaseNext]_(Lease!leaseVars)
  <1> SUFFICES ASSUME TypeOK, FlightInv, LedgerInv, OrderInv, Entitled, LeaseInv, [Next]_vars
               PROVE  [Lease!LeaseNext]_(Lease!leaseVars)
    OBVIOUS
  <1>0. /\ Counted /\ Coming /\ Attended /\ FailedIsOut /\ Settled /\ InOrderOnce
        /\ ShutInv /\ FailureKnown /\ AppliedIsHanded /\ ActiveIsBusy /\ HandedAnswered
    BY DEF OrderInv, Pace, LeaseInv, RefusalInv
  <1>1. ASSUME UNCHANGED <<active, wpc, applied, verdict>>
        PROVE  [Lease!LeaseNext]_(Lease!leaseVars)
    BY <1>1, LeaseRests DEF Cleared
  <1>2. ASSUME NEW p \in Primitives, Enqueue(p) \/ \E c \in Callers : Execute(c, p)
        PROVE  [Lease!LeaseNext]_(Lease!leaseVars)
    BY <1>1, <1>2 DEF Enqueue, Execute, worker, history
  <1>3. ASSUME NEW p \in Primitives, WorkerStep(p) PROVE [Lease!LeaseNext]_(Lease!leaseVars)
    <2>1. CASE SinkEnter(p)
      BY <2>1, LeaseHandsOver DEF Lease!LeaseNext
    <2>2. CASE Deregister(p)
      BY <2>2, LeaseLands DEF Lease!LeaseNext
    <2> QED BY <1>0, <1>3, <2>1, <2>2, LeaseClears, LeaseWorks DEF WorkerStep
  <1>4. ASSUME NEW c \in Callers, RunNext(c) PROVE [Lease!LeaseNext]_(Lease!leaseVars)
    <2>1. PICK p \in Primitives : p = Head(queue)
      BY <1>4 DEF RunNext, TypeOK, GateTypes
    <2>2. AtHead(p) /\ RunHead(c, p) /\ execLock = NoOne /\ cpc[c] = "idle"
      BY <1>4, <2>1 DEF RunNext, AtHead
    <2> QED BY <1>0, <2>2, LeaseRuns
  <1>5. ASSUME NEW c \in Callers, RunExpected(c) PROVE [Lease!LeaseNext]_(Lease!leaseVars)
    <2>1. cpc[c] = "expected" /\ AtHead(cprim[c]) /\ RunHead(c, cprim[c])
      BY <1>5 DEF RunExpected, AtHead
    <2>2. execLock = c /\ cprim[c] \in Primitives
      BY <2>1 DEF FlightInv, InsideHoldsLock, TypeOK, CallTypes
    <2> QED BY <1>0, <2>1, <2>2, LeaseRuns
  <1>6. ASSUME NEW c \in Callers, StartRaises(c) \/ FailRelease(c) \/ Commit(c)
        PROVE  [Lease!LeaseNext]_(Lease!leaseVars)
    <2>1. CASE StartRaises(c)
      BY <2>1, LeaseLands DEF Lease!LeaseNext
    <2> QED BY <1>0, <1>6, <2>1, LeaseFails, LeaseCommits
  <1>7. ASSUME NEW c \in Callers, StartWorker(c) PROVE [Lease!LeaseNext]_(Lease!leaseVars)
    <2>1. ~Cleared /\ wpc' = [wpc EXCEPT ![cprim[c]] = "gate"]
      BY <1>7, NotCleared DEF StartWorker
    <2>2. UNCHANGED Cleared
      BY <2>1 DEF Cleared, TypeOK, WorkerTypes
    <2> QED BY <1>7, <2>2, LeaseRests DEF StartWorker, OnlyCaller, history
  <1>8. ASSUME NEW c \in Callers,
               \/ QueueCleared(c) \/ ClearedStatus(c) \/ StartResolved(c) \/ WatchdogFires(c)
               \/ Completion(c) \/ Fail(c) \/ ReleaseAfterApply(c)
        PROVE  [Lease!LeaseNext]_(Lease!leaseVars)
    BY <1>1, <1>8 DEF QueueCleared, ClearedStatus, StartResolved, WatchdogFires, Completion, Fail,
                      ReleaseAfterApply, OnlyCaller, worker, history
  <1>9. CASE Takeover \/ Close \/ Disarm \/ Revoked \/ Tick \/ (\E s \in Stops : StopRelease(s))
             \/ UNCHANGED vars
    BY <1>1, <1>9 DEF Takeover, Close, Disarm, Revoked, Tick, StopRelease, OnlyStop, worker, history,
                      vars
  <1> QED BY <1>2, <1>3, <1>4, <1>5, <1>6, <1>7, <1>8, <1>9 DEF Next, CallerStep

LEMMA LeaseHolds == Spec => []LeaseInv
  BY LeaseInvInit, LeaseInvStep, LedgerHolds, OrderHolds, PTL DEF Spec

\* gateway.py serves its lease as ExecutionLease says: one primitive at a time,
\* in sequence order, the next one only after everything handed to the sink was
\* EXECUTED, one final result each, and nothing once another result was given.
THEOREM GatewayImplementsLease == Spec => ImplementsLease
  <1>1. Init => Lease!LeaseInit
    BY DEF Init, Lease!LeaseInit, Cleared
  <1> QED
    BY <1>1, LeaseStep, LeaseHolds, EntitledHolds, LedgerHolds, OrderHolds, PTL
    DEF Spec, ImplementsLease, Lease!LeaseSpec

\* What keeps the abstract lease in turn: while a primitive in flight has not
\* been handed over, everything that was is EXECUTED.
InTurn ==
  /\ Cleared => active # NoOne /\ active \notin Lease!Handed
  /\ active # NoOne /\ active \notin Lease!Handed => \A q \in Lease!Handed : verdict[q] = "EXECUTED"
  /\ Lease!OnlyTheLastFails

LEMMA InTurnStep ==
  TypeOK /\ InTurn /\ [Lease!LeaseNext]_(Lease!leaseVars) => InTurn'
  <1> SUFFICES ASSUME TypeOK, InTurn, [Lease!LeaseNext]_(Lease!leaseVars) PROVE InTurn'
    OBVIOUS
  <1>0. applied \in Seq(Primitives) /\ verdict \in [Primitives -> Failures \cup {"EXECUTED", "OK", Unset}]
    BY DEF TypeOK, WorkerTypes, CallTypes
  <1>1. ASSUME NEW p \in Primitives, Lease!Take(p) PROVE InTurn'
    <2>1. ~Cleared /\ UNCHANGED <<Cleared, applied, verdict>> /\ active' = p
          /\ \A q \in Lease!Handed : verdict[q] = "EXECUTED"
      BY <1>1 DEF Lease!Take, InTurn
    <2> QED BY <2>1 DEF InTurn, Lease!Handed, Lease!OnlyTheLastFails
  <1>2. CASE Lease!Clear
    BY <1>2 DEF Lease!Clear, InTurn, Lease!Handed, Lease!OnlyTheLastFails
  <1>3. CASE Lease!HandOver
    <2>1. Cleared /\ ~Cleared' /\ applied' = Append(applied, active) /\ UNCHANGED <<active, verdict>>
      BY <1>3 DEF Lease!HandOver
    <2>2. \A q \in Lease!Handed : verdict[q] = "EXECUTED"
      BY <2>1 DEF InTurn
    <2>3. active \in Primitives
      BY <2>1 DEF InTurn, TypeOK, GateTypes
    <2>4. Lease!Handed' = Lease!Handed \cup {active}
      BY <2>1, <2>3, HandedGrows
    <2>5. Lease!OnlyTheLastFails'
      <3>1. \A i \in 1..Len(applied') - 1 : i \in 1..Len(applied) /\ applied'[i] = applied[i]
        BY <1>0, <2>1, <2>3
      <3> QED BY <2>1, <2>2, <3>1 DEF Lease!OnlyTheLastFails, Lease!Handed
    <2> QED BY <2>1, <2>4, <2>5 DEF InTurn
  <1>4. CASE Lease!Land
    BY <1>4 DEF Lease!Land, InTurn, Lease!Handed, Lease!OnlyTheLastFails
  <1>5. ASSUME NEW p \in Primitives, NEW s, verdict[p] = Unset, verdict' = [verdict EXCEPT ![p] = s],
               UNCHANGED <<active, Cleared, applied>>
        PROVE  InTurn'
    <2>1. \A q \in Primitives : verdict[q] = "EXECUTED" => verdict'[q] = "EXECUTED"
      BY <1>0, <1>5 DEF Unset
    <2>2. \A i \in 1..Len(applied) : applied[i] \in Primitives
      BY <1>0
    <2> QED BY <1>5, <2>1, <2>2 DEF InTurn, Lease!Handed, Lease!OnlyTheLastFails
  <1>6. ASSUME NEW p \in Primitives, Lease!Succeed(p) PROVE InTurn'
    BY <1>5, <1>6 DEF Lease!Succeed
  <1>7. ASSUME NEW p \in Primitives, NEW s \in Failures, Lease!Refuse(p, s) PROVE InTurn'
    BY <1>5, <1>7 DEF Lease!Refuse
  <1>8. CASE Lease!EndService \/ UNCHANGED Lease!leaseVars
    BY <1>8 DEF Lease!EndService, Lease!leaseVars, InTurn, Lease!Handed, Lease!OnlyTheLastFails
  <1> QED BY <1>1, <1>2, <1>3, <1>4, <1>6, <1>7, <1>8 DEF Lease!LeaseNext

\* After a primitive that was not EXECUTED, for whatever reason and on whatever
\* thread, the sink gets nothing more: only the last primitive handed over can
\* have another result, or none yet. This follows from the lease alone.
THEOREM ServedInTurn == Spec => []Lease!OnlyTheLastFails
  <1>1. Init => InTurn
    BY DEF Init, InTurn, Cleared, Lease!Handed, Lease!OnlyTheLastFails
  <1>2. InTurn => Lease!OnlyTheLastFails
    BY DEF InTurn
  <1> QED
    BY <1>1, <1>2, InTurnStep, GatewayImplementsLease, TypeCorrect, PTL
    DEF Spec, ImplementsLease, Lease!LeaseSpec

-----------------------------------------------------------------------------
(* Stops last, unless a release fails: what is true of ClosedIsTerminal.    *)

\* A commit that will fault the gateway, stopped or not, has a failed release
\* behind it that is already latched.
ReleaseLatched == \A c \in Callers : cpc[c] = "commit" /\ ~released[c] => releaseFaulted

\* A takeover gives way to a close only, and neither gives way to anything but
\* a failed release.
Outlasts ==
  gstate \in Stopped =>
    \/ gstate' \in {gstate, CLOSED}
    \/ gstate' = FAULTED /\ releaseFaulted'

\* A latched failure stays latched.
LEMMA FaultLatched == TypeOK /\ [Next]_vars => (releaseFaulted => releaseFaulted')
  <1> SUFFICES ASSUME TypeOK, [Next]_vars, releaseFaulted PROVE releaseFaulted'
    OBVIOUS
  <1>1. \A ok \in BOOLEAN : FailClosed(ok) \/ ReleaseAll(ok) => releaseFaulted'
    BY DEF FailClosed, ReleaseAll, ReleaseSink
  <1>2. ASSUME UNCHANGED releaseFaulted PROVE releaseFaulted'
    BY <1>2
  <1>3. ASSUME NEW p, Enqueue(p) PROVE releaseFaulted'
    BY <1>1, <1>2, <1>3, ReleaseOutcomesAreFlags, Zenon DEF Enqueue
  <1>4. ASSUME NEW c, NEW p, Execute(c, p) PROVE releaseFaulted'
    BY <1>1, <1>2, <1>4, ReleaseOutcomesAreFlags, Zenon DEF Execute, Executable
  <1>5. ASSUME NEW c, NEW p, RunHead(c, p) PROVE releaseFaulted'
    BY <1>1, <1>2, <1>5, ReleaseOutcomesAreFlags, Zenon DEF RunHead, Refuse, Register
  <1>6. ASSUME NEW c, CallerStep(c), ~RunExpected(c) PROVE releaseFaulted'
    BY <1>1, <1>2, <1>6, ReleaseOutcomesAreFlags, Zenon
    DEF CallerStep, QueueCleared, ClearedStatus, StartWorker, StartRaises, StartResolved,
        WatchdogFires, Completion, Fail, FailRelease, ReleaseAfterApply, Commit, OnlyCaller
  <1>7. ASSUME NEW p, WorkerStep(p) PROVE releaseFaulted'
    BY <1>1, <1>2, <1>7, ReleaseOutcomesAreFlags, Zenon
    DEF WorkerStep, WorkerGate, SinkEnter, SinkPress, SinkExit, FinalRelease, Deregister
  <1>8. ASSUME Takeover \/ Close \/ Disarm \/ Revoked \/ Tick \/ \E s \in Stops : StopRelease(s)
        PROVE  releaseFaulted'
    BY <1>1, <1>2, <1>8, ReleaseOutcomesAreFlags, Zenon
    DEF Takeover, Close, Disarm, Revoked, Tick, StopRelease
  <1>9. CASE UNCHANGED vars
    BY <1>2, <1>9 DEF vars
  <1> QED
    BY <1>3, <1>4, <1>5, <1>6, <1>7, <1>8, <1>9 DEF Next, CallerStep, RunNext, RunExpected

\* A caller reaches its commit only through the release after the apply.
LEMMA LatchedStep == TypeOK /\ ReleaseLatched /\ [Next]_vars => ReleaseLatched'
  <1> SUFFICES ASSUME TypeOK, ReleaseLatched, [Next]_vars, NEW d \in Callers,
                      cpc'[d] = "commit", ~released'[d]
               PROVE  releaseFaulted'
    BY DEF ReleaseLatched
  <1>0. cpc \in [Callers -> CallerPcs] /\ released \in [Callers -> BOOLEAN]
    BY DEF TypeOK, CallTypes
  <1> DEFINE Rests == UNCHANGED <<cpc, released>>
  <1> DEFINE Elsewhere(c) == /\ \E l : l # "commit" /\ cpc' = [cpc EXCEPT ![c] = l]
                             /\ released' \in {released, [released EXCEPT ![c] = FALSE]}
  <1>1. ASSUME Rests PROVE releaseFaulted'
    BY <1>1, FaultLatched DEF ReleaseLatched
  <1>2. ASSUME NEW c \in Callers, Elsewhere(c) PROVE releaseFaulted'
    BY <1>0, <1>2, FaultLatched DEF ReleaseLatched
  <1>3. ASSUME NEW c \in Callers, Finish(c) PROVE Elsewhere(c)
    BY <1>3, Zenon DEF Finish
  <1>4. ASSUME NEW p, Enqueue(p) PROVE Rests
    BY <1>4 DEF Enqueue, caller
  <1>5. ASSUME NEW c \in Callers, NEW p, Execute(c, p) PROVE Rests \/ Elsewhere(c)
    BY <1>5 DEF Execute, caller
  <1>6. ASSUME NEW c \in Callers, NEW p, RunHead(c, p) PROVE Elsewhere(c)
    BY <1>3, <1>6 DEF RunHead, Register, Refuse
  <1>7. ASSUME NEW c \in Callers,
               \/ QueueCleared(c) \/ ClearedStatus(c) \/ StartWorker(c) \/ StartRaises(c)
               \/ StartResolved(c) \/ WatchdogFires(c) \/ Completion(c) \/ Fail(c)
        PROVE  Elsewhere(c)
    BY <1>7 DEF QueueCleared, ClearedStatus, StartWorker, StartRaises, StartResolved,
                WatchdogFires, Completion, Fail, Abandon, OnlyCaller
  <1>8. ASSUME NEW c \in Callers, FailRelease(c) \/ Commit(c) PROVE Elsewhere(c)
    BY <1>3, <1>8 DEF FailRelease, Commit
  <1>9. ASSUME NEW c \in Callers, ReleaseAfterApply(c) PROVE releaseFaulted'
    <2>1. PICK ok \in ReleaseOutcomes : ReleaseAll(ok) /\ released' = [released EXCEPT ![c] = ok]
      BY <1>9 DEF ReleaseAfterApply
    <2>2. CASE d = c
      BY <1>0, <2>1, <2>2 DEF ReleaseAll, ReleaseSink
    <2>3. CASE d # c
      <3>1. cpc'[d] = cpc[d] /\ released'[d] = released[d]
        BY <1>0, <1>9, <2>1, <2>3 DEF ReleaseAfterApply
      <3> QED BY <3>1, FaultLatched DEF ReleaseLatched
    <2> QED BY <2>2, <2>3
  <1>10. ASSUME NEW p, WorkerStep(p) PROVE Rests
    BY <1>10 DEF WorkerStep, WorkerGate, SinkEnter, SinkPress, SinkExit, FinalRelease,
                 Deregister, OnlyWorker, caller
  <1>11. ASSUME Takeover \/ Close \/ Disarm \/ Revoked \/ Tick \/ \E s \in Stops : StopRelease(s)
         PROVE  Rests
    BY <1>11 DEF Takeover, Close, Disarm, Revoked, Tick, StopRelease, OnlyStop, caller
  <1>12. CASE UNCHANGED vars
    BY <1>1, <1>12 DEF vars, caller
  <1> QED
    BY <1>1, <1>2, <1>4, <1>5, <1>6, <1>7, <1>8, <1>9, <1>10, <1>11, <1>12
    DEF Next, CallerStep, RunNext, RunExpected

\* Of all the ways to fail, only a release that failed leaves a stopped state.
LEMMA OutlastsStep == TypeOK /\ ReleaseLatched /\ [Next]_vars => [Outlasts]_vars
  <1> SUFFICES ASSUME TypeOK, ReleaseLatched, [Next]_vars, gstate \in Stopped
               PROVE  \/ gstate' \in {gstate, CLOSED}
                      \/ gstate' = FAULTED /\ releaseFaulted'
    BY DEF Outlasts
  <1> DEFINE Out == gstate' \in {gstate, CLOSED} \/ (gstate' = FAULTED /\ releaseFaulted')
  <1>0. Faulted(gstate) = gstate
    BY DEF Faulted
  <1>1. ASSUME UNCHANGED gstate PROVE Out
    BY <1>1
  <1>2. ASSUME NEW ok \in BOOLEAN, FailClosed(ok) \/ ReleaseAll(ok) PROVE Out
    BY <1>0, <1>2 DEF FailClosed, ReleaseAll, ReleaseSink, AfterRelease
  <1>3. ASSUME NEW p, Enqueue(p) PROVE Out
    BY <1>1, <1>2, <1>3, ReleaseOutcomesAreFlags, Zenon DEF Enqueue
  <1>4. ASSUME NEW c, NEW p, Execute(c, p) PROVE Out
    BY <1>1, <1>2, <1>4, ReleaseOutcomesAreFlags, Zenon DEF Execute, Executable
  <1>5. ASSUME NEW c, NEW p, RunHead(c, p) PROVE Out
    BY <1>1, <1>2, <1>5, ReleaseOutcomesAreFlags, Zenon DEF RunHead, Refuse, Register
  <1>6. ASSUME NEW c,
               \/ QueueCleared(c) \/ ClearedStatus(c) \/ StartWorker(c) \/ StartRaises(c)
               \/ StartResolved(c) \/ WatchdogFires(c) \/ Completion(c)
        PROVE  Out
    BY <1>1, <1>6 DEF QueueCleared, ClearedStatus, StartWorker, StartRaises, StartResolved,
                      WatchdogFires, Completion, OnlyCaller, gate
  <1>7. ASSUME NEW c, Fail(c) PROVE Out
    BY <1>0, <1>7 DEF Fail, FailLocked
  <1>8. ASSUME NEW c, FailRelease(c) \/ ReleaseAfterApply(c) PROVE Out
    BY <1>2, <1>8, ReleaseOutcomesAreFlags, Zenon DEF FailRelease, ReleaseAfterApply
  <1>9. ASSUME NEW c \in Callers, Commit(c) PROVE Out
    <2>1. CASE released[c]
      <3>1. gstate # READY
        BY FailureStates DEF Stopped
      <3>2. UNCHANGED gate
        BY <1>9, <2>1, <3>1, Zenon DEF Commit
      <3> QED BY <1>1, <3>2 DEF gate
    <2>2. CASE ~released[c]
      <3>1. releaseFaulted /\ gstate' = FAULTED /\ releaseFaulted' = releaseFaulted
        BY <1>9, <2>2 DEF Commit, ReleaseLatched
      <3> QED BY <3>1
    <2> QED BY <2>1, <2>2
  <1>10. ASSUME NEW p, WorkerStep(p) PROVE Out
    BY <1>1, <1>2, <1>10, ReleaseOutcomesAreFlags, Zenon
    DEF WorkerStep, WorkerGate, SinkEnter, SinkPress, SinkExit, FinalRelease, Deregister, gate
  <1>11. CASE Takeover
    BY <1>11 DEF Takeover, Stopped, gate
  <1>12. CASE Close \/ Disarm \/ Revoked \/ Tick
    BY <1>0, <1>12 DEF Close, Disarm, Revoked, Tick, gate
  <1>13. ASSUME NEW s \in Stops, StopRelease(s) PROVE Out
    BY <1>2, <1>13, ReleaseOutcomesAreFlags, Zenon DEF StopRelease
  <1>14. CASE UNCHANGED vars
    BY <1>1, <1>14 DEF vars, gate
  <1> QED
    BY <1>3, <1>4, <1>5, <1>6, <1>7, <1>8, <1>9, <1>10, <1>11, <1>12, <1>13, <1>14
    DEF Next, CallerStep, RunNext, RunExpected

\* A takeover is followed by a close at most and a close by nothing, on whatever
\* thread the calls in flight fail, but for a release of the sink that raised, and
\* that is latched: the only way ClosedIsTerminal is ever broken.
THEOREM StopsLast == Spec => [][Outlasts]_vars
  <1>1. Init => ReleaseLatched
    BY DEF Init, ReleaseLatched
  <1>2. TypeOK /\ ReleaseLatched /\ [Next]_vars => (TypeOK /\ ReleaseLatched)'
    BY TypeStep, LatchedStep
  <1> QED BY <1>1, <1>2, InitType, OutlastsStep, PTL DEF Spec

-----------------------------------------------------------------------------
(* Progress: a call goes round in no circle. What CallsReturn adds is that  *)
(* its thread goes on; that every step of it gets nearer the end, whatever  *)
(* the other threads do, is proved here.                                    *)

\* The steps a call has before it at most, whichever way its gates, its worker
\* and its releases go.
StepsLeft(at) ==
  CASE at = "expected" -> 8
    [] at = "starting" -> 7
    [] at = "waitStart" -> 6
    [] at \in {"waitRejected", "waitApply"} -> 5
    [] at = "release" -> 4
    [] at \in {"commit", "cleared"} -> 3
    [] at = "failing" -> 2
    [] at = "failRelease" -> 1
    [] at = "idle" -> 0

Nearer(c) == StepsLeft(cpc'[c]) < StepsLeft(cpc[c])

NoCircle ==
  \A c \in Callers :
    /\ CallerStep(c) => Nearer(c)
    /\ cpc[c] # "idle" => UNCHANGED cpc[c] \/ Nearer(c)

LEMMA EndIsNearer ==
  ASSUME TypeOK, NEW c \in Callers, Finish(c), cpc[c] # "idle"
  PROVE  Nearer(c)
  <1>1. cpc[c] \in CallerPcs \ {"idle"} /\ cpc'[c] = "idle"
    BY DEF TypeOK, CallTypes, Finish
  <1> QED BY <1>1 DEF Nearer, StepsLeft, CallerPcs

LEMMA CallerIsNearer ==
  ASSUME TypeOK, NEW c \in Callers, CallerStep(c)
  PROVE  Nearer(c)
  <1>0. cpc \in [Callers -> CallerPcs]
    BY DEF TypeOK, CallTypes
  <1>1. CASE QueueCleared(c) \/ ClearedStatus(c)
    BY <1>0, <1>1 DEF QueueCleared, ClearedStatus, Nearer, StepsLeft
  <1>2. CASE RunExpected(c)
    <2>1. cpc[c] = "expected" /\ RunHead(c, cprim[c])
      BY <1>2 DEF RunExpected
    <2>2. Finish(c) \/ cpc' = [cpc EXCEPT ![c] = "starting"]
      BY <2>1, Zenon DEF RunHead, Register, Refuse
    <2>3. Finish(c) => Nearer(c)
      BY <2>1, EndIsNearer
    <2>4. cpc' = [cpc EXCEPT ![c] = "starting"] => Nearer(c)
      BY <1>0, <2>1 DEF Nearer, StepsLeft
    <2> QED BY <2>2, <2>3, <2>4
  <1>3. CASE StartWorker(c) \/ StartRaises(c)
    BY <1>0, <1>3 DEF StartWorker, StartRaises, Abandon, Nearer, StepsLeft
  <1>4. CASE StartResolved(c)
    BY <1>0, <1>4 DEF StartResolved, Nearer, StepsLeft
  <1>5. CASE WatchdogFires(c)
    BY <1>0, <1>5 DEF WatchdogFires, Abandon, Nearer, StepsLeft
  <1>6. CASE Completion(c)
    <2>1. cpc[c] \in {"waitRejected", "waitApply"} /\ cpc'[c] \in {"release", "failing"}
      BY <1>0, <1>6 DEF Completion
    <2> QED BY <2>1 DEF Nearer, StepsLeft
  <1>7. CASE Fail(c) \/ ReleaseAfterApply(c)
    BY <1>0, <1>7 DEF Fail, ReleaseAfterApply, Nearer, StepsLeft
  <1>8. CASE FailRelease(c) \/ Commit(c)
    <2>1. Finish(c) /\ cpc[c] # "idle"
      BY <1>8 DEF FailRelease, Commit
    <2> QED BY <2>1, EndIsNearer
  <1> QED
    BY <1>1, <1>2, <1>3, <1>4, <1>5, <1>6, <1>7, <1>8 DEF CallerStep

\* A step of one call, or of no call at all, leaves every other call where it is.
LEMMA OthersStay ==
  ASSUME TypeOK, [Next]_vars, NEW c \in Callers, cpc[c] # "idle", ~CallerStep(c)
  PROVE  UNCHANGED cpc[c]
  <1>0. cpc \in [Callers -> CallerPcs]
    BY DEF TypeOK, CallTypes
  <1>1. ASSUME NEW d \in Callers, d # c, Finish(d) PROVE UNCHANGED cpc[c]
    BY <1>0, <1>1 DEF Finish
  <1>2. ASSUME NEW p, Enqueue(p) \/ WorkerStep(p) PROVE UNCHANGED cpc[c]
    BY <1>2 DEF Enqueue, WorkerStep, WorkerGate, SinkEnter, SinkPress, SinkExit,
                FinalRelease, Deregister, OnlyWorker, caller
  <1>3. ASSUME NEW d \in Callers, NEW p, RunHead(d, p), d # c PROVE UNCHANGED cpc[c]
    BY <1>0, <1>1, <1>3 DEF RunHead, Register, Refuse
  <1>4. ASSUME NEW d \in Callers, CallerStep(d) PROVE UNCHANGED cpc[c]
    <2>0. d # c
      BY <1>4
    <2>1. CASE RunExpected(d)
      BY <2>0, <2>1, <1>3 DEF RunExpected
    <2>2. CASE FailRelease(d) \/ Commit(d)
      BY <2>0, <2>2, <1>1 DEF FailRelease, Commit
    <2>3. CASE QueueCleared(d) \/ ClearedStatus(d) \/ StartWorker(d) \/ StartRaises(d)
      BY <1>0, <2>0, <2>3 DEF QueueCleared, ClearedStatus, StartWorker, StartRaises, Abandon
    <2>4. CASE StartResolved(d) \/ WatchdogFires(d)
      BY <1>0, <2>0, <2>4 DEF StartResolved, WatchdogFires, Abandon
    <2>5. CASE Completion(d)
      BY <1>0, <2>0, <2>5 DEF Completion
    <2>6. CASE Fail(d) \/ ReleaseAfterApply(d)
      BY <1>0, <2>0, <2>6 DEF Fail, ReleaseAfterApply
    <2> QED
      BY <1>4, <2>1, <2>2, <2>3, <2>4, <2>5, <2>6 DEF CallerStep
  <1>5. ASSUME NEW d \in Callers, RunNext(d) PROVE UNCHANGED cpc[c]
    BY <1>3, <1>5 DEF RunNext
  <1>6. ASSUME NEW d \in Callers, NEW p, Execute(d, p) PROVE UNCHANGED cpc[c]
    <2>1. d # c
      BY <1>6 DEF Execute
    <2>2. cpc' = cpc \/ cpc' = [cpc EXCEPT ![d] = "expected"]
      BY <1>6 DEF Execute, caller
    <2> QED BY <1>0, <2>1, <2>2
  <1>7. CASE Takeover \/ Close \/ Disarm \/ Revoked
    BY <1>7 DEF Takeover, Close, Disarm, Revoked, OnlyStop, caller
  <1>8. ASSUME NEW s, StopRelease(s) PROVE UNCHANGED cpc[c]
    BY <1>8 DEF StopRelease, OnlyStop, caller
  <1>9. CASE Tick \/ UNCHANGED vars
    BY <1>9 DEF Tick, vars, caller
  <1> QED
    BY <1>2, <1>4, <1>5, <1>6, <1>7, <1>8, <1>9 DEF Next

\* A call into the gateway goes round in no circle: each of its steps brings it
\* nearer its return, and nothing that other callers, the worker, the watchdog or
\* a stop do takes it back, so that it is over after eight steps of its own.
THEOREM NoGatewayCallCircles == Spec => [][NoCircle]_vars
  <1>1. TypeOK /\ [Next]_vars => [NoCircle]_vars
    BY CallerIsNearer, OthersStay DEF NoCircle
  <1>2. TypeOK /\ [Next]_vars => TypeOK'
    BY TypeStep
  <1> QED BY <1>1, <1>2, InitType, PTL DEF Spec

=============================================================================
