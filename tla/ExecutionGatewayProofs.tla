----------------------- MODULE ExecutionGatewayProofs -----------------------
(***************************************************************************)
(* Theorems about ExecutionGateway, for every set of primitives and        *)
(* callers, every lease, every clock bound and every release behaviour.    *)
(*                                                                         *)
(* TypeOK is inductive; its proof has one lemma per part and, in each, one *)
(* step per action (or per group of actions that leave the part alone).    *)
(***************************************************************************)
EXTENDS ExecutionGateway, TLAPS

USE DEF READY, FAULTED, MANUAL_TAKEOVER, CLOSED, Unset

-----------------------------------------------------------------------------
(* What the gates and the failure paths return.                            *)

\* Every gate answers a failure status or "OK".
LEMMA SessionGateStatus ==
  ASSUME gstate \in States, armRevoked \in BOOLEAN, subscribed \in BOOLEAN
  PROVE  \A t : SessionGate(t) \in Failures \cup {"OK"}
  BY DEF SessionGate, Failures, States, Stopped

LEMMA CancellationIsFailure ==
  ASSUME gstate \in States, armRevoked \in BOOLEAN
  PROVE  CancellationStatus \in Failures
  BY DEF CancellationStatus, Failures, States, Stopped

LEMMA RunGateStatus ==
  ASSUME TypeOK, NEW p
  PROVE  \A t, poseOk : RunGate(p, t, poseOk) \in Failures \cup {"OK"}
  BY SessionGateStatus DEF RunGate, TypeOK, GateTypes, FlagTypes, Failures

LEMMA StartGateStatus ==
  ASSUME TypeOK, NEW p
  PROVE  \A t : StartGate(p, t) \in Failures \cup {"OK"}
  BY SessionGateStatus, CancellationIsFailure
  DEF StartGate, TypeOK, GateTypes, FlagTypes, Failures

LEMMA CommitStatusKnown ==
  ASSUME TypeOK, NEW c
  PROVE  CommitStatus(c) \in Failures \cup {"EXECUTED"}
  BY SessionGateStatus, CancellationIsFailure
  DEF CommitStatus, TypeOK, GateTypes, FlagTypes, Failures

\* The state algebra of the failure paths: none of them leads back to READY.
LEMMA FailureStates ==
  ASSUME NEW s \in States, NEW ok \in BOOLEAN
  PROVE  /\ Faulted(s) \in States \ {READY}
         /\ AfterRelease(s, ok) \in States
         /\ AfterRelease(Faulted(s), ok) \in States \ {READY}
         /\ s # READY => AfterRelease(s, ok) # READY
  BY DEF Faulted, AfterRelease, States, Stopped

LEMMA ReleaseOutcomesAreFlags == \A ok \in ReleaseOutcomes : ok \in BOOLEAN
  BY GatewayAssumption DEF GatewayAssumption

-----------------------------------------------------------------------------
(* Type correctness.                                                       *)

LEMMA InitType == Init => TypeOK
  <1> SUFFICES ASSUME Init PROVE TypeOK
    OBVIOUS
  <1> USE GatewayAssumption DEF GatewayAssumption
  <1>1. GateTypes
    BY DEF Init, States, GateTypes
  <1>2. FlagTypes
    BY DEF Init, FlagTypes
  <1>3. CallTypes
    BY DEF Init, CallTypes, CallerPcs, Failures
  <1>4. WorkerTypes
    BY SMTT(30) DEF Init, WorkerTypes, WorkerLive, Failures, Outcomes
  <1>5. StopTypes
    BY DEF Init, StopTypes, Stops
  <1> QED
    BY <1>1, <1>2, <1>3, <1>4, <1>5 DEF TypeOK


LEMMA RefusedGate ==
  ASSUME GateTypes, NEW ok, FailClosed(ok), UNCHANGED <<ledger, active>>
  PROVE  GateTypes'
  BY DEF GateTypes, FailClosed, AfterRelease, Faulted, Stopped, States, ledger

LEMMA AcceptedGate ==
  ASSUME GateTypes, NEW p \in Primitives, Accept(p), UNCHANGED <<gstate, active>>
  PROVE  GateTypes'
  BY DEF GateTypes, Accept


\* A call that ends, whatever status it publishes.
LEMMA FinishTypes ==
  ASSUME TypeOK, NEW c \in Callers, Finish(c), NEW q,
         NEW f \in Failures \cup {"EXECUTED", "OK", Unset},
         verdict' = [verdict EXCEPT ![q] = f]
  PROVE  CallTypes'
  BY GatewayAssumption DEF TypeOK, CallTypes, Finish, CallerPcs

LEMMA GateTypeStep == TypeOK /\ Next => GateTypes'
  <1> SUFFICES ASSUME TypeOK, Next PROVE GateTypes'
    OBVIOUS
  <1>1. ASSUME NEW p \in Primitives, Enqueue(p)
       PROVE  GateTypes'
    BY <1>1, RefusedGate, AcceptedGate, Zenon DEF Enqueue, ledger, TypeOK
  <1>2. ASSUME NEW p \in Primitives, WorkerGate(p) \/ SinkEnter(p) \/
               SinkPress(p) \/ SinkExit(p) \/ Deregister(p)
       PROVE  GateTypes'
    BY <1>2, GatewayAssumption DEF TypeOK, GateTypes, States, WorkerGate,
    SinkEnter, SinkPress, SinkExit, Deregister, OnlyWorker, gate, ledger,
    caller, sink, history
  <1>3. ASSUME NEW p \in Primitives, FinalRelease(p)
       PROVE  GateTypes'
    BY <1>3, ReleaseOutcomesAreFlags DEF TypeOK, GateTypes, States,
    FinalRelease, ReleaseAll, ReleaseSink, AfterRelease, OnlyWorker, gate,
    ledger, caller, sink, history
  <1>4. ASSUME NEW c \in Callers, NEW p \in Primitives, queue # <<>>,
               RunHead(c, p)
       PROVE  GateTypes'
    <2>1. CASE \E t \in Readings : Register(c, p, t)
      <3>1. /\ queue' = Tail(queue) /\ active' = p
            /\ UNCHANGED <<gstate, nextSequence, seen>>
        BY <1>4, <2>1 DEF RunHead, Register, ledger
      <3> QED
        BY <1>4, <3>1 DEF GateTypes, TypeOK
    <2>2. CASE \E f : Refuse(c, p, f)
      BY <1>4, <2>2, RefusedGate DEF RunHead, Refuse, ledger, TypeOK
    <2> QED
      BY <1>4, <2>1, <2>2 DEF RunHead
  <1>5. ASSUME NEW c \in Callers, QueueCleared(c) \/ ClearedStatus(c) \/
               StartWorker(c) \/ StartRaises(c) \/ StartResolved(c) \/
               WatchdogFires(c)
       PROVE  GateTypes'
    BY <1>5, GatewayAssumption DEF TypeOK, GateTypes, States, QueueCleared,
    ClearedStatus, OnlyCaller, Abandon, StartResolved, WatchdogFires,
    StartRaises, StartWorker, gate, ledger, worker, sink, history
  <1>7. ASSUME NEW c \in Callers, Completion(c)
       PROVE  GateTypes'
    BY <1>7, GatewayAssumption DEF TypeOK, GateTypes, States, Completion,
    OnlyCaller, gate, ledger, worker, sink, history
  <1>8. ASSUME NEW c \in Callers, Fail(c)
       PROVE  GateTypes'
    BY <1>8, GatewayAssumption DEF TypeOK, GateTypes, States, Fail,
    FailLocked, Faulted, Stopped, gate, ledger, worker, sink, history
  <1>9. ASSUME NEW c \in Callers, FailRelease(c)
       PROVE  GateTypes'
    BY <1>9, ReleaseOutcomesAreFlags DEF TypeOK, GateTypes, States,
    FailRelease, ReleaseAll, ReleaseSink, AfterRelease, Published, Finish,
    gate, ledger, worker, sink, history
  <1>10. ASSUME NEW c \in Callers, ReleaseAfterApply(c)
        PROVE  GateTypes'
    BY <1>10, GatewayAssumption, ReleaseOutcomesAreFlags DEF TypeOK,
    GateTypes, States, ReleaseAfterApply, ReleaseAll, ReleaseSink,
    AfterRelease, Readings, BadClock, gate, ledger, worker, sink, history
  <1>11. ASSUME NEW c \in Callers, Commit(c)
        PROVE  GateTypes'
    <2>1. gstate' \in {gstate, FAULTED} /\ queue' \in {queue, <<>>}
      BY <1>11, Zenon DEF Commit, gate
    <2>2. UNCHANGED <<nextSequence, seen, active>>
      BY <1>11 DEF Commit, ledger
    <2>3. <<>> \in Seq(Primitives)
      OBVIOUS
    <2> QED
      BY <2>1, <2>2, <2>3 DEF GateTypes, States, TypeOK
  <1>12. ASSUME NEW c \in Callers, NEW p \in Primitives, Execute(c, p)
        PROVE  GateTypes'
    BY <1>12, RefusedGate, AcceptedGate, Zenon DEF Execute, Executable, ledger, TypeOK
  <1>13. ASSUME Takeover
        PROVE  GateTypes'
    <2>1. gstate' \in {gstate, MANUAL_TAKEOVER} /\ queue' \in {queue, <<>>}
      BY <1>13, Zenon DEF Takeover, gate
    <2>2. UNCHANGED <<nextSequence, seen, active>>
      BY <1>13 DEF Takeover, OnlyStop, ledger
    <2>3. <<>> \in Seq(Primitives)
      OBVIOUS
    <2> QED
      BY <2>1, <2>2, <2>3 DEF GateTypes, States, TypeOK
  <1>14. ASSUME Close
        PROVE  GateTypes'
    BY <1>14, GatewayAssumption DEF TypeOK, GateTypes, States, Close,
    CancelActive, OnlyStop, gate, ledger, caller, sink, history
  <1>15. ASSUME Disarm
        PROVE  GateTypes'
    BY <1>15, GatewayAssumption DEF TypeOK, GateTypes, States, Disarm,
    OnlyStop, gate, ledger, caller, sink, history
  <1>16. ASSUME Revoked
        PROVE  GateTypes'
    BY <1>16, GatewayAssumption DEF TypeOK, GateTypes, States, Revoked,
    CancelActive, Faulted, Stopped, OnlyStop, gate, ledger, caller, sink,
    history
  <1>17. ASSUME NEW s \in Stops, StopRelease(s)
        PROVE  GateTypes'
    BY <1>17, ReleaseOutcomesAreFlags DEF TypeOK, GateTypes, States,
    StopRelease, ReleaseAll, ReleaseSink, AfterRelease, OnlyStop, gate,
    ledger, caller, sink, history
  <1>18. ASSUME Tick
        PROVE  GateTypes'
    BY <1>18, GatewayAssumption DEF TypeOK, GateTypes, States, Tick, gate,
    ledger, caller, worker, sink, history
  <1>19. queue # <<>> => Head(queue) \in Primitives
    BY DEF TypeOK, GateTypes
  <1>20. \A c \in Callers : cpc[c] = "expected" => cprim[c] \in Primitives
    BY DEF TypeOK, CallTypes
  <1> QED
    BY <1>1, <1>2, <1>3, <1>4, <1>5, <1>7, <1>8, <1>9, <1>10, <1>11,
    <1>12, <1>13, <1>14, <1>15, <1>16, <1>17, <1>18, <1>19, <1>20 DEF Next,
    CallerStep, WorkerStep, RunNext, RunExpected

LEMMA FlagTypeStep == TypeOK /\ Next => FlagTypes'
  <1> SUFFICES ASSUME TypeOK, Next PROVE FlagTypes'
    OBVIOUS
  <1>0. FlagTypes
    BY DEF TypeOK
  <1>1. ASSUME NEW p \in Primitives, Enqueue(p)
       PROVE  FlagTypes'
    BY <1>0, <1>1, ReleaseOutcomesAreFlags DEF FlagTypes, Enqueue, Accept,
    FailClosed, AfterRelease, Faulted, Stopped, ReleaseSink, gate, ledger,
    caller, worker, sink, history
  <1>2. ASSUME NEW p \in Primitives, WorkerGate(p) \/ SinkEnter(p) \/
               SinkPress(p) \/ SinkExit(p) \/ Deregister(p)
       PROVE  FlagTypes'
    <2>1. CASE WorkerGate(p)
      BY <1>0, <2>1 DEF FlagTypes, WorkerGate, OnlyWorker, gate, ledger, caller,
      sink, history
    <2>2. CASE SinkEnter(p) \/ SinkPress(p)
      BY <1>0, <2>2 DEF FlagTypes, SinkEnter, SinkPress, OnlyWorker, gate,
      ledger, caller, history
    <2>3. CASE SinkExit(p) \/ Deregister(p)
      BY <1>0, <2>3 DEF FlagTypes, SinkExit, Deregister, OnlyWorker, gate,
      ledger, caller, sink, history
    <2> QED BY <1>2, <2>1, <2>2, <2>3
  <1>3. ASSUME NEW p \in Primitives, FinalRelease(p)
       PROVE  FlagTypes'
    BY <1>0, <1>3, ReleaseOutcomesAreFlags DEF FlagTypes, FinalRelease,
    ReleaseAll, ReleaseSink, AfterRelease, OnlyWorker, gate, ledger, caller,
    sink, history
  <1>4. ASSUME NEW c \in Callers, NEW p \in Primitives, queue # <<>>,
               RunHead(c, p)
       PROVE  FlagTypes'
    BY <1>0, <1>4, ReleaseOutcomesAreFlags DEF FlagTypes, RunHead, Refuse,
    Register, Finish, FailClosed, ReleaseSink, gate, ledger, caller, worker,
    sink, history
  <1>5. ASSUME NEW c \in Callers, QueueCleared(c) \/ ClearedStatus(c) \/
               StartWorker(c) \/ StartRaises(c) \/ StartResolved(c) \/
               WatchdogFires(c)
       PROVE  FlagTypes'
    <2>1. CASE QueueCleared(c) \/ ClearedStatus(c)
      BY <1>0, <2>1 DEF FlagTypes, QueueCleared, ClearedStatus, OnlyCaller,
      gate, ledger, worker, sink, history
    <2>2. CASE StartWorker(c) \/ StartRaises(c) \/ StartResolved(c)
      BY <1>0, <2>2 DEF FlagTypes, StartWorker, StartRaises, StartResolved,
      Abandon, OnlyCaller, gate, ledger, worker, sink, history
    <2>3. CASE WatchdogFires(c)
      BY <1>0, <2>3 DEF FlagTypes, WatchdogFires, Abandon, OnlyCaller, gate,
      ledger, worker, sink, history
    <2> QED BY <1>5, <2>1, <2>2, <2>3
  <1>6. ASSUME NEW c \in Callers, Fail(c) \/ FailRelease(c)
               \/ ReleaseAfterApply(c)
       PROVE  FlagTypes'
    BY <1>0, <1>6, ReleaseOutcomesAreFlags DEF FlagTypes,
    Stopped, Published, BadClock, Readings, ReleaseAfterApply, AfterRelease,
    ReleaseAll, FailRelease, Faulted, FailLocked, Fail, Refuse, Finish,
    FailClosed, ReleaseSink, gate, ledger, caller, worker, sink, history
  <1>7. ASSUME NEW c \in Callers, Completion(c) \/ Commit(c)
       PROVE  FlagTypes'
    BY <1>0, <1>7, GatewayAssumption DEF FlagTypes, Completion, Finish,
    Commit, OnlyCaller, gate, ledger, worker, sink, history
  <1>8. ASSUME NEW c \in Callers, NEW p \in Primitives, Execute(c, p)
       PROVE  FlagTypes'
    BY <1>0, <1>8, ReleaseOutcomesAreFlags DEF FlagTypes, Execute, Executable, Accept,
    FailClosed, AfterRelease, Faulted, Stopped, ReleaseSink, gate, ledger,
    caller, worker, sink, history
  <1>9. ASSUME Takeover \/ Close \/ Disarm \/ Tick
       PROVE  FlagTypes'
    BY ZenonT(60), <1>0, <1>9, GatewayAssumption DEF FlagTypes, Takeover, Close, Disarm,
    worker, Tick, CancelActive, OnlyStop, gate, ledger, caller, sink, history
  <1>10. ASSUME Revoked
        PROVE  FlagTypes'
    BY <1>0, <1>10, GatewayAssumption DEF FlagTypes, Revoked, CancelActive,
    Faulted, Stopped, OnlyStop, gate, ledger, caller, sink, history
  <1>11. ASSUME NEW s \in Stops, StopRelease(s)
        PROVE  FlagTypes'
    BY <1>0, <1>11, ReleaseOutcomesAreFlags DEF FlagTypes, StopRelease,
    ReleaseAll, ReleaseSink, AfterRelease, OnlyStop, gate, ledger, caller,
    sink, history
  <1>12. queue # <<>> => Head(queue) \in Primitives
    BY DEF TypeOK, GateTypes
  <1>13. \A c \in Callers : cpc[c] = "expected" => cprim[c] \in Primitives
    BY DEF TypeOK, CallTypes
  <1> QED
    BY <1>1, <1>2, <1>3, <1>4, <1>5, <1>6, <1>7, <1>8, <1>9, <1>10, <1>11,
    <1>12, <1>13 DEF Next, CallerStep, WorkerStep, RunNext, RunExpected

LEMMA CallTypeStep == TypeOK /\ Next => CallTypes'
  <1> SUFFICES ASSUME TypeOK, Next PROVE CallTypes'
    OBVIOUS
  <1>1. ASSUME NEW p \in Primitives, Enqueue(p)
       PROVE  CallTypes'
    BY <1>1, ReleaseOutcomesAreFlags DEF TypeOK, CallTypes, CallerPcs,
    Failures, Enqueue, Accept, FailClosed, AfterRelease, Faulted, Stopped,
    ReleaseSink, gate, ledger, caller, worker, sink, history
  <1>2. ASSUME NEW p \in Primitives, WorkerGate(p) \/ SinkEnter(p) \/
               SinkPress(p) \/ SinkExit(p) \/ Deregister(p)
       PROVE  CallTypes'
    BY <1>2, GatewayAssumption DEF TypeOK, CallTypes, CallerPcs, Failures,
    WorkerGate, SinkEnter, SinkPress, SinkExit, Deregister, OnlyWorker, gate,
    ledger, caller, sink, history
  <1>3. ASSUME NEW p \in Primitives, FinalRelease(p)
       PROVE  CallTypes'
    BY <1>3, ReleaseOutcomesAreFlags DEF TypeOK, CallTypes, CallerPcs,
    Failures, FinalRelease, ReleaseAll, ReleaseSink, AfterRelease, OnlyWorker,
    gate, ledger, caller, sink, history
  <1>4. ASSUME NEW c \in Callers, NEW p \in Primitives, queue # <<>>,
               RunHead(c, p)
       PROVE  CallTypes'
    <2>1. CASE \E t \in Readings : Register(c, p, t)
      BY <2>1 DEF Register, history, CallTypes, TypeOK, CallerPcs
    <2>2. ASSUME NEW t \in Readings, NEW poseOk \in BOOLEAN,
                 RunGate(p, t, poseOk) # "OK", Refuse(c, p, RunGate(p, t, poseOk))
          PROVE  CallTypes'
      <3>1. RunGate(p, t, poseOk) \in Failures
        BY <2>2, RunGateStatus
      <3>2. PICK ok : verdict' = [verdict EXCEPT ![p] = Published(RunGate(p, t, poseOk), ok)]
        BY <2>2 DEF Refuse
      <3>3. Finish(c)
        BY <2>2 DEF Refuse
      <3> QED
        BY <3>1, <3>2, <3>3, FinishTypes DEF Published, Failures
    <2> QED
      BY <1>4, <2>1, <2>2 DEF RunHead
  <1>5. ASSUME NEW c \in Callers, QueueCleared(c) \/ ClearedStatus(c) \/
               StartWorker(c) \/ StartRaises(c) \/ StartResolved(c) \/
               WatchdogFires(c)
       PROVE  CallTypes'
    <2>1. /\ \E l \in CallerPcs : cpc' = [cpc EXCEPT ![c] = l]
          /\ \E f \in Failures \cup {"OK", Unset} :
               cfailure' = [cfailure EXCEPT ![c] = f] \/ UNCHANGED cfailure
      BY <1>5, Zenon DEF CallerPcs, Failures, QueueCleared, ClearedStatus, Abandon,
      StartResolved, WatchdogFires, StartRaises, StartWorker
    <2>2. cpc[c] # "idle"
      BY <1>5 DEF QueueCleared, ClearedStatus, StartResolved, WatchdogFires, StartRaises, StartWorker
    <2>3. UNCHANGED <<execLock, cprim, released, completedAt, verdict>>
      BY <1>5 DEF QueueCleared, ClearedStatus, OnlyCaller, StartResolved, WatchdogFires,
      StartRaises, StartWorker, history
    <2> QED
      BY <2>1, <2>2, <2>3 DEF TypeOK, CallTypes
  <1>7. ASSUME NEW c \in Callers, Completion(c)
       PROVE  CallTypes'
    <2>1. cpc[c] # "idle" /\ cprim[c] \in Primitives
      BY <1>7 DEF Completion, TypeOK, CallTypes
    <2>2. startFailure[cprim[c]] \in Failures \cup {"OK", Unset}
      BY <2>1 DEF TypeOK, WorkerTypes
    <2>3. CancellationStatus \in Failures
      BY CancellationIsFailure DEF TypeOK, GateTypes, FlagTypes
    <2>4. \/ cpc' = [cpc EXCEPT ![c] = "release"] /\ cfailure' = cfailure
          \/ /\ cpc' = [cpc EXCEPT ![c] = "failing"]
             /\ \E f \in {startFailure[cprim[c]], CancellationStatus, "FAILED"} :
                  cfailure' = [cfailure EXCEPT ![c] = f]
      BY <1>7 DEF Completion
    <2>5. UNCHANGED <<execLock, cprim, released, completedAt, verdict>>
      BY <1>7 DEF Completion, OnlyCaller, history
    <2> QED
      BY <2>1, <2>2, <2>3, <2>4, <2>5 DEF TypeOK, CallTypes, CallerPcs, Failures
  <1>8. ASSUME NEW c \in Callers, Fail(c)
       PROVE  CallTypes'
    BY <1>8, GatewayAssumption DEF TypeOK, CallTypes, CallerPcs, Failures,
    Fail, FailLocked, Faulted, Stopped, gate, ledger, worker, sink, history
  <1>9. ASSUME NEW c \in Callers, FailRelease(c)
       PROVE  CallTypes'
    <2>1. PICK ok : verdict' = [verdict EXCEPT ![cprim[c]] = Published(cfailure[c], ok)]
      BY <1>9 DEF FailRelease
    <2>2. Finish(c)
      BY <1>9 DEF FailRelease
    <2>3. cfailure[c] \in Failures \cup {"OK", Unset}
      BY DEF TypeOK, CallTypes
    <2> QED
      BY <2>1, <2>2, <2>3, FinishTypes DEF Published, Failures
  <1>10. ASSUME NEW c \in Callers, ReleaseAfterApply(c)
        PROVE  CallTypes'
    <2>1. PICK ok \in BOOLEAN, t \in Nat : /\ released' = [released EXCEPT ![c] = ok]
                                           /\ completedAt' = [completedAt EXCEPT ![c] = t]
      <3>1. Readings \subseteq Nat
        BY GatewayAssumption DEF GatewayAssumption, Readings, BadClock, TypeOK, StopTypes
      <3> QED
        BY <1>10, <3>1, ReleaseOutcomesAreFlags DEF ReleaseAfterApply
    <2>2. /\ cpc[c] = "release" /\ cpc' = [cpc EXCEPT ![c] = "commit"]
          /\ UNCHANGED <<execLock, cprim, cfailure, verdict>>
      BY <1>10 DEF ReleaseAfterApply, history
    <2> QED
      BY <2>1, <2>2 DEF TypeOK, CallTypes, CallerPcs
  <1>11. ASSUME NEW c \in Callers, Commit(c)
        PROVE  CallTypes'
    <2>1. verdict' = [verdict EXCEPT ![cprim[c]] = CommitStatus(c)] /\ Finish(c)
      BY <1>11 DEF Commit
    <2> QED
      BY <2>1, CommitStatusKnown, FinishTypes
  <1>12. ASSUME NEW c \in Callers, NEW p \in Primitives, Execute(c, p)
        PROVE  CallTypes'
    <2>1. \/ UNCHANGED caller
          \/ /\ execLock' = c
             /\ cpc' = [cpc EXCEPT ![c] = "expected"]
             /\ cprim' = [cprim EXCEPT ![c] = p]
             /\ UNCHANGED <<cfailure, released, completedAt>>
      BY <1>12, Zenon DEF Execute, Executable, caller
    <2>2. UNCHANGED verdict
      BY <1>12 DEF Execute, Executable, history
    <2> QED
      BY <2>1, <2>2 DEF TypeOK, CallTypes, caller, CallerPcs
  <1>13. ASSUME Takeover \/ Close \/ Disarm \/ Tick
        PROVE  CallTypes'
    BY <1>13, GatewayAssumption DEF TypeOK, CallTypes, CallerPcs, Failures,
    Takeover, Close, Disarm, worker, Tick, CancelActive, OnlyStop, gate,
    ledger, caller, sink, history
  <1>14. ASSUME Revoked
        PROVE  CallTypes'
    BY <1>14, GatewayAssumption DEF TypeOK, CallTypes, CallerPcs, Failures,
    Revoked, CancelActive, Faulted, Stopped, OnlyStop, gate, ledger, caller,
    sink, history
  <1>15. ASSUME NEW s \in Stops, StopRelease(s)
        PROVE  CallTypes'
    BY <1>15, ReleaseOutcomesAreFlags DEF TypeOK, CallTypes, CallerPcs,
    Failures, StopRelease, ReleaseAll, ReleaseSink, AfterRelease, OnlyStop,
    gate, ledger, caller, sink, history
  <1>16. queue # <<>> => Head(queue) \in Primitives
    BY DEF TypeOK, GateTypes
  <1>17. \A c \in Callers : cpc[c] = "expected" => cprim[c] \in Primitives
    BY DEF TypeOK, CallTypes
  <1> QED
    BY <1>1, <1>2, <1>3, <1>4, <1>5, <1>7, <1>8, <1>9, <1>10, <1>11,
    <1>12, <1>13, <1>14, <1>15, <1>16, <1>17 DEF Next, CallerStep, WorkerStep,
    RunNext, RunExpected

LEMMA WorkerTypeStep == TypeOK /\ Next => WorkerTypes'
  <1> SUFFICES ASSUME TypeOK, Next PROVE WorkerTypes'
    OBVIOUS
  <1>1. ASSUME NEW p \in Primitives, Enqueue(p)
       PROVE  WorkerTypes'
    BY <1>1, ReleaseOutcomesAreFlags DEF TypeOK, WorkerTypes, WorkerLive,
    Failures, Outcomes, Enqueue, Accept, FailClosed, AfterRelease, Faulted,
    Stopped, ReleaseSink, gate, ledger, caller, worker, sink, history
  <1>2. ASSUME NEW p \in Primitives, WorkerGate(p)
       PROVE  WorkerTypes'
    <2>1. PICK t : startFailure' = [startFailure EXCEPT ![p] = StartGate(p, t)]
      BY <1>2 DEF WorkerGate
    <2>2. /\ \/ wpc' = [wpc EXCEPT ![p] = "enter"]
             \/ wpc' = [wpc EXCEPT ![p] = "leaving"]
          /\ \/ outcome' = outcome
             \/ outcome' = [outcome EXCEPT ![p] = "START_REJECTED"]
          /\ UNCHANGED <<deadline, finalRelease, applied>>
      BY <1>2, Zenon DEF WorkerGate, OnlyWorker
    <2> QED
      BY <2>1, <2>2, StartGateStatus DEF TypeOK, WorkerTypes, WorkerLive, Outcomes
  <1>3. ASSUME NEW p \in Primitives, SinkEnter(p)
       PROVE  WorkerTypes'
    BY <1>3, GatewayAssumption DEF TypeOK, WorkerTypes, WorkerLive, Failures,
    Outcomes, SinkEnter, OnlyWorker, gate, ledger, caller, sink, history
  <1>4. ASSUME NEW p \in Primitives, SinkPress(p)
       PROVE  WorkerTypes'
    BY <1>4, GatewayAssumption DEF TypeOK, WorkerTypes, WorkerLive, Failures,
    Outcomes, SinkPress, OnlyWorker, gate, ledger, caller, sink, history
  <1>5. ASSUME NEW p \in Primitives, SinkExit(p) \/ Deregister(p)
       PROVE  WorkerTypes'
    <2>1. CASE SinkExit(p)
      <3>1. /\ wpc' = [wpc EXCEPT ![p] = "leaving"]
            /\ UNCHANGED <<deadline, finalRelease, startFailure, applied>>
        BY <2>1, Zenon DEF SinkExit, OnlyWorker
      <3>2. PICK o \in {"COMPLETED", "CANCELLED", "EXCEPTION"} :
              outcome' = [outcome EXCEPT ![p] = o]
        BY <2>1, Zenon DEF SinkExit
      <3> QED BY <3>1, <3>2 DEF TypeOK, WorkerTypes, WorkerLive, Outcomes
    <2>2. CASE Deregister(p)
      <3>1. /\ wpc' = [wpc EXCEPT ![p] = "done"]
            /\ UNCHANGED <<outcome, deadline, finalRelease, startFailure, applied>>
        BY <2>2, Zenon DEF Deregister, OnlyWorker
      <3> QED BY <3>1 DEF TypeOK, WorkerTypes, WorkerLive
    <2> QED BY <1>5, <2>1, <2>2
  <1>6. ASSUME NEW p \in Primitives, FinalRelease(p)
       PROVE  WorkerTypes'
    BY <1>6, ReleaseOutcomesAreFlags DEF TypeOK, WorkerTypes, WorkerLive,
    Failures, Outcomes, FinalRelease, ReleaseAll, ReleaseSink, AfterRelease,
    OnlyWorker, gate, ledger, caller, sink, history
  <1>7. ASSUME NEW c \in Callers, NEW p \in Primitives, queue # <<>>,
               RunHead(c, p)
       PROVE  WorkerTypes'
    <2>1. ASSUME NEW t \in Readings, Register(c, p, t)
          PROVE  WorkerTypes'
      <3>1. t + Envelope \in Nat
        BY GatewayAssumption DEF GatewayAssumption, Readings, BadClock, TypeOK, StopTypes
      <3> QED
        BY <2>1, <3>1 DEF Register, history, WorkerTypes, TypeOK
    <2>2. CASE \E f : Refuse(c, p, f)
      BY <2>2 DEF Refuse, worker, WorkerTypes, TypeOK
    <2> QED
      BY <1>7, <2>1, <2>2 DEF RunHead
  <1>8. ASSUME NEW c \in Callers, QueueCleared(c) \/ ClearedStatus(c)
       PROVE  WorkerTypes'
    BY <1>8, GatewayAssumption DEF TypeOK, WorkerTypes, WorkerLive, Failures,
    Outcomes, QueueCleared, ClearedStatus, gate, ledger, worker, sink, history
  <1>9. ASSUME NEW c \in Callers, Fail(c)
       PROVE  WorkerTypes'
    BY <1>9, ReleaseOutcomesAreFlags DEF TypeOK, WorkerTypes, WorkerLive,
    Failures, Outcomes, Stopped, Faulted, FailLocked, Fail,
    Refuse, Finish, FailClosed, ReleaseSink, gate, ledger, caller, worker,
    sink, history
  <1>10. ASSUME NEW c \in Callers, StartWorker(c) \/ StartRaises(c)
        PROVE  WorkerTypes'
    BY <1>10, GatewayAssumption DEF TypeOK, WorkerTypes, WorkerLive, Failures,
    Outcomes, StartWorker, Abandon, StartRaises, OnlyCaller, gate, ledger,
    worker, sink, history
  <1>11. ASSUME NEW c \in Callers, StartResolved(c) \/ WatchdogFires(c)
        PROVE  WorkerTypes'
    BY <1>11, GatewayAssumption DEF TypeOK, WorkerTypes, WorkerLive, Failures,
    Outcomes, StartResolved, Abandon, WatchdogFires, OnlyCaller, gate, ledger,
    worker, sink, history
  <1>12. ASSUME NEW c \in Callers, Completion(c) \/ Commit(c)
        PROVE  WorkerTypes'
    BY <1>12, GatewayAssumption DEF TypeOK, WorkerTypes, WorkerLive, Failures,
    Outcomes, Completion, Finish, Commit, OnlyCaller, gate, ledger, worker,
    sink, history
  <1>13. ASSUME NEW c \in Callers, FailRelease(c) \/ ReleaseAfterApply(c)
        PROVE  WorkerTypes'
    BY <1>13, ReleaseOutcomesAreFlags DEF TypeOK, WorkerTypes, WorkerLive,
    Failures, Outcomes, FailRelease, BadClock, Readings, ReleaseAfterApply,
    ReleaseAll, ReleaseSink, AfterRelease, Published, Finish, gate, ledger,
    worker, sink, history
  <1>14. ASSUME NEW c \in Callers, NEW p \in Primitives, Execute(c, p)
        PROVE  WorkerTypes'
    BY <1>14, ReleaseOutcomesAreFlags DEF TypeOK, WorkerTypes, WorkerLive,
    Failures, Outcomes, Execute, Executable, Accept, FailClosed, AfterRelease, Faulted,
    Stopped, ReleaseSink, gate, ledger, caller, worker, sink, history
  <1>15. ASSUME Takeover \/ Close
        PROVE  WorkerTypes'
    BY <1>15, GatewayAssumption DEF TypeOK, WorkerTypes, WorkerLive, Failures,
    Outcomes, Takeover, Close, CancelActive, OnlyStop, gate, ledger, caller,
    sink, history
  <1>16. ASSUME Disarm \/ Tick
        PROVE  WorkerTypes'
    BY <1>16, GatewayAssumption DEF TypeOK, WorkerTypes, WorkerLive, Failures,
    Outcomes, Disarm, worker, Tick, OnlyStop, gate, ledger, caller, sink,
    history
  <1>17. ASSUME Revoked
        PROVE  WorkerTypes'
    BY <1>17, GatewayAssumption DEF TypeOK, WorkerTypes, WorkerLive, Failures,
    Outcomes, Revoked, CancelActive, Faulted, Stopped, OnlyStop, gate, ledger,
    caller, sink, history
  <1>18. ASSUME NEW s \in Stops, StopRelease(s)
        PROVE  WorkerTypes'
    BY <1>18, ReleaseOutcomesAreFlags DEF TypeOK, WorkerTypes, WorkerLive,
    Failures, Outcomes, StopRelease, ReleaseAll, ReleaseSink, AfterRelease,
    OnlyStop, gate, ledger, caller, sink, history
  <1>19. queue # <<>> => Head(queue) \in Primitives
    BY DEF TypeOK, GateTypes
  <1>20. \A c \in Callers : cpc[c] = "expected" => cprim[c] \in Primitives
    BY DEF TypeOK, CallTypes
  <1> QED
    BY <1>1, <1>2, <1>3, <1>4, <1>5, <1>6, <1>7, <1>8, <1>9, <1>10, <1>11,
    <1>12, <1>13, <1>14, <1>15, <1>16, <1>17, <1>18, <1>19, <1>20 DEF Next,
    CallerStep, WorkerStep, RunNext, RunExpected

LEMMA StopTypeStep == TypeOK /\ Next => StopTypes'
  <1> SUFFICES ASSUME TypeOK, Next PROVE StopTypes'
    OBVIOUS
  <1>1. ASSUME NEW p \in Primitives, Enqueue(p)
       PROVE  StopTypes'
    BY <1>1, ReleaseOutcomesAreFlags DEF TypeOK, StopTypes, Stops, Enqueue,
    Accept, FailClosed, AfterRelease, Faulted, Stopped, ReleaseSink, gate,
    ledger, caller, worker, sink, history
  <1>2. ASSUME NEW p \in Primitives, WorkerGate(p) \/ SinkEnter(p) \/
               SinkPress(p) \/ SinkExit(p) \/ Deregister(p)
       PROVE  StopTypes'
    BY <1>2, GatewayAssumption DEF TypeOK, StopTypes, Stops, WorkerGate,
    SinkEnter, SinkPress, SinkExit, Deregister, OnlyWorker, gate, ledger,
    caller, sink, history
  <1>3. ASSUME NEW p \in Primitives, FinalRelease(p)
       PROVE  StopTypes'
    BY <1>3, ReleaseOutcomesAreFlags DEF TypeOK, StopTypes, Stops,
    FinalRelease, ReleaseAll, ReleaseSink, AfterRelease, OnlyWorker, gate,
    ledger, caller, sink, history
  <1>4. ASSUME NEW c \in Callers, NEW p \in Primitives, queue # <<>>,
               RunHead(c, p)
       PROVE  StopTypes'
    BY <1>4, ReleaseOutcomesAreFlags DEF TypeOK, StopTypes, Stops, RunHead,
    Refuse, Register, Finish, FailClosed, ReleaseSink, gate, ledger, caller,
    worker, sink, history
  <1>5. ASSUME NEW c \in Callers, QueueCleared(c) \/ ClearedStatus(c) \/
               StartWorker(c) \/ StartRaises(c) \/ StartResolved(c) \/
               WatchdogFires(c)
       PROVE  StopTypes'
    BY <1>5, GatewayAssumption DEF TypeOK, StopTypes, Stops, QueueCleared,
    ClearedStatus, OnlyCaller, Abandon, StartResolved, WatchdogFires,
    StartRaises, StartWorker, gate, ledger, worker, sink, history
  <1>6. ASSUME NEW c \in Callers, Fail(c) \/ FailRelease(c)
               \/ ReleaseAfterApply(c)
       PROVE  StopTypes'
    BY <1>6, ReleaseOutcomesAreFlags DEF TypeOK, StopTypes, Stops,
    Stopped, Published, BadClock, Readings, ReleaseAfterApply, AfterRelease,
    ReleaseAll, FailRelease, Faulted, FailLocked, Fail, Refuse, Finish,
    FailClosed, ReleaseSink, gate, ledger, caller, worker, sink, history
  <1>7. ASSUME NEW c \in Callers, Completion(c) \/ Commit(c)
       PROVE  StopTypes'
    BY <1>7, GatewayAssumption DEF TypeOK, StopTypes, Stops, Completion,
    Finish, Commit, OnlyCaller, gate, ledger, worker, sink, history
  <1>8. ASSUME NEW c \in Callers, NEW p \in Primitives, Execute(c, p)
       PROVE  StopTypes'
    BY <1>8, ReleaseOutcomesAreFlags DEF TypeOK, StopTypes, Stops, Execute, Executable,
    Accept, FailClosed, AfterRelease, Faulted, Stopped, ReleaseSink, gate,
    ledger, caller, worker, sink, history
  <1>9. ASSUME Takeover \/ Close \/ Disarm \/ Tick
       PROVE  StopTypes'
    BY <1>9, GatewayAssumption DEF TypeOK, StopTypes, Stops, Takeover, Close,
    Disarm, worker, Tick, CancelActive, OnlyStop, gate, ledger, caller, sink,
    history
  <1>10. ASSUME Revoked
        PROVE  StopTypes'
    BY <1>10, GatewayAssumption DEF TypeOK, StopTypes, Stops, Revoked,
    CancelActive, Faulted, Stopped, OnlyStop, gate, ledger, caller, sink,
    history
  <1>11. ASSUME NEW s \in Stops, StopRelease(s)
        PROVE  StopTypes'
    BY <1>11, ReleaseOutcomesAreFlags DEF TypeOK, StopTypes, Stops,
    StopRelease, ReleaseAll, ReleaseSink, AfterRelease, OnlyStop, gate,
    ledger, caller, sink, history
  <1>12. queue # <<>> => Head(queue) \in Primitives
    BY DEF TypeOK, GateTypes
  <1>13. \A c \in Callers : cpc[c] = "expected" => cprim[c] \in Primitives
    BY DEF TypeOK, CallTypes
  <1> QED
    BY <1>1, <1>2, <1>3, <1>4, <1>5, <1>6, <1>7, <1>8, <1>9, <1>10, <1>11,
    <1>12, <1>13 DEF Next, CallerStep, WorkerStep, RunNext, RunExpected


LEMMA TypeStep == TypeOK /\ [Next]_vars => TypeOK'
  <1> SUFFICES ASSUME TypeOK, [Next]_vars PROVE TypeOK'
    OBVIOUS
  <1>1. CASE Next
    BY <1>1, GateTypeStep, FlagTypeStep, CallTypeStep, WorkerTypeStep, StopTypeStep
    DEF TypeOK
  <1>2. CASE UNCHANGED vars
    <2> USE <1>2 DEF TypeOK, vars, gate, ledger, caller, worker, sink, history
    <2>1. GateTypes' /\ FlagTypes' /\ StopTypes'
      BY DEF GateTypes, FlagTypes, StopTypes
    <2>2. CallTypes'
      BY DEF CallTypes
    <2>3. WorkerTypes'
      BY DEF WorkerTypes
    <2> QED
      BY <2>1, <2>2, <2>3
  <1> QED
    BY <1>1, <1>2

\* Every variable keeps to the values the code can give it, for ever.
THEOREM TypeCorrect == Spec => []TypeOK
  BY InitType, TypeStep, PTL DEF Spec
=============================================================================
