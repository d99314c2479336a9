-------------------------- MODULE ThreadPoolProofs --------------------------
(***************************************************************************)
(* Proofs that ThreadPool keeps its invariants for all values of its       *)
(* constants.                                                              *)
(***************************************************************************)
EXTENDS ThreadPoolInv, ManagerProofs

\* TypeOK in two parts.
LEMMA TypeParts == TypeOK <=> SharedTypeOK /\ ThreadWorkerTypeOK
  BY DEF TypeOK, SharedTypeOK

\* A pool that nobody has started has the right types.
LEMMA InitType == Init => TypeOK
<1>1. ThreadWorkerInit => ThreadWorkerTypeOK
  BY NoneType DEF ThreadWorkerInit, ThreadWorkerTypeOK
<1>2. QED
  BY <1>1, InitSharedType, TypeParts DEF Init

\* A step of a worker's thread keeps the types of what it can change.
LEMMA WorkerKeepsType ==
  ASSUME TypeOK, NEW w \in Workers, WorkerStep(w) \/ TimeOut(w)
  PROVE  PoolStateTypeOK' /\ ThreadWorkerTypeOK'
<1> USE DEF TypeOK, PoolStateTypeOK, ThreadWorkerTypeOK
<1>1. CASE Boot(w)
  BY <1>1, NoneType DEF Boot, busVars, ResetCounts, Goto
<1>2. CASE TimeOut(w)
  BY <1>2 DEF TimeOut, busVars, Goto, Action, Responses, Flags
<1>3. CASE HandleRequest(w)
  <2> DEFINE request == Head(requestBus[w])
  <2>1. request \in Responses /\ Tail(requestBus[w]) \in Seq(Responses)
    BY <1>3 DEF HandleRequest
  <2>2. Action(request.flag, NoTask, w) \in Responses
    BY <2>1, ActionType DEF Responses
  <2>3. response' \in [Workers -> Responses]
    BY <1>3, <2>2 DEF HandleRequest
  <2>4. requestBus' \in [Workers -> Seq(Responses)]
    BY <1>3, <2>1 DEF HandleRequest
  <2>5. /\ taskCount' \in [Workers -> Nat] /\ errCount' \in [Workers -> Nat]
        /\ consErrCount' \in [Workers -> Nat]
    <3>1. ResetCounts(w) \/ UNCHANGED <<taskCount, errCount, consErrCount>>
      BY <1>3 DEF HandleRequest
    <3>2. CASE ResetCounts(w)
      BY <3>2 DEF ResetCounts
    <3>3. CASE UNCHANGED <<taskCount, errCount, consErrCount>>
      BY <3>3
    <3>4. QED
      BY <3>1, <3>2, <3>3
  <2>6. \E label \in {"check", "requests"} : pc' = [pc EXCEPT ![w] = label]
    <3> DEFINE label == IF Match(request, {"CLOSE", "RESTART"})
                        THEN "check" ELSE "requests"
    <3>1. pc' = [pc EXCEPT ![w] = label]
      BY <1>3 DEF HandleRequest, Goto
    <3>2. label \in {"check", "requests"}
      OBVIOUS
    <3> HIDE DEF label
    <3>3. QED
      BY <3>1, <3>2
  <2>7. QED
    BY <1>3, <2>3, <2>4, <2>5, <2>6 DEF HandleRequest
<1>4. CASE NoRequest(w)
  BY <1>4 DEF NoRequest, busVars, workerLocals, Goto
<1>5. CASE CheckRunning(w)
  BY <1>5 DEF CheckRunning, busVars, workerLocals, Goto
<1>6. CASE GetTask(w)
  BY <1>6 DEF GetTask, Goto
<1>7. CASE GetEmpty(w)
  BY <1>7 DEF GetEmpty, busVars, workerLocals, Goto
<1>8. CASE BeginTask(w)
  BY <1>8 DEF BeginTask, busVars, workerLocals, Goto, CancelledFlag
<1>9. CASE RunTask(w)
  <2>1. \A flag \in {"DONE", "EXCEPTION"} :
          Action({flag}, task[w], w) \in Responses
    BY ActionType DEF Flags
  <2>2. PICK o \in {"result", "exception", "exit"} : Conclude(w, o)
    BY <1>9, ThreadWorkerAssumption DEF RunTask
  <2>3. response' \in [Workers -> Responses]
    BY <2>1, <2>2 DEF Conclude
  <2>4. future' \in [Tasks -> FutureStates]
    BY <2>2 DEF Conclude, FutureStates
  <2>5. /\ errCount' \in [Workers -> Nat] /\ consErrCount' \in [Workers -> Nat]
        /\ outcome' \in [Workers -> {"none", "settled", "exit", "invalid"}]
    BY <2>2 DEF Conclude
  <2>6. QED
    BY <1>9, <2>3, <2>4, <2>5 DEF RunTask, busVars, Goto
<1>10. CASE FinishAndRestart(w)
  BY <1>10, AddFlagType DEF FinishAndRestart, EnterFinally, Goto, Flags
<1>11. CASE FinishAndContinue(w)
  <2>1. responseBus' \in Seq(Responses)
    <3>1. responseBus' = Append(responseBus, response[w])
      BY <1>11 DEF FinishAndContinue
    <3>2. responseBus \in Seq(Responses) /\ response[w] \in Responses
      OBVIOUS
    <3>3. QED
      BY <3>1, <3>2, AppendType
  <2>2. response' \in [Workers -> Responses]
    BY <1>11, NoneType DEF FinishAndContinue
  <2>3. QED
    BY <1>11, <2>1, <2>2 DEF FinishAndContinue, EnterFinally, Goto
<1>12. CASE FinishAndFail(w)
  <2>1. Action({"CLOSE", "FATAL_ERROR"}, NoTask, w) \in Responses
    BY ActionType DEF Flags
  <2>2. responseBus' \in Seq(Responses)
    <3>1. \/ responseBus' = responseBus
          \/ responseBus' = Append(responseBus, response[w])
      BY <1>12 DEF FinishAndFail
    <3>2. responseBus \in Seq(Responses) /\ response[w] \in Responses
      OBVIOUS
    <3>3. Append(responseBus, response[w]) \in Seq(Responses)
      BY <3>2, AppendType
    <3>4. QED
      BY <3>1, <3>2, <3>3
  <2>3. response' \in [Workers -> Responses]
    BY <1>12, <2>1 DEF FinishAndFail
  <2>4. QED
    BY <1>12, <2>2, <2>3 DEF FinishAndFail, EnterFinally, Goto
<1>13. CASE FinishAndDie(w)
  <2>1. responseBus' \in Seq(Responses)
    <3>1. responseBus' = Append(responseBus, response[w])
      BY <1>13 DEF FinishAndDie
    <3>2. responseBus \in Seq(Responses) /\ response[w] \in Responses
      OBVIOUS
    <3>3. QED
      BY <3>1, <3>2, AppendType
  <2>2. response' \in [Workers -> Responses]
    BY <1>13, NoneType DEF FinishAndDie
  <2>3. QED
    BY <1>13, <2>1, <2>2 DEF FinishAndDie, EnterFinally, Goto
<1>14. CASE Quit(w)
  BY <1>14, NoneType DEF Quit, Goto
<1>15. CASE ClearThread(w)
  BY <1>15 DEF ClearThread, busVars, workerLocals, Goto
<1>16. QED
  BY <1>1, <1>2, <1>3, <1>4, <1>5, <1>6, <1>7, <1>8, <1>9, <1>10, <1>11, <1>12, <1>13, <1>14, <1>15 DEF WorkerStep

\* Every step of a pool keeps the types.
LEMMA StepKeepsType == TypeOK /\ [Next]_vars => TypeOK'
<1> SUFFICES ASSUME TypeOK, [Next]_vars PROVE TypeOK'
  OBVIOUS
<1>1. ASSUME NEW w \in Workers, RunWorker(w) \/ WorkerGivesUp(w)
      PROVE  TypeOK'
  <2>1. PoolStateTypeOK' /\ ThreadWorkerTypeOK'
    BY <1>1, WorkerKeepsType DEF RunWorker, WorkerGivesUp
  <2>2. UNCHANGED <<tableVars, managerVars, clientVars>>
    BY <1>1 DEF RunWorker, WorkerGivesUp
  <2>3. TableTypeOK' /\ ManagerTypeOK' /\ ClientTypeOK'
    BY <2>2 DEF TypeOK, TableTypeOK, ManagerTypeOK, ClientTypeOK, tableVars,
                managerVars, managerCtl, clientVars
  <2>4. QED
    BY <2>1, <2>3 DEF TypeOK
<1>2. SharedTypeOK /\ (UNCHANGED workerLocals /\ SharedTypeOK' => TypeOK')
  BY DEF TypeOK, SharedTypeOK, ThreadWorkerTypeOK, workerLocals
<1>3. CASE RunManager \/ ManagerGivesUp
  BY <1>2, <1>3, ManagerKeepsType DEF RunManager, ManagerGivesUp
<1>4. ASSUME NEW c \in Clients, RunClient(c) \/ ClientCalls(c)
      PROVE  TypeOK'
  BY <1>2, <1>4, ClientKeepsType DEF RunClient, ClientCalls
<1>5. CASE CancelTask
  BY <1>2, <1>5, CancelKeepsType DEF CancelTask
<1>6. CASE UNCHANGED vars
  BY <1>6 DEF vars, poolVars, busVars, flagVars, workerLocals, tableVars,
              managerVars, managerCtl, clientVars, TypeOK, PoolStateTypeOK,
              ThreadWorkerTypeOK, TableTypeOK, ManagerTypeOK, ClientTypeOK
<1>7. QED
  BY <1>1, <1>3, <1>4, <1>5, <1>6 DEF Next, Terminated

(***************************************************************************)
(* Every variable of a thread pool keeps its type.                         *)
(***************************************************************************)
THEOREM TypeCorrect == Spec => []TypeOK
  BY InitType, StepKeepsType, PTL DEF Spec

-----------------------------------------------------------------------------
\* The steps of the other threads leave the locals of a worker alone and may
\* at most start its thread.
LEMMA OthersMoveWorkers ==
  ASSUME TypeOK,
         \/ RunManager \/ ManagerGivesUp
         \/ \E c \in Clients : RunClient(c) \/ ClientCalls(c)
         \/ CancelTask \/ UNCHANGED vars
  PROVE  /\ UNCHANGED workerLocals
         /\ \/ pc' = pc
            \/ RestartWorker /\ pc' = [pc EXCEPT ![handled] = "boot"]
            \/ \E c \in Clients : SpawnWorker(c) /\ pc' = [pc EXCEPT ![nextWorker] = "boot"]
<1>1. CASE RunManager \/ ManagerGivesUp
  BY <1>1 DEF RunManager, ManagerGivesUp, ManagerStep, ManagerIdleOut,
              ManagerKilled, KilledConsuming, ManagerBoot, ManagerCheck, BusDrained, ConsumeFails,
              ConsumeResponse, TakeResponse, ManagerDown, StopFlag, StopAlive,
              StopJoin, StopJoined, StopDone, StopUnchanged, RestartWorker,
              StartThread, RestartReturns, IterationFails, CloseWorker,
              CloseDone, HaltWorker, ManagerEnd, poolVars, flagVars
<1>2. ASSUME NEW c \in Clients, RunClient(c) \/ ClientCalls(c)
      PROVE  /\ UNCHANGED workerLocals
             /\ \/ pc' = pc
                \/ SpawnWorker(c) /\ pc' = [pc EXCEPT ![nextWorker] = "boot"]
  <2>1. CASE SpawnWorker(c)
    BY <1>2, <2>1 DEF SpawnWorker, StartThread, RunClient, ClientCalls
  <2>2. CASE ~SpawnWorker(c)
    BY <1>2, <2>2
       DEF RunClient, ClientCalls, ClientCall, ClientStep, Start, Stop,
           Terminate, CallStop, StopGivesUp, Submit, Queue, StartReturns,
           AdjustWorkers, CountTasks, ScanFails, ScanWorker, ScanDone,
           SpawnReturns, SubmitReturns, StopTestsAlive, TerminateTestsAlive,
           TestsAlive, StopCallsJoin, StopReturns, StopExpired, StopRaises,
           TerminateKills, StopCallUnchanged, poolVars, flagVars
  <2>3. QED
    BY <2>1, <2>2
<1>3. CASE CancelTask \/ UNCHANGED vars
  BY <1>3 DEF CancelTask, Cancel, vars, poolVars, flagVars
<1>4. QED
  BY <1>1, <1>2, <1>3

\* The limits of one worker, for given counts of tasks and errors.
Exhausted(tasks, errs, consErrs) ==
  \/ MaxTaskCount > 0 /\ tasks >= MaxTaskCount
  \/ MaxErrCount > 0 /\ errs >= MaxErrCount
  \/ MaxConsErrCount > 0 /\ consErrs >= MaxConsErrCount

\* A worker gets back to the head of its loop only below its limits.
LEMMA StepKeepsLimits == TypeOK /\ LimitsRespected /\ [Next]_vars => LimitsRespected'
<1> SUFFICES ASSUME TypeOK, LimitsRespected, [Next]_vars PROVE LimitsRespected'
  OBVIOUS
<1> DEFINE Loop == {"top", "requests", "check", "get", "begin", "run"}
<1> USE ThreadWorkerAssumption DEF TypeOK, PoolStateTypeOK, ThreadWorkerTypeOK
<1>1. \A w \in Workers :
        pc[w] \in Loop => ~Exhausted(taskCount[w], errCount[w], consErrCount[w])
  BY DEF LimitsRespected, UsedUp, Exhausted
<1>2. SUFFICES \A w \in Workers :
                 pc'[w] \in Loop
                   => ~Exhausted(taskCount'[w], errCount'[w], consErrCount'[w])
  BY DEF LimitsRespected, UsedUp, Exhausted
<1>3. ASSUME NEW w \in Workers, RunWorker(w) \/ WorkerGivesUp(w), NEW v \in Workers,
             pc'[v] \in Loop
      PROVE  ~Exhausted(taskCount'[v], errCount'[v], consErrCount'[v])
  <2>1. WorkerStep(w) \/ TimeOut(w)
    BY <1>3 DEF RunWorker, WorkerGivesUp
  <2>2. CASE v # w
    <3>1. pc'[v] = pc[v]
      BY <2>1, <2>2
         DEF WorkerStep, TimeOut, Boot, HandleRequest, NoRequest, CheckRunning,
             GetTask, GetEmpty, BeginTask, RunTask, FinishAndRestart,
             FinishAndContinue, FinishAndFail, FinishAndDie, Quit, ClearThread,
             Goto
    <3>2. UNCHANGED <<taskCount[v], errCount[v], consErrCount[v]>>
      <4>1. CASE Boot(w) \/ HandleRequest(w)
        BY <2>2, <4>1 DEF Boot, HandleRequest, ResetCounts
      <4>2. CASE RunTask(w)
        BY <2>2, <4>2 DEF RunTask, Conclude
      <4>3. CASE EnterFinally(w)
        BY <2>2, <4>3 DEF EnterFinally
      <4>4. QED
        BY <2>1, <4>1, <4>2, <4>3
           DEF WorkerStep, TimeOut, NoRequest, CheckRunning, GetTask, GetEmpty,
               BeginTask, FinishAndRestart, FinishAndContinue, FinishAndFail,
               FinishAndDie, Quit, ClearThread, workerLocals
    <3>3. QED
      BY <1>1, <1>3, <3>1, <3>2
  <2>3. CASE v = w /\ Boot(w)
    <3>1. taskCount'[w] = 0 /\ errCount'[w] = 0 /\ consErrCount'[w] = 0
      BY <2>3 DEF Boot, ResetCounts
    <3>2. QED
      BY <2>3, <3>1 DEF Exhausted
  <2>4. CASE v = w /\ FinishAndContinue(w)
    <3>1. /\ taskCount'[w] = taskCount[w] + 1 /\ errCount'[w] = errCount[w]
          /\ consErrCount'[w] = consErrCount[w] /\ ~LimitHit(w)
      BY <2>4 DEF FinishAndContinue, EnterFinally
    <3>2. QED
      BY <2>4, <3>1 DEF Exhausted, LimitHit, LimitReached
  <2>5. CASE v = w /\ HandleRequest(w)
    <3>1. pc[w] \in Loop
      BY <2>5 DEF HandleRequest
    <3>2. \/ /\ taskCount'[w] = taskCount[w] /\ errCount'[w] = errCount[w]
             /\ consErrCount'[w] = consErrCount[w]
          \/ taskCount'[w] = 0 /\ errCount'[w] = 0 /\ consErrCount'[w] = 0
      BY <2>5 DEF HandleRequest, ResetCounts
    <3>3. QED
      BY <1>1, <2>5, <3>1, <3>2 DEF Exhausted
  <2>6. CASE v = w /\ ~Boot(w) /\ ~FinishAndContinue(w) /\ ~HandleRequest(w)
    <3>1. /\ pc[w] \in Loop
          /\ UNCHANGED <<taskCount, errCount, consErrCount>>
      BY <1>3, <2>1, <2>6
         DEF WorkerStep, TimeOut, NoRequest, CheckRunning, GetTask, GetEmpty,
             BeginTask, RunTask, FinishAndRestart, FinishAndFail, FinishAndDie,
             Quit, ClearThread, Goto, workerLocals
    <3>2. QED
      BY <1>1, <2>6, <3>1
  <2>7. QED
    BY <2>2, <2>3, <2>4, <2>5, <2>6
<1>4. CASE ~ \E w \in Workers : RunWorker(w) \/ WorkerGivesUp(w)
  <2>1. /\ UNCHANGED workerLocals
        /\ pc' = pc \/ \E v : pc' = [pc EXCEPT ![v] = "boot"]
    BY <1>4, OthersMoveWorkers DEF Next, Terminated
  <2>2. QED
    BY <1>1, <2>1 DEF workerLocals
<1>5. QED
  BY <1>3, <1>4

(***************************************************************************)
(* A worker that has reached its limit of tasks, of errors or of errors in *)
(* a row (the finally clause of _run_core) takes no further task before it *)
(* is started anew.                                                        *)
(***************************************************************************)
THEOREM LimitsAreRespected == Spec => []LimitsRespected
<1>1. Init => LimitsRespected
  BY DEF Init, PoolStateInit, LimitsRespected
<1>2. LimitsRespected /\ UNCHANGED vars => LimitsRespected'
  BY DEF vars, poolVars, flagVars, workerLocals, LimitsRespected, UsedUp
<1>3. QED
  BY <1>1, StepKeepsLimits, TypeCorrect, PTL DEF Spec

-----------------------------------------------------------------------------
(***************************************************************************)
(* Where the tasks of a ThreadPool are.                                    *)
(***************************************************************************)
\* OnePlace and Tracked, of contents of the right types.
Placed(bus, hand, answer, reply, known) ==
  /\ bus \in Seq(Tasks) /\ hand \in [Workers -> Tasks \cup {NoTask}]
  /\ answer \in [Workers -> Responses] /\ reply \in Seq(Responses)
  /\ known \in SUBSET Tasks
  /\ OnePlace(bus, hand, answer, reply)
  /\ Tracked(bus, hand, answer, reply, known)

\* A task that is in no place is put on the task bus.
LEMMA QueuePlaced ==
  ASSUME NEW bus, NEW hand, NEW answer, NEW reply, NEW known,
         Placed(bus, hand, answer, reply, known),
         NEW t \in Tasks \ known
  PROVE  Placed(Append(bus, t), hand, answer, reply, known \cup {t})
<1> USE PoolStateAssumption DEF Placed
<1>1. Tracked(Append(bus, t), hand, answer, reply, known \cup {t})
  BY AppendFacts DEF Tracked
<1>2. OnePlace(Append(bus, t), hand, answer, reply)
  BY AppendFacts DEF OnePlace, Tracked
<1>3. QED
  BY <1>1, <1>2, AppendFacts

\* A worker with empty hands takes the first task off the bus.
LEMMA TakePlaced ==
  ASSUME NEW bus, NEW hand, NEW answer, NEW reply, NEW known,
         Placed(bus, hand, answer, reply, known),
         NEW w \in Workers, bus # <<>>
  PROVE  Placed(Tail(bus), [hand EXCEPT ![w] = Head(bus)], answer, reply, known)
<1> USE PoolStateAssumption DEF Placed
<1>1. Tracked(Tail(bus), [hand EXCEPT ![w] = Head(bus)], answer, reply, known)
  BY TailFacts DEF Tracked
<1>2. OnePlace(Tail(bus), [hand EXCEPT ![w] = Head(bus)], answer, reply)
  BY TailFacts DEF OnePlace, Tracked
<1>3. QED
  BY <1>1, <1>2, TailFacts

\* A run ends: the task leaves the hand, and may be the end w reports.
LEMMA AnswerPlaced ==
  ASSUME NEW bus, NEW hand, NEW answer, NEW reply, NEW known,
         Placed(bus, hand, answer, reply, known),
         NEW w \in Workers, NEW r \in Responses, Ended(r) \in {hand[w], NoTask}
  PROVE  Placed(bus, [hand EXCEPT ![w] = NoTask], [answer EXCEPT ![w] = r],
                reply, known)
<1> USE PoolStateAssumption DEF Placed
<1>1. Tracked(bus, [hand EXCEPT ![w] = NoTask], [answer EXCEPT ![w] = r],
              reply, known)
  BY DEF Tracked
<1>2. OnePlace(bus, [hand EXCEPT ![w] = NoTask], [answer EXCEPT ![w] = r], reply)
  BY DEF OnePlace, Tracked
<1>3. QED
  BY <1>1, <1>2

\* A worker drops the task it has run.
LEMMA ReleasePlaced ==
  ASSUME NEW bus, NEW hand, NEW answer, NEW reply, NEW known,
         Placed(bus, hand, answer, reply, known),
         NEW w \in Workers
  PROVE  Placed(bus, [hand EXCEPT ![w] = NoTask], answer, reply, known)
<1> USE PoolStateAssumption DEF Placed
<1>1. Tracked(bus, [hand EXCEPT ![w] = NoTask], answer, reply, known)
  BY DEF Tracked
<1>2. OnePlace(bus, [hand EXCEPT ![w] = NoTask], answer, reply)
  BY DEF OnePlace, Tracked
<1>3. QED
  BY <1>1, <1>2

\* The answer of w changes, but not the task it reports, unless to none.
LEMMA AmendPlaced ==
  ASSUME NEW bus, NEW hand, NEW answer, NEW reply, NEW known,
         Placed(bus, hand, answer, reply, known),
         NEW w \in Workers, NEW r \in Responses,
         Ended(r) \in {Ended(answer[w]), NoTask}
  PROVE  Placed(bus, hand, [answer EXCEPT ![w] = r], reply, known)
<1> USE PoolStateAssumption DEF Placed
<1>1. Tracked(bus, hand, [answer EXCEPT ![w] = r], reply, known)
  BY DEF Tracked
<1>2. OnePlace(bus, hand, [answer EXCEPT ![w] = r], reply)
  BY DEF OnePlace, Tracked
<1>3. QED
  BY <1>1, <1>2

\* The answer of w is put on the response bus.
LEMMA SendPlaced ==
  ASSUME NEW bus, NEW hand, NEW answer, NEW reply, NEW known,
         Placed(bus, hand, answer, reply, known),
         NEW w \in Workers, NEW r \in Responses, Ended(r) = NoTask
  PROVE  Placed(bus, hand, [answer EXCEPT ![w] = r],
                Append(reply, answer[w]), known)
<1> USE PoolStateAssumption DEF Placed
<1>1. answer[w] \in Responses
  OBVIOUS
<1>2. Tracked(bus, hand, [answer EXCEPT ![w] = r], Append(reply, answer[w]), known)
  BY <1>1, AppendFacts DEF Tracked
<1>3. OnePlace(bus, hand, [answer EXCEPT ![w] = r], Append(reply, answer[w]))
  BY <1>1, AppendFacts DEF OnePlace, Tracked
<1>4. QED
  BY <1>1, <1>2, <1>3, AppendFacts

\* The manager takes a response and pops the task whose end it reports.
LEMMA ReceivePlaced ==
  ASSUME NEW bus, NEW hand, NEW answer, NEW reply, NEW known,
         Placed(bus, hand, answer, reply, known), reply # <<>>
  PROVE  Placed(bus, hand, answer, Tail(reply), known \ {Ended(Head(reply))})
<1> USE PoolStateAssumption DEF Placed
<1>1. Tracked(bus, hand, answer, Tail(reply), known \ {Ended(Head(reply))})
  BY TailFacts DEF Tracked, OnePlace
<1>2. OnePlace(bus, hand, answer, Tail(reply))
  BY TailFacts DEF OnePlace, Tracked
<1>3. QED
  BY <1>1, <1>2, TailFacts

\* It takes a response and pops no task.
LEMMA DropPlaced ==
  ASSUME NEW bus, NEW hand, NEW answer, NEW reply, NEW known,
         Placed(bus, hand, answer, reply, known), reply # <<>>
  PROVE  Placed(bus, hand, answer, Tail(reply), known)
<1> USE PoolStateAssumption DEF Placed
<1>1. Tracked(bus, hand, answer, Tail(reply), known)
  BY TailFacts DEF Tracked
<1>2. OnePlace(bus, hand, answer, Tail(reply))
  BY TailFacts DEF OnePlace
<1>3. QED
  BY <1>1, <1>2, TailFacts

-----------------------------------------------------------------------------
\* Which task the answers of the code report.
LEMMA EndedFacts ==
  /\ Ended(None) = NoTask
  /\ \A flag, w : Ended(Action(flag, NoTask, w)) = NoTask
  /\ \A flag, t, w : Ended(Action(flag, t, w)) \in {t, NoTask}
  /\ \A r \in Responses : Ended(AddFlag(r, "RESTART")) = Ended(r)
  BY DEF Ended, EndsTask, Match, Action, None, AddFlag, Responses

\* Those that report none need no resolved future.
LEMMA NoReport ==
  /\ ~EndsTask(None)
  /\ \A w : ~EndsTask(Action({"CLOSE"}, NoTask, w))
  /\ \A w : ~EndsTask(Action({"CLOSE", "FATAL_ERROR"}, NoTask, w))
  /\ \A r \in Responses :
       /\ EndsTask(AddFlag(r, "RESTART")) <=> EndsTask(r)
       /\ AddFlag(r, "RESTART").task = r.task
  BY DEF EndsTask, Match, Action, None, AddFlag, Responses

\* TaskInv says of the state what Placed says of its parts.
LEMMA NowPlaced ==
  ASSUME TypeOK, TaskInv
  PROVE  Placed(taskBus, task, response, responseBus, currTasks)
  BY DEF TypeOK, PoolStateTypeOK, ThreadWorkerTypeOK, TableTypeOK, TaskInv, Placed

\* A worker moves a task from the bus to its hand, to its answer and to the
\* response bus.
LEMMA WorkerPlaces ==
  ASSUME TypeOK, TaskInv, NEW w \in Workers, WorkerStep(w) \/ TimeOut(w)
  PROVE  Placed(taskBus', task', response', responseBus', currTasks)
<1>1. Placed(taskBus, task, response, responseBus, currTasks)
  BY NowPlaced
<1>2. /\ taskBus \in Seq(Tasks) /\ response \in [Workers -> Responses]
      /\ response[w] \in Responses
  BY DEF TypeOK, PoolStateTypeOK, ThreadWorkerTypeOK
<1>3. CASE NoRequest(w) \/ CheckRunning(w) \/ GetEmpty(w) \/ BeginTask(w)
           \/ ClearThread(w)
  BY <1>1, <1>3 DEF NoRequest, CheckRunning, GetEmpty, BeginTask, ClearThread,
                    busVars, workerLocals
<1>4. CASE GetTask(w)
  BY <1>1, <1>4, TakePlaced DEF GetTask
<1>5. ASSUME NEW r \in Responses, Ended(r) \in {Ended(response[w]), NoTask},
             response' = [response EXCEPT ![w] = r],
             UNCHANGED <<taskBus, responseBus, task>>
      PROVE  Placed(taskBus', task', response', responseBus', currTasks)
  BY <1>1, <1>5, AmendPlaced
<1>6. ASSUME NEW r \in Responses, Ended(r) = NoTask,
             response' = [response EXCEPT ![w] = r],
             responseBus' = Append(responseBus, response[w]),
             UNCHANGED <<taskBus, task>>
      PROVE  Placed(taskBus', task', response', responseBus', currTasks)
  BY <1>1, <1>6, SendPlaced
<1>7. CASE Boot(w)
  BY <1>5, <1>7, NoneType, EndedFacts DEF Boot, busVars
<1>8. CASE TimeOut(w)
  <2>1. Action({"CLOSE"}, NoTask, w) \in Responses
    BY ActionType DEF Flags
  <2>2. QED
    BY <1>5, <1>8, <2>1, EndedFacts DEF TimeOut, busVars
<1>9. CASE HandleRequest(w)
  <2> DEFINE request == Head(requestBus[w])
             r == IF Match(request, {"CLOSE", "RESTART"})
                  THEN Action(request.flag, NoTask, w) ELSE response[w]
  <2>1. response' = [response EXCEPT ![w] = r]
    BY <1>9 DEF HandleRequest
  <2>2. request \in Responses
    BY <1>9 DEF HandleRequest, TypeOK, PoolStateTypeOK
  <2>3. Action(request.flag, NoTask, w) \in Responses
    BY <2>2, ActionType DEF Responses
  <2>4. r \in Responses /\ Ended(r) \in {Ended(response[w]), NoTask}
    BY <1>2, <2>3, EndedFacts
  <2>5. UNCHANGED <<taskBus, responseBus, task>>
    BY <1>9 DEF HandleRequest
  <2> HIDE DEF r
  <2>6. QED
    BY <1>5, <2>1, <2>4, <2>5
<1>10. CASE RunTask(w)
  <2>1. PICK o \in {"result", "exception", "exit"} : Conclude(w, o)
    BY <1>10, ThreadWorkerAssumption DEF RunTask
  <2>2. /\ task' = [task EXCEPT ![w] = NoTask]
        /\ UNCHANGED <<taskBus, responseBus>>
    BY <1>10 DEF RunTask, busVars
  <2>3. CASE response' = response
    BY <1>1, <2>2, <2>3, ReleasePlaced
  <2>4. ASSUME NEW flag \in {"DONE", "EXCEPTION"},
               response' = [response EXCEPT ![w] = Action({flag}, task[w], w)]
        PROVE  Placed(taskBus', task', response', responseBus', currTasks)
    <3>1. Action({flag}, task[w], w) \in Responses
      BY ActionType DEF Flags, TypeOK, ThreadWorkerTypeOK
    <3>2. QED
      BY <1>1, <2>2, <2>4, <3>1, AnswerPlaced, EndedFacts
  <2>5. QED
    BY <2>1, <2>3, <2>4 DEF Conclude
<1>11. CASE FinishAndRestart(w)
  BY <1>2, <1>5, <1>11, AddFlagType, EndedFacts
     DEF FinishAndRestart, EnterFinally, Flags
<1>12. CASE FinishAndContinue(w) \/ FinishAndDie(w)
  BY <1>6, <1>12, NoneType, EndedFacts
     DEF FinishAndContinue, FinishAndDie, EnterFinally
<1>13. CASE FinishAndFail(w)
  <2>1. Action({"CLOSE", "FATAL_ERROR"}, NoTask, w) \in Responses
    BY ActionType DEF Flags
  <2>2. QED
    BY <1>5, <1>6, <1>13, <2>1, EndedFacts DEF FinishAndFail, EnterFinally
<1>14. CASE Quit(w)
  BY <1>5, <1>6, <1>14, NoneType, EndedFacts DEF Quit
<1>15. QED
  BY <1>3, <1>4, <1>7, <1>8, <1>9, <1>10, <1>11, <1>12, <1>13, <1>14
     DEF WorkerStep

\* A response whose task has a resolved future: it stays so.
LEMMA ReportStays ==
  ASSUME \A t \in Tasks : Resolved(t) => Resolved(t)',
         NEW r, ReportOK(r, future)
  PROVE  ReportOK(r, future')
  BY DEF ReportOK, Resolved

\* A worker resolves the future of its task before it reports its end.
LEMMA WorkerReports ==
  ASSUME TypeOK, TaskInv, NEW w \in Workers, WorkerStep(w) \/ TimeOut(w)
  PROVE  /\ ReportsResolved'
         /\ \A t \in Tasks : \/ future'[t] = future[t]
                             \/ future[t] = "pending" /\ Resolved(t)'
<1> USE DEF TypeOK, PoolStateTypeOK, ThreadWorkerTypeOK
<1>1. /\ response[w] \in Responses /\ ReportOK(response[w], future)
      /\ responseBus \in Seq(Responses) /\ ReportsResolved
  BY DEF TaskInv, ReportsResolved
<1>2. \A t \in Tasks : \/ future'[t] = future[t]
                       \/ future[t] = "pending" /\ Resolved(t)'
  <2>1. CASE UNCHANGED future
    BY <2>1
  <2>2. CASE RunTask(w)
    <3>1. PICK o \in {"result", "exception", "exit"} : Conclude(w, o)
      BY <2>2, ThreadWorkerAssumption DEF RunTask
    <3>2. CASE UNCHANGED future
      BY <3>2
    <3>3. CASE ~UNCHANGED future
      BY <3>1, <3>3 DEF Conclude, Settable, Resolved
    <3>4. QED
      BY <3>2, <3>3
  <2>3. QED
    BY <2>1, <2>2
       DEF WorkerStep, TimeOut, Boot, HandleRequest, NoRequest, CheckRunning,
           GetTask, GetEmpty, BeginTask, FinishAndRestart, FinishAndContinue,
           FinishAndFail, FinishAndDie, EnterFinally, Quit, ClearThread,
           busVars
<1>3. \A r : ReportOK(r, future) => ReportOK(r, future')
  BY <1>2, ReportStays DEF Resolved
<1>4. ASSUME NEW r, ReportOK(r, future'), response' = [response EXCEPT ![w] = r]
      PROVE  \A v \in Workers : ReportOK(response'[v], future')
  <2>1. TAKE v \in Workers
  <2>2. CASE v = w
    BY <1>4, <2>2 DEF ReportOK
  <2>3. CASE v # w
    <3>1. response'[v] = response[v]
      BY <1>4, <2>3
    <3>2. ReportOK(response[v], future)
      BY <1>1 DEF ReportsResolved
    <3>3. QED
      BY <1>3, <3>1, <3>2 DEF ReportOK
  <2>4. QED
    BY <2>2, <2>3
<1>5. ASSUME UNCHANGED responseBus
      PROVE  \A j \in DOMAIN responseBus' : ReportOK(responseBus'[j], future')
  BY <1>1, <1>3, <1>5 DEF ReportsResolved, ReportOK
<1>6. ASSUME responseBus' = Append(responseBus, response[w])
      PROVE  \A j \in DOMAIN responseBus' : ReportOK(responseBus'[j], future')
  <2>1. TAKE j \in DOMAIN responseBus'
  <2>2. \/ j \in DOMAIN responseBus /\ responseBus'[j] = responseBus[j]
        \/ responseBus'[j] = response[w]
    BY <1>1, <1>6, AppendFacts
  <2>3. ReportOK(responseBus'[j], future)
    BY <1>1, <2>2 DEF ReportsResolved
  <2>4. QED
    BY <1>3, <2>3 DEF ReportOK
<1>7. ASSUME UNCHANGED <<response, responseBus>>
      PROVE  ReportsResolved'
  <2>1. \A v \in Workers : ReportOK(response'[v], future')
    BY <1>1, <1>3, <1>7 DEF ReportsResolved, ReportOK
  <2>2. QED
    BY <1>5, <1>7, <2>1 DEF ReportsResolved
<1>8. ASSUME NEW r \in Responses, ReportOK(r, future'),
             response' = [response EXCEPT ![w] = r],
             \/ UNCHANGED responseBus
             \/ responseBus' = Append(responseBus, response[w])
      PROVE  ReportsResolved'
  BY <1>4, <1>5, <1>6, <1>8 DEF ReportsResolved
<1>9. CASE NoRequest(w) \/ CheckRunning(w) \/ GetTask(w) \/ GetEmpty(w)
           \/ BeginTask(w) \/ ClearThread(w)
  BY <1>7, <1>9 DEF NoRequest, CheckRunning, GetTask, GetEmpty, BeginTask,
                    ClearThread, busVars, workerLocals
<1>10. CASE Boot(w) \/ FinishAndContinue(w) \/ FinishAndDie(w) \/ Quit(w)
  <2>1. ReportOK(None, future')
    BY NoReport DEF ReportOK
  <2>2. QED
    BY <1>8, <1>10, <2>1, NoneType
       DEF Boot, FinishAndContinue, FinishAndDie, EnterFinally, Quit, busVars
<1>11. CASE TimeOut(w)
  <2>1. /\ Action({"CLOSE"}, NoTask, w) \in Responses
        /\ ReportOK(Action({"CLOSE"}, NoTask, w), future')
    BY ActionType, NoReport DEF Flags, ReportOK
  <2>2. QED
    BY <1>8, <1>11, <2>1 DEF TimeOut, busVars
<1>12. CASE FinishAndFail(w)
  <2>1. /\ Action({"CLOSE", "FATAL_ERROR"}, NoTask, w) \in Responses
        /\ ReportOK(Action({"CLOSE", "FATAL_ERROR"}, NoTask, w), future')
    BY ActionType, NoReport DEF Flags, ReportOK
  <2>2. QED
    BY <1>8, <1>12, <2>1 DEF FinishAndFail, EnterFinally
<1>13. CASE FinishAndRestart(w)
  <2>1. AddFlag(response[w], "RESTART") \in Responses
    BY <1>1, AddFlagType DEF Flags
  <2>2. ReportOK(AddFlag(response[w], "RESTART"), future')
    BY <1>1, <1>3, NoReport DEF ReportOK
  <2>3. QED
    BY <1>8, <1>13, <2>1, <2>2 DEF FinishAndRestart, EnterFinally
<1>14. CASE HandleRequest(w)
  <2> DEFINE request == Head(requestBus[w])
             r == IF Match(request, {"CLOSE", "RESTART"})
                  THEN Action(request.flag, NoTask, w) ELSE response[w]
  <2>1. request.flag = {"CLOSE"}
    BY <1>14 DEF HandleRequest, TaskInv, RequestsClose
  <2>2. Action(request.flag, NoTask, w) \in Responses
    BY <2>1, ActionType DEF Flags
  <2>3. ReportOK(Action(request.flag, NoTask, w), future')
    BY <2>1, NoReport DEF ReportOK
  <2>4. r \in Responses /\ ReportOK(r, future')
    BY <1>1, <1>3, <2>2, <2>3
  <2>5. /\ response' = [response EXCEPT ![w] = r]
        /\ UNCHANGED responseBus
    BY <1>14 DEF HandleRequest
  <2> HIDE DEF r
  <2>6. QED
    BY <1>2, <1>8, <2>4, <2>5
<1>15. CASE RunTask(w)
  <2>1. PICK o \in {"result", "exception", "exit"} : Conclude(w, o)
    BY <1>15, ThreadWorkerAssumption DEF RunTask
  <2>2. UNCHANGED responseBus
    BY <1>15 DEF RunTask, busVars
  <2>3. task[w] \in Tasks
    BY <1>15 DEF RunTask, TaskInv, HandFull
  <2>4. CASE UNCHANGED response
    BY <1>2, <1>7, <2>2, <2>4
  <2>5. ASSUME NEW flag \in {"DONE", "EXCEPTION"},
               future' = [future EXCEPT ![task[w]] = o], o # "exit",
               response' = [response EXCEPT ![w] = Action({flag}, task[w], w)]
        PROVE  ReportsResolved'
    <3>1. Action({flag}, task[w], w) \in Responses
      BY <2>3, ActionType DEF Flags
    <3>2. future'[task[w]] \in {"cancelled", "result", "exception"}
      BY <2>3, <2>5
    <3>3. ReportOK(Action({flag}, task[w], w), future')
      BY <2>3, <3>2 DEF ReportOK, Action
    <3>4. QED
      BY <1>8, <2>2, <2>5, <3>1, <3>3
  <2>6. QED
    BY <1>2, <2>1, <2>4, <2>5 DEF Conclude
<1>16. QED
  BY <1>2, <1>9, <1>10, <1>11, <1>12, <1>13, <1>14, <1>15 DEF WorkerStep

-----------------------------------------------------------------------------
\* Futures that only get resolved do not disturb the clients.
LEMMA FuturesResolve ==
  ASSUME TypeOK, TaskInv, UNCHANGED <<currTasks, cpc, cTask>>,
         \A t \in Tasks : \/ future'[t] = future[t]
                          \/ future[t] = "pending" /\ Resolved(t)'
  PROVE  QueuedIsNew' /\ ForgottenResolved'
<1>1. QueuedIsNew'
  BY DEF TypeOK, TableTypeOK, ClientTypeOK, TaskInv, QueuedIsNew, Submitted, Resolved
<1>2. ForgottenResolved'
  BY DEF TypeOK, TableTypeOK, TaskInv, ForgottenResolved, Submitted, Resolved
<1>3. QED
  BY <1>1, <1>2

\* A step of a worker's thread keeps the invariant of the tasks.
LEMMA WorkerKeepsTaskInv ==
  ASSUME TypeOK, TaskInv, NEW w \in Workers, RunWorker(w) \/ WorkerGivesUp(w)
  PROVE  TaskInv'
<1>1. /\ WorkerStep(w) \/ TimeOut(w)
      /\ UNCHANGED <<currTasks, cpc, cTask>>
  BY DEF RunWorker, WorkerGivesUp, tableVars, clientVars
<1>2. /\ OnePlace(taskBus, task, response, responseBus)'
      /\ Tracked(taskBus, task, response, responseBus, currTasks)'
  BY <1>1, WorkerPlaces DEF Placed
<1>3. ReportsResolved' /\ QueuedIsNew' /\ ForgottenResolved'
  BY <1>1, WorkerReports, FuturesResolve
<1>4. RequestsClose'
  <2>1. CASE UNCHANGED requestBus
    BY <2>1 DEF TaskInv, RequestsClose
  <2>2. CASE HandleRequest(w)
    <3>1. requestBus[w] \in Seq(Responses) /\ requestBus[w] # <<>>
      BY <2>2 DEF HandleRequest, TypeOK, PoolStateTypeOK
    <3>2. \A i \in DOMAIN Tail(requestBus[w]) :
            Tail(requestBus[w])[i].flag = {"CLOSE"}
      BY <3>1, TailFacts DEF TaskInv, RequestsClose
    <3>3. requestBus' = [requestBus EXCEPT ![w] = Tail(@)]
      BY <2>2 DEF HandleRequest
    <3>4. QED
      BY <3>2, <3>3 DEF TaskInv, RequestsClose, TypeOK, PoolStateTypeOK
  <2>3. QED
    BY <1>1, <2>1, <2>2
       DEF WorkerStep, TimeOut, Boot, NoRequest, CheckRunning, GetTask,
           GetEmpty, BeginTask, RunTask, FinishAndRestart, FinishAndContinue,
           FinishAndFail, FinishAndDie, EnterFinally, Quit, ClearThread,
           busVars
<1>5. HandFull'
  <2> USE DEF TypeOK, PoolStateTypeOK, ThreadWorkerTypeOK, TaskInv, HandFull, Goto
  <2>1. CASE GetTask(w)
    <3>1. Head(taskBus) \in Tasks
      BY <2>1 DEF GetTask
    <3>2. QED
      BY <2>1, <3>1 DEF GetTask
  <2>2. CASE BeginTask(w)
    BY <2>2 DEF BeginTask, CancelledFlag, workerLocals
  <2>3. CASE RunTask(w)
    BY <2>3 DEF RunTask
  <2>4. CASE ~GetTask(w) /\ ~BeginTask(w) /\ ~RunTask(w)
    <3>1. /\ task' = task
          /\ \E label \in {"top", "requests", "check", "get", "finally", "quit",
                           "clear", "ended", "died"} :
               pc' = [pc EXCEPT ![w] = label]
      BY <1>1, <2>4
         DEF WorkerStep, TimeOut, Boot, HandleRequest, NoRequest, CheckRunning,
             GetEmpty, FinishAndRestart, FinishAndContinue,
             FinishAndFail, FinishAndDie, EnterFinally, Quit, ClearThread,
             workerLocals
    <3>2. QED
      BY <3>1
  <2>5. QED
    BY <2>1, <2>2, <2>3, <2>4
<1>6. QED
  BY <1>2, <1>3, <1>4, <1>5 DEF TaskInv

-----------------------------------------------------------------------------
\* A step that leaves tasks, responses and futures where they are.
LEMMA FrameKeepsTaskInv ==
  ASSUME TypeOK, TaskInv,
         UNCHANGED <<taskBus, responseBus, future, currTasks, task, response>>,
         RequestsClose',
         pc' = pc \/ \E w \in Workers : pc' = [pc EXCEPT ![w] = "boot"],
         \/ UNCHANGED <<cpc, cTask>>
         \/ \E c \in Clients :
              /\ cTask' = cTask \/ cTask' = [cTask EXCEPT ![c] = NoTask]
              /\ \E label : label # "queue" /\ cpc' = [cpc EXCEPT ![c] = label]
  PROVE  TaskInv'
<1>1. HandFull'
  BY DEF TaskInv, HandFull, TypeOK, PoolStateTypeOK
<1>2. QueuedIsNew'
  BY DEF TaskInv, QueuedIsNew, TypeOK, ClientTypeOK, Submitted
<1>3. ForgottenResolved' /\ ReportsResolved'
  BY DEF TaskInv, ForgottenResolved, ReportsResolved, Submitted, Resolved
<1>4. /\ OnePlace(taskBus, task, response, responseBus)'
      /\ Tracked(taskBus, task, response, responseBus, currTasks)'
  BY DEF TaskInv
<1>5. QED
  BY <1>1, <1>2, <1>3, <1>4 DEF TaskInv

\* The manager takes a response: the end it reports is that of a task whose
\* future is resolved, and which is nowhere else.  A manager that is killed
\* with the response in its hand may leave the task in the table.
LEMMA ResponseKeepsTaskInv ==
  ASSUME TypeOK, TaskInv, TakeResponse \/ KilledConsuming, UNCHANGED workerLocals
  PROVE  TaskInv'
<1> DEFINE r == Head(responseBus)
<1>1. /\ responseBus \in Seq(Responses) /\ responseBus # <<>>
      /\ r \in Responses /\ ReportOK(r, future)
  BY TailFacts DEF TakeResponse, KilledConsuming, TypeOK, PoolStateTypeOK, TaskInv,
                   ReportsResolved
<1>2. UNCHANGED <<taskBus, requestBus, future, pc, task, response, cpc, cTask>>
  BY DEF TakeResponse, KilledConsuming, workerLocals, flagVars, clientVars
<1>3. /\ currTasks' \in {currTasks, currTasks \ {Ended(r)}}
      /\ responseBus' = Tail(responseBus)
  BY PoolStateAssumption
     DEF TakeResponse, KilledConsuming, TasksAfter, Ended, TypeOK, TableTypeOK
<1>4. Placed(taskBus', task', response', responseBus', currTasks')
  BY <1>1, <1>2, <1>3, NowPlaced, ReceivePlaced, DropPlaced
<1>5. QueuedIsNew' /\ HandFull' /\ RequestsClose'
  BY <1>2, <1>3 DEF TaskInv, QueuedIsNew, HandFull, RequestsClose, Submitted
<1>6. ReportsResolved'
  <2>1. \A j \in DOMAIN Tail(responseBus) : ReportOK(Tail(responseBus)[j], future)
    BY <1>1, TailFacts DEF TaskInv, ReportsResolved
  <2>2. QED
    BY <1>2, <1>3, <2>1 DEF TaskInv, ReportsResolved
<1>7. ForgottenResolved'
  BY <1>1, <1>2, <1>3, PoolStateAssumption
     DEF TaskInv, ForgottenResolved, Submitted, Resolved, Ended, ReportOK
<1>8. QED
  BY <1>4, <1>5, <1>6, <1>7 DEF TaskInv, Placed

\* A step of the manager's thread keeps the invariant of the tasks.
LEMMA ManagerKeepsTaskInv ==
  ASSUME TypeOK, TaskInv, ManagerStep \/ ManagerIdleOut \/ ManagerKilled \/ KilledConsuming,
         UNCHANGED workerLocals
  PROVE  TaskInv'
<1>1. CASE ConsumeFails \/ ConsumeResponse \/ KilledConsuming
  BY <1>1, ResponseKeepsTaskInv DEF ConsumeFails, ConsumeResponse
<1>2. CASE CloseWorker
  <2> DEFINE w == Min(todo)
             close == Action({"CLOSE"}, NoTask, NoWorker)
  <2>1. requestBus' = [requestBus EXCEPT ![w] = Append(@, close)]
    BY <1>2 DEF CloseWorker
  <2>2. w \in Workers
    BY <1>2, MinInSet, WorkersNat DEF CloseWorker, TypeOK, ManagerTypeOK
  <2>3. requestBus[w] \in Seq(Responses) /\ close \in Responses
    BY <2>2, ActionType DEF Flags, TypeOK, PoolStateTypeOK
  <2>4. close.flag = {"CLOSE"}
    BY DEF Action
  <2> HIDE DEF close, w
  <2>5. \A i \in DOMAIN Append(requestBus[w], close) :
          Append(requestBus[w], close)[i].flag = {"CLOSE"}
    BY <2>2, <2>3, <2>4, AppendFacts DEF TaskInv, RequestsClose
  <2>6. RequestsClose'
    BY <2>1, <2>2, <2>5 DEF TaskInv, RequestsClose, TypeOK, PoolStateTypeOK
  <2>7. UNCHANGED <<taskBus, responseBus, future, currTasks, task, response,
                    pc, cpc, cTask>>
    BY <1>2 DEF CloseWorker, workerLocals, flagVars, tableVars, clientVars
  <2>8. QED
    BY <2>6, <2>7, FrameKeepsTaskInv
<1>3. CASE RestartWorker
  <2>1. UNCHANGED <<taskBus, responseBus, requestBus, future, currTasks, task,
                    response, cpc, cTask>>
    BY <1>3 DEF RestartWorker, workerLocals, busVars, tableVars, clientVars
  <2>2. pc' = pc \/ pc' = [pc EXCEPT ![handled] = "boot"]
    BY <1>3 DEF RestartWorker, StartThread
  <2>3. pc' = pc \/ \E w \in Workers : pc' = [pc EXCEPT ![w] = "boot"]
    BY <2>2 DEF TypeOK, PoolStateTypeOK
  <2>4. RequestsClose'
    BY <2>1 DEF TaskInv, RequestsClose
  <2>5. QED
    BY <2>1, <2>3, <2>4, FrameKeepsTaskInv
<1>4. CASE ~ (\/ ConsumeFails \/ ConsumeResponse \/ KilledConsuming
              \/ CloseWorker \/ RestartWorker)
  <2>1. UNCHANGED <<taskBus, responseBus, requestBus, future, currTasks, task,
                    response, pc, cpc, cTask>>
    BY <1>4 DEF ManagerStep, ManagerIdleOut, ManagerKilled, ManagerBoot,
                ManagerCheck, BusDrained, ManagerDown, StopFlag, StopAlive,
                StopJoin, StopJoined, StopDone, StopUnchanged, RestartReturns,
                IterationFails, CloseDone, HaltWorker, ManagerEnd,
                poolVars, busVars, flagVars, workerLocals, tableVars, clientVars
  <2>2. RequestsClose'
    BY <2>1 DEF TaskInv, RequestsClose
  <2>3. QED
    BY <2>1, <2>2, FrameKeepsTaskInv
<1>5. QED
  BY <1>1, <1>2, <1>3, <1>4

-----------------------------------------------------------------------------
\* submit() puts a task on the bus that was in no place before.
LEMMA QueueKeepsTaskInv ==
  ASSUME TypeOK, TaskInv, NEW c \in Clients, Queue(c), UNCHANGED workerLocals
  PROVE  TaskInv'
<1> DEFINE t == cTask[c]
<1>1. t \in Tasks /\ future[t] = "unsubmitted" /\ t \notin currTasks
  BY DEF Queue, TaskInv, QueuedIsNew, Submitted
<1>2. UNCHANGED <<responseBus, requestBus, pc, task, response, cTask>>
  BY DEF Queue, workerLocals, flagVars
<1>3. /\ taskBus' = Append(taskBus, t) /\ currTasks' = currTasks \cup {t}
      /\ future' = [future EXCEPT ![t] = "pending"]
      /\ cpc' = [cpc EXCEPT ![c] = "adjust"]
  BY DEF Queue, CGoto
<1>4. Placed(taskBus', task', response', responseBus', currTasks')
  BY <1>1, <1>2, <1>3, NowPlaced, QueuePlaced
<1>5. QueuedIsNew'
  <2>1. \A u \in currTasks : u \in Tasks /\ Submitted(u)
    BY DEF TaskInv, QueuedIsNew, TypeOK, TableTypeOK
  <2>2. \A u \in currTasks' : Submitted(u)'
    BY <1>1, <1>3, <2>1 DEF Submitted, TypeOK, PoolStateTypeOK
  <2>3. \A d \in Clients :
          cpc'[d] = "queue" => d # c /\ cTask[d] \in Tasks /\ cTask[d] # t
                               /\ future[cTask[d]] = "unsubmitted"
    BY <1>1, <1>3, PoolStateAssumption
       DEF TaskInv, QueuedIsNew, TypeOK, ClientTypeOK
  <2>4. \A d \in Clients : cpc'[d] = "queue" => future'[cTask[d]] = "unsubmitted"
    BY <1>1, <1>3, <2>3 DEF TypeOK, PoolStateTypeOK
  <2>5. QED
    BY <1>2, <2>2, <2>3, <2>4 DEF TaskInv, QueuedIsNew
<1>6. ReportsResolved'
  <2>1. \A r : ReportOK(r, future) => ReportOK(r, future')
    BY <1>1, <1>3, ReportStays DEF TypeOK, PoolStateTypeOK, Resolved
  <2>2. QED
    BY <1>2, <2>1 DEF TaskInv, ReportsResolved
<1>7. ForgottenResolved'
  BY <1>1, <1>3 DEF TaskInv, ForgottenResolved, Submitted, Resolved, TypeOK,
                    PoolStateTypeOK
<1>8. HandFull' /\ RequestsClose'
  BY <1>2 DEF TaskInv, HandFull, RequestsClose
<1>9. QED
  BY <1>4, <1>5, <1>6, <1>7, <1>8 DEF TaskInv, Placed

\* submit() picks a task that is new and that no other client submits.
LEMMA SubmitKeepsTaskInv ==
  ASSUME TypeOK, TaskInv, NEW c \in Clients, NEW t \in Tasks, Submit(c, t),
         UNCHANGED workerLocals
  PROVE  TaskInv'
<1>1. UNCHANGED <<taskBus, responseBus, requestBus, pc, task, response, currTasks>>
  BY DEF Submit, busVars, flagVars, tableVars, workerLocals
<1>2. /\ OnePlace(taskBus, task, response, responseBus)'
      /\ Tracked(taskBus, task, response, responseBus, currTasks)'
      /\ HandFull' /\ RequestsClose'
  BY <1>1 DEF TaskInv, HandFull, RequestsClose
<1>3. /\ future[t] = "unsubmitted" /\ \A d \in Clients : cTask[d] # t
      /\ \/ /\ future' = future /\ cpc' = [cpc EXCEPT ![c] = "queue"]
            /\ cTask' = [cTask EXCEPT ![c] = t]
         \/ /\ future' = [future EXCEPT ![t] = "rejected"]
            /\ UNCHANGED <<cpc, cTask>>
  BY DEF Submit, CGoto
<1>4. QueuedIsNew'
  <2>1. \A u \in currTasks : u \in Tasks /\ Submitted(u)
    BY DEF TaskInv, QueuedIsNew, TypeOK, TableTypeOK
  <2>2. \A u \in currTasks : Submitted(u)'
    BY <1>3, <2>1 DEF Submitted, TypeOK, PoolStateTypeOK
  <2>3. \A d \in Clients : cpc'[d] = "queue" => /\ cTask'[d] \in Tasks
                                                /\ future'[cTask'[d]] = "unsubmitted"
    BY <1>3 DEF TaskInv, QueuedIsNew, TypeOK, PoolStateTypeOK, ClientTypeOK
  <2>4. \A d, e \in Clients : cTask'[d] = cTask'[e] => d = e \/ cTask'[d] = NoTask
    BY <1>3 DEF TaskInv, QueuedIsNew, TypeOK, ClientTypeOK
  <2>5. QED
    BY <1>1, <2>2, <2>3, <2>4 DEF QueuedIsNew
<1>5. \A u \in Tasks : Resolved(u) => Resolved(u)'
  BY <1>3 DEF Resolved, TypeOK, PoolStateTypeOK
<1>6. ReportsResolved'
  <2>1. \A r : ReportOK(r, future) => ReportOK(r, future')
    BY <1>5, ReportStays
  <2>2. QED
    BY <1>1, <2>1 DEF TaskInv, ReportsResolved
<1>7. ForgottenResolved'
  BY <1>1, <1>3, <1>5 DEF TaskInv, ForgottenResolved, Submitted, TypeOK,
                          PoolStateTypeOK
<1>8. QED
  BY <1>2, <1>4, <1>6, <1>7 DEF TaskInv

\* A cancelled future is a resolved one: nothing else changes.
LEMMA CancelKeepsTaskInv ==
  ASSUME TypeOK, TaskInv, NEW t \in Tasks, Cancel(t), UNCHANGED workerLocals
  PROVE  TaskInv'
<1>1. /\ UNCHANGED <<taskBus, responseBus, requestBus, pc, task, response,
                     currTasks, cpc, cTask>>
      /\ future[t] = "pending" /\ future' = [future EXCEPT ![t] = "cancelled"]
  BY DEF Cancel, CancelFuture, busVars, flagVars, tableVars, clientVars,
         workerLocals
<1>2. /\ OnePlace(taskBus, task, response, responseBus)'
      /\ Tracked(taskBus, task, response, responseBus, currTasks)'
      /\ HandFull' /\ RequestsClose'
  BY <1>1 DEF TaskInv, HandFull, RequestsClose
<1>3. \A u \in Tasks : \/ future'[u] = future[u]
                       \/ future[u] = "pending" /\ Resolved(u)'
  BY <1>1 DEF TypeOK, PoolStateTypeOK, Resolved
<1>4. QueuedIsNew' /\ ForgottenResolved'
  BY <1>1, <1>3, FuturesResolve
<1>5. ReportsResolved'
  <2>1. \A r : ReportOK(r, future) => ReportOK(r, future')
    BY <1>3, ReportStays DEF Resolved
  <2>2. QED
    BY <1>1, <2>1 DEF TaskInv, ReportsResolved
<1>6. QED
  BY <1>2, <1>4, <1>5 DEF TaskInv

\* The other steps of a client leave tasks and futures alone.
LEMMA CallKeepsTaskInv ==
  ASSUME TypeOK, TaskInv, NEW c \in Clients, UNCHANGED workerLocals,
         \/ ClientStep(c) /\ ~Queue(c)
         \/ Start(c) \/ Stop(c) \/ Terminate(c) \/ StopGivesUp(c)
  PROVE  TaskInv'
<1>1. UNCHANGED <<taskBus, responseBus, requestBus, future, currTasks, task,
                  response>>
  BY DEF ClientStep, Start, Stop, Terminate, CallStop, StopGivesUp,
         StartReturns, AdjustWorkers, CountTasks, ScanFails, ScanWorker,
         ScanDone, SpawnWorker, SpawnReturns, SubmitReturns, StopTestsAlive,
         TerminateTestsAlive, TestsAlive, StopCallsJoin, StopReturns,
         StopExpired, StopRaises, TerminateKills, StopCallUnchanged,
         poolVars, busVars, tableVars, workerLocals
<1>2. pc' = pc \/ \E w \in Workers : pc' = [pc EXCEPT ![w] = "boot"]
  <2>1. CASE SpawnWorker(c)
    <3>1. nextWorker \in Workers
      BY <2>1, PoolStateAssumption
         DEF SpawnWorker, Workers, TypeOK, TableTypeOK
    <3>2. QED
      BY <2>1, <3>1 DEF SpawnWorker, StartThread
  <2>2. CASE ~SpawnWorker(c)
    BY <2>2
       DEF ClientStep, Start, Stop, Terminate, CallStop, StopGivesUp,
           StartReturns, AdjustWorkers, CountTasks, ScanFails, ScanWorker,
           ScanDone, SpawnReturns, SubmitReturns, StopTestsAlive,
           TerminateTestsAlive, TestsAlive, StopCallsJoin, StopReturns,
           StopExpired, StopRaises, TerminateKills, StopCallUnchanged,
           poolVars, flagVars
  <2>3. QED
    BY <2>1, <2>2
<1>3. cTask' = cTask \/ cTask' = [cTask EXCEPT ![c] = NoTask]
  BY DEF ClientStep, Start, Stop, Terminate, CallStop, StopGivesUp,
         StartReturns, AdjustWorkers, CountTasks, ScanFails, ScanWorker,
         ScanDone, SpawnWorker, SpawnReturns, SubmitReturns, StopTestsAlive,
         TerminateTestsAlive, TestsAlive, StopCallsJoin, StopReturns,
         StopExpired, StopRaises, TerminateKills, StopCallUnchanged, EndSubmit
<1>4. UNCHANGED cpc \/ \E label : label # "queue" /\ cpc' = [cpc EXCEPT ![c] = label]
  <2>1. CASE UNCHANGED cpc
    BY <2>1
  <2>2. CASE ~UNCHANGED cpc
    <3>1. \E label \in {"idle", "starting", "adjust", "count", "scan", "spawn",
                        "spin", "stop2", "stop3", "join", "expired",
                        "expired2", "kill2", "kill3"} : CGoto(c, label)
      BY <2>2
         DEF ClientStep, Start, Stop, Terminate, CallStop, StopGivesUp,
             StartReturns, AdjustWorkers, CountTasks, ScanFails, ScanWorker,
             ScanDone, SpawnWorker, SpawnReturns, SubmitReturns, StopTestsAlive,
             TerminateTestsAlive, TestsAlive, StopCallsJoin, StopReturns,
             StopExpired, StopRaises, TerminateKills, EndSubmit, EndStop
    <3>2. QED
      BY <3>1 DEF CGoto
  <2>3. QED
    BY <2>1, <2>2
<1>5. RequestsClose'
  BY <1>1 DEF TaskInv, RequestsClose
<1>6. \E d \in Clients :
         /\ cTask' = cTask \/ cTask' = [cTask EXCEPT ![d] = NoTask]
         /\ \E label : label # "queue" /\ cpc' = [cpc EXCEPT ![d] = label]
  <2>1. \E label : label # "queue" /\ cpc' = [cpc EXCEPT ![c] = label]
    <3>1. CASE UNCHANGED cpc
      <4>1. cpc' = [cpc EXCEPT ![c] = cpc[c]]
        BY <3>1 DEF TypeOK, ClientTypeOK
      <4>2. cpc[c] # "queue"
        BY DEF ClientStep, Start, Stop, Terminate, CallStop, StopGivesUp,
               StartReturns, AdjustWorkers, CountTasks, ScanFails, ScanWorker,
               ScanDone, SpawnWorker, SpawnReturns, SubmitReturns,
               StopTestsAlive, TerminateTestsAlive, TestsAlive, StopCallsJoin,
               StopReturns, StopExpired, StopRaises, TerminateKills
      <4>3. QED
        BY <4>1, <4>2
    <3>2. QED
      BY <1>4, <3>1
  <2>2. QED
    BY <1>3, <2>1
<1>7. QED
  BY <1>1, <1>2, <1>5, <1>6, FrameKeepsTaskInv

-----------------------------------------------------------------------------
\* At the start no task is anywhere.
LEMMA InitTaskInv == Init => TaskInv
<1> SUFFICES ASSUME Init PROVE TaskInv
  OBVIOUS
<1> USE DEF Init, PoolStateInit, ThreadWorkerInit, ThreadManagerInit
<1>1. OnePlace(taskBus, task, response, responseBus)
  BY EndedFacts DEF OnePlace
<1>2. Tracked(taskBus, task, response, responseBus, currTasks)
  BY EndedFacts DEF Tracked
<1>3. RequestsClose
  BY DEF RequestsClose
<1>4. ReportsResolved
  BY NoReport DEF ReportsResolved, ReportOK
<1>5. QueuedIsNew /\ HandFull /\ ForgottenResolved
  BY DEF QueuedIsNew, HandFull, ForgottenResolved, Submitted
<1>6. QED
  BY <1>1, <1>2, <1>3, <1>4, <1>5 DEF TaskInv

\* TaskInv is inductive, given the types.
LEMMA StepKeepsTaskInv == TypeOK /\ TaskInv /\ [Next]_vars => TaskInv'
<1> SUFFICES ASSUME TypeOK, TaskInv, [Next]_vars PROVE TaskInv'
  OBVIOUS
<1>1. ASSUME NEW w \in Workers, RunWorker(w) \/ WorkerGivesUp(w)
      PROVE  TaskInv'
  BY <1>1, WorkerKeepsTaskInv
<1>2. CASE RunManager \/ ManagerGivesUp
  BY <1>2, ManagerKeepsTaskInv DEF RunManager, ManagerGivesUp
<1>3. ASSUME NEW c \in Clients, RunClient(c) \/ ClientCalls(c)
      PROVE  TaskInv'
  BY <1>3, QueueKeepsTaskInv, SubmitKeepsTaskInv, CallKeepsTaskInv
     DEF RunClient, ClientCalls, ClientCall
<1>4. CASE CancelTask
  BY <1>4, CancelKeepsTaskInv DEF CancelTask
<1>5. CASE UNCHANGED vars
  <2>1. UNCHANGED <<taskBus, responseBus, requestBus, future, currTasks, task,
                    response, pc, cpc, cTask>>
    BY <1>5 DEF vars, poolVars, busVars, flagVars, workerLocals, tableVars,
                clientVars
  <2>2. RequestsClose'
    BY <2>1 DEF TaskInv, RequestsClose
  <2>3. QED
    BY <2>1, <2>2, FrameKeepsTaskInv
<1>6. QED
  BY <1>1, <1>2, <1>3, <1>4, <1>5 DEF Next, Terminated

\* The types and the invariant of the tasks hold in every reachable state.
LEMMA TaskInvHolds == Spec => [](TypeOK /\ TaskInv)
<1>1. TypeOK /\ TaskInv /\ [Next]_vars => (TypeOK /\ TaskInv)'
  BY StepKeepsType, StepKeepsTaskInv
<1>2. QED
  BY <1>1, InitType, InitTaskInv, PTL DEF Spec

\* What the elementwise form says about the places of one task.
LEMMA PlacesOfTask ==
  ASSUME TypeOK, TaskInv
  PROVE  TaskInOnePlace /\ TasksTracked
<1> USE PoolStateAssumption
<1>1. \A t \in Tasks :
        /\ \A r : Reports(r, t) => Ended(r) = t /\ Ended(r) # NoTask
        /\ t # NoTask
  BY DEF Reports, Ended
<1>2. /\ OnePlace(taskBus, task, response, responseBus)
      /\ Tracked(taskBus, task, response, responseBus, currTasks)
  BY DEF TaskInv
<1>3. TaskInOnePlace
  BY <1>1, <1>2 DEF OnePlace, TaskInOnePlace, AtMostOne, Waiting, BeingRun,
                    Answering, Reported
<1>4. TasksTracked
  BY <1>1, <1>2 DEF Tracked, TasksTracked, Waiting, BeingRun, Answering, Reported
<1>5. QED
  BY <1>3, <1>4

(***************************************************************************)
(* No interleaving of clients, workers and manager duplicates a task, or   *)
(* reports its end twice.                                                  *)
(***************************************************************************)
THEOREM TasksInOnePlace == Spec => []TaskInOnePlace
  BY TaskInvHolds, PlacesOfTask, PTL

(***************************************************************************)
(* A task that waits, runs or is being reported is in _curr_tasks: the pop *)
(* of _consume_response always finds it.                                   *)
(***************************************************************************)
THEOREM TasksAreTracked == Spec => []TasksTracked
  BY TaskInvHolds, PlacesOfTask, PTL

(***************************************************************************)
(* The manager forgets a task only once its future is resolved.            *)
(***************************************************************************)
THEOREM ForgottenAreResolved == Spec => []ForgottenResolved
<1>1. TypeOK /\ TaskInv => ForgottenResolved
  BY DEF TaskInv
<1>2. QED
  BY <1>1, TaskInvHolds, PTL

-----------------------------------------------------------------------------
(***************************************************************************)
(* What the threads of a ThreadPool say at their end.                      *)
(***************************************************************************)
\* A response announces an end iff it bears one of two flags.
LEMMA ExitFacts ==
  /\ ~Exits(None)
  /\ \A r : Exits(r) <=> "CLOSE" \in r.flag \/ "RESTART" \in r.flag
  /\ \A t, w : ~Exits(Action({"DONE"}, t, w)) /\ ~Exits(Action({"EXCEPTION"}, t, w))
<1>1. \A r : Exits(r) <=> "CLOSE" \in r.flag \/ "RESTART" \in r.flag
  BY DEF Exits, Closes, Restarts, Match
<1>2. QED
  BY <1>1 DEF None, Action

\* An Action has the worker and the flags it is given.
LEMMA WorkerOfAction ==
  ASSUME NEW flag, NEW t, NEW w
  PROVE  Action(flag, t, w).worker = w /\ Action(flag, t, w).flag = flag
  BY DEF Action

\* An end is put on a bus on which its worker has none.
LEMMA EndAppended ==
  ASSUME NEW bus \in Seq(Responses), NEW r \in Responses, NEW E, NEW F,
         EndsListed(bus, E), E \subseteq F, Exits(r) => r.worker \in F \ E
  PROVE  EndsListed(Append(bus, r), F)
<1>1. \A i \in DOMAIN Append(bus, r) :
        \/ i \in DOMAIN bus /\ Append(bus, r)[i] = bus[i]
        \/ i = Len(bus) + 1 /\ Append(bus, r)[i] = r
  BY AppendFacts
<1> DEFINE b == Append(bus, r)
<1> HIDE DEF b
<1>2. \A i \in DOMAIN b : Exits(b[i]) => b[i].worker \in F
  BY <1>1 DEF EndsListed, b
<1>3. \A i, j \in DOMAIN b :
        Exits(b[i]) /\ Exits(b[j]) /\ b[i].worker = b[j].worker => i = j
  BY <1>1 DEF EndsListed, b
<1>4. QED
  BY <1>2, <1>3 DEF EndsListed, b

\* The worker whose end is taken off a bus has no other end on it.
LEMMA EndTaken ==
  ASSUME NEW bus \in Seq(Responses), bus # <<>>, NEW E, EndsListed(bus, E)
  PROVE  /\ EndsListed(Tail(bus), E)
         /\ Exits(Head(bus)) => /\ Head(bus).worker \in E
                                /\ EndsListed(Tail(bus), E \ {Head(bus).worker})
<1>1. /\ 1 \in DOMAIN bus /\ Head(bus) = bus[1]
      /\ \A i \in DOMAIN Tail(bus) :
           /\ i \in Nat /\ i + 1 \in DOMAIN bus /\ i + 1 # 1
           /\ Tail(bus)[i] = bus[i + 1]
  BY TailFacts
<1> DEFINE b == Tail(bus)
<1> HIDE DEF b
<1>2. \A i \in DOMAIN b : Exits(b[i]) =>
        b[i].worker \in E /\ (Exits(Head(bus)) => b[i].worker # Head(bus).worker)
  BY <1>1 DEF EndsListed, b
<1>3. \A i, j \in DOMAIN b :
        Exits(b[i]) /\ Exits(b[j]) /\ b[i].worker = b[j].worker => i = j
  <2>1. \A i, j \in DOMAIN b : i + 1 = j + 1 => i = j
    BY <1>1 DEF b
  <2>2. QED
    BY <1>1, <2>1 DEF EndsListed, b
<1>4. QED
  BY <1>1, <1>2, <1>3 DEF EndsListed, b

-----------------------------------------------------------------------------
(***************************************************************************)
(* What a step of the thread of worker w does to the control points, the   *)
(* flags and the answers.                                                  *)
(***************************************************************************)
Moves(w) ==
  /\ pc[w] \notin {"unborn", "ended", "died"}
  /\ pc' = [pc EXCEPT ![w] = pc'[w]]
  /\ pc'[w] \notin {"unborn", "boot"}
  /\ pc[w] = "clear" <=> pc'[w] = "ended"

Flips(w) ==
  /\ running' = [running EXCEPT ![w] = running'[w]]
  /\ thread' = [thread EXCEPT ![w] = thread'[w]]
  /\ pc'[w] = "clear" => ~running'[w]
  /\ pc'[w] = "ended" => running'[w] = running[w]
  /\ pc'[w] # "ended" => thread'[w] = thread[w]

Answers(w) ==
  /\ response' = [response EXCEPT ![w] = response'[w]]
  /\ response'[w] # None => response'[w].worker = w
  /\ phase # "halt" /\ Exits(response'[w]) => pc'[w] = "quit"

Announces(w) ==
  \/ UNCHANGED responseBus
  \/ /\ responseBus' = Append(responseBus, response[w])
     /\ phase # "halt" /\ Exits(response[w]) => pc[w] = "quit" /\ pc'[w] = "clear"

\* A thread that takes a step is alive, and is not created by its own step.
LEMMA WorkerMoves ==
  ASSUME TypeOK, NEW w \in Workers, WorkerStep(w) \/ TimeOut(w)
  PROVE  Moves(w)
<1> USE DEF TypeOK, PoolStateTypeOK, Moves, Goto
<1>1. CASE HandleRequest(w)
  <2> DEFINE label == IF Match(Head(requestBus[w]), {"CLOSE", "RESTART"})
                      THEN "check" ELSE "requests"
  <2>1. pc[w] \in {"top", "requests"} /\ pc' = [pc EXCEPT ![w] = label]
    BY <1>1 DEF HandleRequest
  <2>2. label \in {"check", "requests"}
    OBVIOUS
  <2> HIDE DEF label
  <2>3. QED
    BY <2>1, <2>2
<1>2. CASE BeginTask(w)
  BY <1>2 DEF BeginTask, CancelledFlag
<1>3. CASE ~HandleRequest(w) /\ ~BeginTask(w)
  <2>1. \E from, to \in {"boot", "top", "requests", "check", "get", "run",
                         "refuse", "begin", "finally", "quit", "clear",
                         "ended", "died"} :
          /\ pc[w] = from /\ pc' = [pc EXCEPT ![w] = to]
          /\ from # "ended" /\ from # "died" /\ to # "boot"
          /\ from = "clear" <=> to = "ended"
    <3>1. CASE Boot(w) \/ TimeOut(w) \/ NoRequest(w) \/ CheckRunning(w)
               \/ GetTask(w) \/ GetEmpty(w)
      BY <3>1 DEF Boot, TimeOut, NoRequest, CheckRunning, GetTask, GetEmpty
    <3>2. CASE RunTask(w) \/ FinishAndRestart(w) \/ FinishAndContinue(w)
               \/ FinishAndFail(w) \/ FinishAndDie(w)
      BY <3>2 DEF RunTask, FinishAndRestart, FinishAndContinue,
                  FinishAndFail, FinishAndDie, EnterFinally
    <3>3. CASE Quit(w) \/ ClearThread(w)
      BY <3>3 DEF Quit, ClearThread
    <3>4. QED
      BY <1>3, <3>1, <3>2, <3>3 DEF WorkerStep
  <2>2. QED
    BY <2>1
<1>4. QED
  BY <1>1, <1>2, <1>3

\* A worker clears `running` as it leaves its loop, `_thread` as it ends.
LEMMA WorkerFlips ==
  ASSUME TypeOK, NEW w \in Workers, WorkerStep(w) \/ TimeOut(w)
  PROVE  Flips(w)
<1> USE DEF TypeOK, PoolStateTypeOK, Flips, Goto
<1>1. CASE Boot(w)
  BY <1>1 DEF Boot
<1>2. CASE Quit(w)
  BY <1>2 DEF Quit
<1>3. CASE ClearThread(w)
  BY <1>3 DEF ClearThread
<1>4. CASE ~Boot(w) /\ ~Quit(w) /\ ~ClearThread(w)
  <2>1. UNCHANGED <<running, thread>>
    BY <1>4 DEF WorkerStep, TimeOut, HandleRequest, NoRequest, CheckRunning,
                GetTask, GetEmpty, BeginTask, RunTask, FinishAndRestart,
                FinishAndContinue, FinishAndFail, FinishAndDie, EnterFinally
  <2>2. pc'[w] # "clear"
    <3>1. pc' = [pc EXCEPT ![w] = pc'[w]]
      BY WorkerMoves DEF Moves
    <3>2. CASE HandleRequest(w) \/ CheckRunning(w) \/ BeginTask(w)
      BY <3>2 DEF HandleRequest, CheckRunning, BeginTask
    <3>3. CASE TimeOut(w) \/ NoRequest(w) \/ GetTask(w) \/ GetEmpty(w) \/ RunTask(w)
      BY <3>3 DEF TimeOut, NoRequest, GetTask, GetEmpty, RunTask
    <3>4. CASE FinishAndRestart(w) \/ FinishAndContinue(w)
               \/ FinishAndFail(w) \/ FinishAndDie(w)
      BY <3>4 DEF FinishAndRestart, FinishAndContinue, FinishAndFail, FinishAndDie
    <3>5. QED
      BY <1>4, <3>2, <3>3, <3>4 DEF WorkerStep
  <2>3. QED
    BY <2>1, <2>2
<1>5. QED
  BY <1>1, <1>2, <1>3, <1>4

\* A worker prepares an end only when it goes to its own end.
LEMMA WorkerAnswers ==
  ASSUME TypeOK, ExitInv, NEW w \in Workers, WorkerStep(w) \/ TimeOut(w),
         UNCHANGED phase
  PROVE  Answers(w) /\ Announces(w)
<1> USE ExitFacts DEF TypeOK, PoolStateTypeOK, ThreadWorkerTypeOK, Answers,
                      Announces, Goto
<1>1. /\ response[w] # None => response[w].worker = w
      /\ phase # "halt" => requestBus[w] = <<>>
      /\ phase # "halt" /\ Exits(response[w]) => pc[w] = "quit"
  BY DEF ExitInv, AnswersOK
<1>2. CASE UNCHANGED <<response, responseBus>> /\ pc[w] # "quit"
  BY <1>1, <1>2
<1>3. CASE Boot(w)
  BY <1>3 DEF Boot, busVars
<1>4. CASE TimeOut(w)
  BY <1>4, WorkerOfAction DEF TimeOut, busVars
<1>5. CASE HandleRequest(w)
  <2> DEFINE request == Head(requestBus[w])
             r == IF Match(request, {"CLOSE", "RESTART"})
                  THEN Action(request.flag, NoTask, w) ELSE response[w]
  <2>1. response' = [response EXCEPT ![w] = r] /\ UNCHANGED responseBus
    BY <1>5 DEF HandleRequest
  <2>2. phase = "halt"
    BY <1>1, <1>5 DEF HandleRequest
  <2>3. r # None => r.worker = w
    BY <1>1, WorkerOfAction
  <2> HIDE DEF r
  <2>4. QED
    BY <2>1, <2>2, <2>3
<1>6. CASE RunTask(w)
  <2>1. PICK o : Conclude(w, o)
    BY <1>6 DEF RunTask
  <2>2. /\ pc[w] # "quit" /\ UNCHANGED responseBus
        /\ \/ UNCHANGED response
           \/ \E flag \in {"DONE", "EXCEPTION"} :
                response' = [response EXCEPT ![w] = Action({flag}, task[w], w)]
    BY <1>6, <2>1 DEF RunTask, Conclude, busVars
  <2>3. CASE \E flag \in {"DONE", "EXCEPTION"} :
               response' = [response EXCEPT ![w] = Action({flag}, task[w], w)]
    <3>1. PICK flag \in {"DONE", "EXCEPTION"} :
            response' = [response EXCEPT ![w] = Action({flag}, task[w], w)]
      BY <2>3
    <3>2. response'[w] = Action({flag}, task[w], w)
      BY <3>1
    <3>3. response'[w].worker = w
      BY <3>2, WorkerOfAction
    <3>4. ~Exits(response'[w])
      <4>1. flag = "DONE" \/ flag = "EXCEPTION"
        OBVIOUS
      <4>2. QED
        BY <3>2, <4>1
    <3>5. QED
      BY <2>2, <3>1, <3>3, <3>4
  <2>4. QED
    BY <1>2, <2>2, <2>3
<1>7. CASE FinishAndRestart(w)
  <2>1. /\ response' = [response EXCEPT ![w] = AddFlag(response[w], "RESTART")]
        /\ response[w] # None /\ pc' = [pc EXCEPT ![w] = "quit"]
        /\ UNCHANGED responseBus
    BY <1>7 DEF FinishAndRestart
  <2>2. AddFlag(response[w], "RESTART").worker = response[w].worker
    BY DEF AddFlag, Responses
  <2>3. QED
    BY <1>1, <2>1, <2>2
<1>8. CASE FinishAndContinue(w)
  BY <1>1, <1>8 DEF FinishAndContinue, EnterFinally
<1>9. CASE FinishAndFail(w)
  <2>1. /\ response' = [response EXCEPT ![w] =
                          Action({"CLOSE", "FATAL_ERROR"}, NoTask, w)]
        /\ pc[w] = "finally" /\ pc' = [pc EXCEPT ![w] = "quit"]
        /\ UNCHANGED responseBus \/ responseBus' = Append(responseBus, response[w])
    BY <1>9 DEF FinishAndFail, EnterFinally
  <2>2. Action({"CLOSE", "FATAL_ERROR"}, NoTask, w).worker = w
    BY WorkerOfAction
  <2>3. QED
    BY <1>1, <2>1, <2>2
<1>10. CASE FinishAndDie(w)
  BY <1>1, <1>10 DEF FinishAndDie, EnterFinally
<1>11. CASE Quit(w)
  BY <1>1, <1>11 DEF Quit
<1>12. QED
  BY <1>2, <1>3, <1>4, <1>5, <1>6, <1>7, <1>8, <1>9, <1>10, <1>11
     DEF WorkerStep, NoRequest, CheckRunning, GetTask, GetEmpty, BeginTask,
         ClearThread, busVars, workerLocals

(***************************************************************************)
(* A worker announces its end as it leaves its loop, and has not announced *)
(* one before; whoever is being restarted is another one.                  *)
(***************************************************************************)
LEMMA WorkerKeepsExitInv ==
  ASSUME TypeOK, ExitInv, NEW w \in Workers, RunWorker(w) \/ WorkerGivesUp(w)
  PROVE  ExitInv'
<1>1. /\ WorkerStep(w) \/ TimeOut(w)
      /\ UNCHANGED <<currWorkers, nextWorker, mpc, phase, handled, todo, death>>
  BY DEF RunWorker, WorkerGivesUp, tableVars, managerVars, managerCtl
<1>2. Moves(w) /\ Flips(w) /\ Answers(w) /\ Announces(w)
  BY <1>1, WorkerMoves, WorkerFlips, WorkerAnswers
<1> USE DEF TypeOK, PoolStateTypeOK, ThreadWorkerTypeOK, TableTypeOK,
            ManagerTypeOK, ThreadAlive
<1>3. PhaseOK' /\ PopsAreSafe'
  BY <1>1 DEF ExitInv, PhaseOK, PopsAreSafe
<1>4. WorkersNumbered'
  BY <1>1, <1>2 DEF ExitInv, WorkersNumbered, Moves
<1>5. ThreadsOK'
  <2>1. ASSUME NEW v \in Workers
        PROVE  /\ ThreadAlive(v)' => thread'[v]
               /\ pc'[v] \in {"clear", "ended"} => ~running'[v]
    <3>1. CASE v # w
      <4>1. pc'[v] = pc[v] /\ thread'[v] = thread[v] /\ running'[v] = running[v]
        BY <1>2, <3>1 DEF Moves, Flips
      <4>2. QED
        BY <4>1 DEF ExitInv, ThreadsOK
    <3>2. CASE v = w
      BY <1>2, <3>2 DEF ExitInv, ThreadsOK, Moves, Flips
    <3>3. QED
      BY <3>1, <3>2
  <2>2. QED
    BY <2>1 DEF ThreadsOK
<1>6. HandledOK'
  BY <1>1, <1>2 DEF ExitInv, HandledOK, Moves, Flips
<1>7. WorkersKnown'
  BY <1>1, <1>2 DEF ExitInv, WorkersKnown, Moves
<1>8. AnswersOK'
  <2>1. phase # "halt" => \A v \in Workers : requestBus'[v] = <<>>
    <3>1. phase # "halt" => requestBus[w] = <<>>
      BY DEF ExitInv, AnswersOK
    <3>2. HandleRequest(w) \/ UNCHANGED requestBus
      BY <1>1 DEF WorkerStep, TimeOut, Boot, NoRequest, CheckRunning, GetTask,
                  GetEmpty, BeginTask, RunTask, FinishAndRestart,
                  FinishAndContinue, FinishAndFail, FinishAndDie, EnterFinally,
                  Quit, ClearThread, busVars
    <3>3. QED
      BY <3>1, <3>2 DEF HandleRequest, ExitInv, AnswersOK
  <2>2. QED
    <3>1. ASSUME NEW v \in Workers
          PROVE  /\ response'[v] # None => response'[v].worker = v
                 /\ phase # "halt" /\ Exits(response'[v]) => pc'[v] = "quit"
      <4>1. CASE v = w
        BY <1>2, <4>1 DEF Answers
      <4>2. CASE v # w
        <5>1. response'[v] = response[v] /\ pc'[v] = pc[v]
          BY <1>2, <4>2 DEF Answers, Moves
        <5>2. QED
          BY <5>1 DEF ExitInv, AnswersOK
      <4>3. QED
        BY <4>1, <4>2
    <3>2. QED
      BY <1>1, <2>1, <3>1 DEF AnswersOK
<1>9. EndedWorkers \subseteq EndedWorkers'
  BY <1>1, <1>2 DEF EndedWorkers, Moves, Flips
<1>10. /\ phase' = phase /\ handled' = handled /\ Restarting' = Restarting
  BY <1>1 DEF Restarting
<1>11. ExitsListed'
  <2>1. PICK E, F : E = EndedWorkers /\ F = EndedWorkers'
    OBVIOUS
  <2>2. CASE UNCHANGED responseBus
    BY <1>9, <1>10, <2>1, <2>2 DEF ExitInv, ExitsListed, EndsListed
  <2>3. CASE phase # "halt" /\ responseBus' = Append(responseBus, response[w])
    <3>1. responseBus \in Seq(Responses) /\ response[w] \in Responses
      OBVIOUS
    <3>2. Exits(response[w]) => response[w].worker \in F \ E
      <4>1. SUFFICES ASSUME Exits(response[w])
                     PROVE  response[w].worker \in F \ E
        OBVIOUS
      <4>2. pc[w] = "quit" /\ pc'[w] = "clear" /\ ~running'[w]
        BY <1>2, <2>3, <4>1 DEF Announces, Flips, ExitInv, AnswersOK
      <4>3. response[w].worker = w
        BY <4>1, ExitFacts DEF ExitInv, AnswersOK
      <4>4. QED
        BY <1>1, <2>1, <4>2, <4>3 DEF ExitInv, WorkersKnown, EndedWorkers
    <3>3. EndsListed(responseBus, E) /\ E \subseteq F
      BY <1>9, <2>1, <2>3 DEF ExitInv, ExitsListed
    <3>4. EndsListed(Append(responseBus, response[w]), F)
      BY <3>1, <3>2, <3>3, EndAppended
    <3>5. Restarting => /\ handled \in F
                        /\ EndsListed(Append(responseBus, response[w]), F \ {handled})
      <4>1. SUFFICES ASSUME Restarting
                     PROVE  /\ handled \in F
                            /\ EndsListed(Append(responseBus, response[w]), F \ {handled})
        OBVIOUS
      <4>2. handled \in E /\ EndsListed(responseBus, E \ {handled})
        BY <2>1, <4>1 DEF ExitInv, ExitsListed
      <4>3. /\ E \ {handled} \subseteq F \ {handled}
            /\ Exits(response[w]) => response[w].worker \in (F \ {handled}) \ (E \ {handled})
        BY <3>2, <3>3, <4>2
      <4>4. QED
        BY <3>1, <3>3, <4>2, <4>3, EndAppended
    <3>6. QED
      BY <1>10, <2>1, <2>3, <3>4, <3>5 DEF ExitsListed
  <2>4. CASE phase = "halt"
    BY <1>10, <2>4 DEF ExitsListed, Restarting
  <2>5. QED
    BY <1>2, <2>2, <2>3, <2>4 DEF Announces
<1>12. QED
  BY <1>3, <1>4, <1>5, <1>6, <1>7, <1>8, <1>11 DEF ExitInv

-----------------------------------------------------------------------------
\* A step that starts and ends no worker and handles no response.
LEMMA FrameKeepsExitInv ==
  ASSUME TypeOK, ExitInv, PhaseOK', HandledOK', PopsAreSafe',
         UNCHANGED <<responseBus, response, pc, running, thread, currWorkers,
                     nextWorker>>,
         phase' # "halt" => phase # "halt" /\ UNCHANGED requestBus,
         \A w \in todo' : w < nextWorker,
         handled' < nextWorker,
         Restarting' => Restarting /\ UNCHANGED handled
  PROVE  ExitInv'
<1>1. AnswersOK' /\ WorkersKnown' /\ ThreadsOK'
  BY DEF ExitInv, AnswersOK, WorkersKnown, ThreadsOK, ThreadAlive
<1>2. WorkersNumbered'
  BY DEF ExitInv, WorkersNumbered
<1>3. ExitsListed'
  <2>1. EndedWorkers' = EndedWorkers
    BY DEF EndedWorkers
  <2>2. QED
    BY <2>1 DEF ExitInv, ExitsListed
<1>4. QED
  BY <1>1, <1>2, <1>3 DEF ExitInv

(***************************************************************************)
(* The manager takes a response off the bus: its task and its worker are   *)
(* known, so nothing raises a KeyError, and the worker it drops or         *)
(* restarts has ended and has announced nothing else.                      *)
(***************************************************************************)
LEMMA ConsumeKeepsExitInv ==
  ASSUME TypeOK, TaskInv, ExitInv,
         ConsumeFails \/ ConsumeResponse \/ KilledConsuming,
         UNCHANGED workerLocals
  PROVE  ExitInv'
<1> DEFINE r == Head(responseBus)
<1>1. /\ responseBus \in Seq(Responses) /\ responseBus # <<>> /\ r \in Responses
      /\ responseBus' = Tail(responseBus)
      /\ mpc = "receive"
      /\ UNCHANGED <<requestBus, response, pc, running, thread, nextWorker,
                     phase, todo>>
  BY TailFacts DEF ConsumeFails, ConsumeResponse, TakeResponse, KilledConsuming,
                   workerLocals, flagVars, TypeOK, PoolStateTypeOK
<1>2. phase # "halt" /\ ~Restarting
  BY <1>1 DEF ExitInv, PhaseOK, Restarting
<1>3. /\ EndsListed(Tail(responseBus), EndedWorkers)
      /\ Exits(r) => /\ r.worker \in EndedWorkers
                     /\ EndsListed(Tail(responseBus), EndedWorkers \ {r.worker})
  BY <1>1, <1>2, EndTaken DEF ExitInv, ExitsListed
<1>4. ConsumeError(r) # "KeyError"
  <2>1. EndsTask(r) => r.task \in currTasks
    <3>1. ReportOK(r, future) /\ Ended(r) \in currTasks \cup {NoTask}
      BY <1>1, TailFacts DEF TaskInv, ReportsResolved, Tracked
    <3>2. QED
      BY <3>1, PoolStateAssumption DEF ReportOK, Ended
  <2>2. Closes(r) \/ Restarts(r) => r.worker \in currWorkers
    BY <1>3 DEF Exits, EndedWorkers
  <2>3. QED
    BY <2>1, <2>2 DEF ConsumeError
<1>5. AnswersOK' /\ ThreadsOK'
  BY <1>1 DEF ExitInv, AnswersOK, ThreadsOK, ThreadAlive
<1>6. CASE ConsumeFails \/ KilledConsuming
  <2>1. /\ mpc' \in {"dead", "killed"} /\ death' # "KeyError"
        /\ UNCHANGED <<currWorkers, handled>>
    BY <1>4, <1>6 DEF ConsumeFails, KilledConsuming, Die, ExitInv, PopsAreSafe
  <2>2. PhaseOK' /\ HandledOK' /\ PopsAreSafe' /\ WorkersKnown' /\ WorkersNumbered'
    BY <1>1, <1>2, <2>1
       DEF ExitInv, PhaseOK, HandledOK, PopsAreSafe, WorkersKnown, WorkersNumbered
  <2>3. ExitsListed'
    <3>1. EndedWorkers' = EndedWorkers
      BY <1>1, <2>1 DEF EndedWorkers
    <3>2. QED
      BY <1>1, <1>3, <2>1, <3>1 DEF ExitsListed, Restarting
  <2>4. QED
    BY <1>5, <2>2, <2>3 DEF ExitInv
<1>7. CASE ConsumeResponse
  <2>1. /\ currWorkers' = IF Closes(r) THEN currWorkers \ {r.worker} ELSE currWorkers
        /\ IF Restarts(r) THEN mpc' = "stop1" /\ handled' = r.worker
           ELSE mpc' \in {"top", "receive"} /\ handled' = handled
        /\ UNCHANGED death
    BY <1>7 DEF ConsumeResponse, AfterConsume
  <2>2. PopsAreSafe' /\ PhaseOK'
    BY <1>1, <1>2, <2>1 DEF ExitInv, PopsAreSafe, PhaseOK
  <2>3. Restarts(r) => handled' \in EndedWorkers
    BY <1>3, <2>1 DEF Exits
  <2>4. HandledOK'
    BY <1>1, <2>1, <2>3 DEF HandledOK, EndedWorkers, TypeOK, TableTypeOK
  <2>5. WorkersKnown'
    BY <1>1, <1>3, <2>1 DEF ExitInv, WorkersKnown, Exits, EndedWorkers
  <2>6. WorkersNumbered'
    BY <1>1, <2>1, <2>3 DEF ExitInv, WorkersNumbered, EndedWorkers
  <2>7. ExitsListed'
    <3>1. CASE Closes(r)
      <4>1. EndedWorkers' = EndedWorkers \ {r.worker}
        BY <1>1, <2>1, <3>1 DEF EndedWorkers
      <4>2. ~Restarting'
        BY <2>1, <3>1 DEF Restarts, Restarting
      <4>3. QED
        BY <1>1, <1>3, <3>1, <4>1, <4>2 DEF ExitsListed, Exits
    <3>2. CASE ~Closes(r)
      <4>1. EndedWorkers' = EndedWorkers
        BY <1>1, <2>1, <3>2 DEF EndedWorkers
      <4>2. Restarting' => Restarts(r) /\ handled' = r.worker
        BY <2>1 DEF Restarting
      <4>3. QED
        BY <1>1, <1>3, <4>1, <4>2 DEF ExitsListed, Exits
    <3>3. QED
      BY <3>1, <3>2
  <2>8. QED
    BY <1>5, <2>2, <2>4, <2>5, <2>6, <2>7 DEF ExitInv
<1>8. QED
  BY <1>6, <1>7

(***************************************************************************)
(* worker.stop() ends with a worker whose thread is gone and forgotten;    *)
(* worker.start() then gives it a new one.  Neither touches the response   *)
(* bus, where the ends of other workers may wait: worker.stop() in the     *)
(* manager keeps the invariant of the ends.                                *)
(***************************************************************************)
LEMMA StopKeepsExitInv ==
  ASSUME TypeOK, ExitInv, StopSteps, UNCHANGED workerLocals
  PROVE  ExitInv'
<1> USE DEF StopSteps, TypeOK, PoolStateTypeOK, TableTypeOK, ManagerTypeOK
<1>1. /\ UNCHANGED <<responseBus, requestBus, response, pc, currWorkers,
                     nextWorker, phase, handled, todo>>
      /\ handled \in Workers
  BY DEF StopFlag, StopAlive, StopJoin, StopJoined, StopDone, StopUnchanged,
         busVars, tableVars, workerLocals, ExitInv, HandledOK
<1>2. PhaseOK' /\ PopsAreSafe'
  BY <1>1 DEF StopFlag, StopAlive, StopJoin, StopJoined, StopDone, Die,
              ExitInv, PhaseOK, PopsAreSafe
<1>3. /\ running' = running \/ running' = [running EXCEPT ![handled] = FALSE]
      /\ \/ thread' = thread
         \/ /\ mpc = "stopped" /\ thread' = [thread EXCEPT ![handled] = FALSE]
  BY DEF StopFlag, StopAlive, StopJoin, StopJoined, StopDone
<1>4. ThreadsOK'
  BY <1>1, <1>3 DEF ExitInv, ThreadsOK, HandledOK, ThreadAlive
<1>5. HandledOK'
  <2>1. mpc' = "stopped" => ~ThreadAlive(handled)
    BY <1>1 DEF StopFlag, StopAlive, StopJoin, StopJoined, StopDone, Die,
                ExitInv, ThreadsOK
  <2>2. mpc' = "start" => mpc = "stopped" /\ thread'[handled] = FALSE
    BY <1>1 DEF StopFlag, StopAlive, StopJoin, StopJoined, StopDone, Die
  <2>3. QED
    BY <1>1, <2>1, <2>2 DEF ExitInv, HandledOK, ThreadAlive
<1>6. AnswersOK' /\ WorkersKnown' /\ WorkersNumbered'
  BY <1>1 DEF ExitInv, AnswersOK, WorkersKnown, WorkersNumbered
<1>7. ExitsListed'
  <2>1. Restarting' => Restarting
    BY <1>1 DEF StopFlag, StopAlive, StopJoin, StopJoined, StopDone, Restarting
  <2>2. EndedWorkers \subseteq EndedWorkers'
    BY <1>1, <1>3 DEF EndedWorkers
  <2>3. phase # "halt" => EndsListed(responseBus, EndedWorkers')
    BY <2>2 DEF ExitInv, ExitsListed, EndsListed
  <2>4. Restarting => /\ handled \in EndedWorkers'
                      /\ EndsListed(responseBus, EndedWorkers' \ {handled})
    BY <2>2 DEF ExitInv, ExitsListed, EndsListed
  <2>5. QED
    BY <1>1, <2>1, <2>3, <2>4 DEF ExitsListed
<1>8. QED
  BY <1>2, <1>4, <1>5, <1>6, <1>7 DEF ExitInv

\* A worker is started: it is known, has no thread and no end on the bus.
LEMMA StartKeepsExitInv ==
  ASSUME TypeOK, ExitInv, NEW w \in Workers, pc[w] \in {"unborn", "clear", "ended"},
         ~ThreadAlive(w), StartThread(w),
         UNCHANGED <<responseBus, response, requestBus, running, phase, handled,
                     todo, death>>,
         currWorkers' = currWorkers \cup {w},
         \/ w = nextWorker /\ nextWorker' = nextWorker + 1
         \/ w < nextWorker /\ UNCHANGED nextWorker,
         \/ UNCHANGED mpc
         \/ mpc' = "spin" /\ handled = w /\ phase # "halt",
         phase # "halt" => EndsListed(responseBus, EndedWorkers \ {w}),
         mpc' # "spin" => w > handled
  PROVE  ExitInv'
<1> USE DEF TypeOK, PoolStateTypeOK, ThreadWorkerTypeOK, TableTypeOK, ManagerTypeOK
<1>1. /\ pc' = [pc EXCEPT ![w] = "boot"] /\ thread' = [thread EXCEPT ![w] = TRUE]
      /\ w \in Nat
  BY WorkersNat DEF StartThread
<1>2. PhaseOK' /\ PopsAreSafe'
  BY DEF ExitInv, PhaseOK, PopsAreSafe
<1>3. AnswersOK' /\ WorkersKnown' /\ ThreadsOK'
  <2>1. AnswersOK'
    BY <1>1 DEF ExitInv, AnswersOK
  <2>2. WorkersKnown'
    BY <1>1 DEF ExitInv, WorkersKnown
  <2>3. ThreadsOK'
    BY <1>1 DEF ExitInv, ThreadsOK, ThreadAlive
  <2>4. QED
    BY <2>1, <2>2, <2>3
<1>4. WorkersNumbered'
  <2>1. nextWorker \in Nat /\ nextWorker' \in Nat /\ nextWorker <= nextWorker'
        /\ w < nextWorker'
    <3>1. nextWorker \in Nat
      BY PoolStateAssumption
    <3>2. QED
      BY <1>1, <3>1
  <2>2. \A v \in Workers : v # w => pc'[v] = pc[v]
    BY <1>1
  <2>3. pc'[w] # "unborn"
    BY <1>1
  <2>4. \A v \in Workers : v >= nextWorker' => pc'[v] = "unborn"
    <3>1. \A v \in Workers : v >= nextWorker' => v >= nextWorker /\ v # w
      BY <1>1, <2>1, WorkersNat
    <3>2. QED
      BY <2>2, <3>1 DEF ExitInv, WorkersNumbered
  <2>5. \A v \in Workers : v < nextWorker' => pc'[v] # "unborn"
    <3>1. \A v \in Workers : v < nextWorker' /\ v # w => v < nextWorker
      BY <1>1, <2>1, WorkersNat
    <3>2. QED
      BY <2>2, <2>3, <3>1 DEF ExitInv, WorkersNumbered
  <2>6. \A v \in currWorkers' \cup todo' : v < nextWorker'
    BY <2>1, WorkersNat DEF ExitInv, WorkersNumbered
  <2>7. handled' < nextWorker'
    BY <2>1, WorkersNat DEF ExitInv, WorkersNumbered, NoWorker
  <2>8. QED
    BY <2>4, <2>5, <2>6, <2>7 DEF WorkersNumbered
<1>5. HandledOK'
  BY <1>1 DEF ExitInv, HandledOK, ThreadAlive
<1>6. ExitsListed'
  <2>1. EndedWorkers' = EndedWorkers \ {w}
    BY <1>1 DEF EndedWorkers
  <2>2. Restarting' => Restarting /\ handled # w
    <3>1. mpc' # "spin" => handled # w
      BY <1>1, WorkersNat DEF NoWorker
    <3>2. QED
      BY <3>1 DEF Restarting
  <2>3. Restarting' => EndsListed(responseBus, (EndedWorkers \ {w}) \ {handled})
    BY <2>2 DEF ExitInv, ExitsListed, EndsListed, Restarting
  <2>4. QED
    BY <2>1, <2>2, <2>3 DEF ExitInv, ExitsListed
<1>7. QED
  BY <1>2, <1>3, <1>4, <1>5, <1>6 DEF ExitInv

\* A step of the manager's thread keeps the invariant of the ends.
LEMMA ManagerKeepsExitInv ==
  ASSUME TypeOK, TaskInv, ExitInv, UNCHANGED workerLocals,
         ManagerStep \/ ManagerIdleOut \/ ManagerKilled \/ KilledConsuming
  PROVE  ExitInv'
<1> USE DEF TypeOK, TableTypeOK, ManagerTypeOK
<1>1. CASE ConsumeFails \/ ConsumeResponse \/ KilledConsuming
  BY <1>1, ConsumeKeepsExitInv
<1>2. CASE StopSteps
  BY <1>2, StopKeepsExitInv
<1>3. CASE RestartWorker /\ mpc' = "spin"
  <2> DEFINE w == handled
  <2>1. /\ w \in EndedWorkers /\ EndsListed(responseBus, EndedWorkers \ {w})
        /\ phase # "halt"
    BY <1>3 DEF RestartWorker, ExitInv, ExitsListed, PhaseOK, Restarting
  <2>2. w \in Workers /\ ~ThreadAlive(w) /\ w < nextWorker
    BY <1>3 DEF RestartWorker, ExitInv, HandledOK, WorkersNumbered
  <2>3. StartThread(w) /\ UNCHANGED death
    BY <1>3 DEF RestartWorker, Die
  <2>4. UNCHANGED <<responseBus, response, requestBus, running, phase, handled,
                    todo, currWorkers, nextWorker>>
    BY <1>3 DEF RestartWorker, busVars, tableVars, workerLocals
  <2>5. w \in currWorkers /\ pc[w] \in {"unborn", "clear", "ended"}
    BY <2>1 DEF EndedWorkers
  <2>6. QED
    BY <1>3, <2>1, <2>2, <2>3, <2>4, <2>5, StartKeepsExitInv
<1>4. CASE BusDrained \/ CloseWorker \/ CloseDone \/ HaltWorker
  <2>1. UNCHANGED <<responseBus, response, pc, running, thread, currWorkers,
                    nextWorker, death>>
    BY <1>4 DEF BusDrained, CloseWorker, CloseDone, HaltWorker, poolVars,
                busVars, flagVars, tableVars, workerLocals
  <2>2. todo # {} => Min(todo) \in todo
    BY MinInSet, WorkersNat
  <2>3. /\ PhaseOK' /\ HandledOK'
        /\ phase' # "halt" => phase # "halt" /\ UNCHANGED requestBus
        /\ Restarting' => Restarting /\ UNCHANGED handled
    <3>1. CASE BusDrained
      BY <3>1 DEF BusDrained, poolVars, busVars, ExitInv, PhaseOK, HandledOK,
                  Restarting
    <3>2. CASE CloseWorker
      BY <3>2 DEF CloseWorker, ExitInv, PhaseOK, HandledOK, Restarting
    <3>3. CASE CloseDone
      BY <3>3 DEF CloseDone, ExitInv, PhaseOK, HandledOK, Restarting
    <3>4. CASE HaltWorker
      BY <2>2, <3>4 DEF HaltWorker, ExitInv, PhaseOK, HandledOK, Restarting
    <3>5. QED
      BY <1>4, <3>1, <3>2, <3>3, <3>4
  <2>4. (\A v \in todo' : v < nextWorker) /\ handled' < nextWorker
    BY <1>4, <2>2 DEF BusDrained, CloseWorker, CloseDone, HaltWorker, ExitInv,
                      WorkersNumbered
  <2>5. PopsAreSafe'
    BY <2>1 DEF ExitInv, PopsAreSafe
  <2>6. QED
    BY <2>1, <2>3, <2>4, <2>5, FrameKeepsExitInv
<1>5. CASE ~ (\/ ConsumeFails \/ ConsumeResponse \/ KilledConsuming \/ StopSteps
              \/ BusDrained \/ CloseWorker \/ CloseDone \/ HaltWorker)
           /\ ~ (RestartWorker /\ mpc' = "spin")
  <2>1. UNCHANGED <<responseBus, requestBus, response, pc, running, thread,
                    currWorkers, nextWorker, todo, handled>>
    BY <1>5 DEF ManagerStep, ManagerIdleOut, ManagerKilled, ManagerBoot,
                ManagerCheck, ManagerDown, StopSteps, RestartWorker,
                RestartReturns, IterationFails, ManagerEnd, poolVars, busVars,
                flagVars, workerLocals, tableVars
  <2>2. PhaseOK' /\ PopsAreSafe'
    BY <1>5 DEF ManagerStep, ManagerIdleOut, ManagerKilled, ManagerBoot,
                ManagerCheck, ManagerDown, StopSteps, RestartWorker,
                RestartReturns, IterationFails, ManagerEnd, Die, AfterConsume,
                ExitInv, PhaseOK, PopsAreSafe
  <2>3. /\ mpc' \notin {"stop1", "stop2", "stop3", "join", "stopped", "start", "spin"}
        /\ phase' # "halt" => phase # "halt"
    BY <1>5 DEF ManagerStep, ManagerIdleOut, ManagerKilled, ManagerBoot,
                ManagerCheck, ManagerDown, StopSteps, RestartWorker,
                RestartReturns, IterationFails, ManagerEnd, Die, AfterConsume,
                ExitInv, PhaseOK
  <2>4. HandledOK' /\ ~Restarting'
    BY <2>3 DEF HandledOK, Restarting
  <2>5. QED
    BY <2>1, <2>2, <2>3, <2>4, FrameKeepsExitInv DEF ExitInv, WorkersNumbered
<1>6. QED
  BY <1>1, <1>2, <1>3, <1>4, <1>5

\* A client starts fresh workers only and handles no response.
LEMMA ClientKeepsExitInv ==
  ASSUME TypeOK, ExitInv, NEW c \in Clients, RunClient(c) \/ ClientCalls(c)
  PROVE  ExitInv'
<1> USE DEF TypeOK, TableTypeOK, ManagerTypeOK
<1>1. CASE SpawnWorker(c)
  <2> DEFINE w == nextWorker
  <2>1. w \in Workers /\ pc[w] = "unborn" /\ ~ThreadAlive(w) /\ w > handled
    BY <1>1, PoolStateAssumption
       DEF SpawnWorker, Workers, NoWorker, ExitInv, WorkersNumbered, ThreadAlive
  <2>2. /\ UNCHANGED <<responseBus, response, requestBus, running, mpc, phase,
                       handled, todo, death>>
        /\ StartThread(w) /\ nextWorker' = w + 1 /\ currWorkers' = currWorkers \cup {w}
    BY <1>1 DEF RunClient, ClientCalls, SpawnWorker, busVars, managerVars,
                managerCtl, workerLocals
  <2>3. EndedWorkers \ {w} = EndedWorkers
    BY <2>1 DEF EndedWorkers
  <2>4. phase # "halt" => EndsListed(responseBus, EndedWorkers \ {w})
    BY <2>3 DEF ExitInv, ExitsListed
  <2>5. QED
    BY <2>1, <2>2, <2>4, StartKeepsExitInv
<1>2. CASE ~SpawnWorker(c)
  <2>1. UNCHANGED <<responseBus, requestBus, response, pc, running, thread,
                    currWorkers, nextWorker, phase, todo, handled, death>>
    BY <1>2
       DEF RunClient, ClientCalls, ClientCall, ClientStep, Start, Stop,
           Terminate, CallStop, StopGivesUp, Submit, Queue, StartReturns,
           AdjustWorkers, CountTasks, ScanFails, ScanWorker, ScanDone,
           SpawnReturns, SubmitReturns, StopTestsAlive, TerminateTestsAlive,
           TestsAlive, StopCallsJoin, StopReturns, StopExpired, StopRaises,
           TerminateKills, StopCallUnchanged, poolVars, busVars, flagVars,
           tableVars, managerVars, managerCtl, workerLocals
  <2>2. mpc' = mpc \/ (mpc = "unborn" /\ mpc' = "boot")
    <3>1. CASE Start(c)
      BY <3>1 DEF Start
    <3>2. CASE ClientStep(c)
      BY <1>2, <3>2
         DEF ClientStep, Queue, StartReturns,
             AdjustWorkers, CountTasks, ScanFails, ScanWorker, ScanDone,
             SpawnReturns, SubmitReturns, StopTestsAlive, TerminateTestsAlive,
             TestsAlive, StopCallsJoin, StopReturns, StopExpired, StopRaises,
             TerminateKills, StopCallUnchanged, managerVars, managerCtl
    <3>3. CASE ClientCall(c) /\ ~Start(c)
      BY <3>3 DEF ClientCall, Stop, Terminate, CallStop, StopGivesUp, Submit,
                  StopCallUnchanged, managerVars, managerCtl
    <3>4. QED
      BY <3>1, <3>2, <3>3 DEF RunClient, ClientCalls
  <2>3. PhaseOK' /\ HandledOK' /\ PopsAreSafe'
    BY <2>1, <2>2 DEF ExitInv, PhaseOK, HandledOK, PopsAreSafe, ThreadAlive
  <2>4. Restarting' => Restarting
    BY <2>1, <2>2 DEF Restarting
  <2>5. QED
    BY <2>1, <2>3, <2>4, FrameKeepsExitInv DEF ExitInv, WorkersNumbered
<1>3. QED
  BY <1>1, <1>2

-----------------------------------------------------------------------------
\* At the start there is no worker, hence no end.
LEMMA InitExitInv == Init => ExitInv
<1> SUFFICES ASSUME Init PROVE ExitInv
  OBVIOUS
<1> USE DEF Init, PoolStateInit, ThreadWorkerInit, ThreadManagerInit
<1>1. PhaseOK /\ HandledOK /\ PopsAreSafe /\ ThreadsOK /\ WorkersKnown
  BY DEF PhaseOK, HandledOK, PopsAreSafe, ThreadsOK, WorkersKnown, ThreadAlive
<1>2. AnswersOK
  BY ExitFacts DEF AnswersOK
<1>3. WorkersNumbered
  BY WorkersNat DEF WorkersNumbered, NoWorker
<1>4. ExitsListed
  BY DEF ExitsListed, EndsListed, Restarting
<1>5. QED
  BY <1>1, <1>2, <1>3, <1>4 DEF ExitInv

\* ExitInv is inductive, given the types and the invariant of the tasks.
LEMMA StepKeepsExitInv == TypeOK /\ TaskInv /\ ExitInv /\ [Next]_vars => ExitInv'
<1> SUFFICES ASSUME TypeOK, TaskInv, ExitInv, [Next]_vars PROVE ExitInv'
  OBVIOUS
<1>1. ASSUME NEW w \in Workers, RunWorker(w) \/ WorkerGivesUp(w)
      PROVE  ExitInv'
  BY <1>1, WorkerKeepsExitInv
<1>2. CASE RunManager \/ ManagerGivesUp
  BY <1>2, ManagerKeepsExitInv DEF RunManager, ManagerGivesUp
<1>3. ASSUME NEW c \in Clients, RunClient(c) \/ ClientCalls(c)
      PROVE  ExitInv'
  BY <1>3, ClientKeepsExitInv
<1>4. CASE CancelTask \/ UNCHANGED vars
  <2>1. UNCHANGED <<responseBus, requestBus, response, pc, running, thread,
                    currWorkers, nextWorker, phase, mpc, todo, handled, death>>
    BY <1>4 DEF CancelTask, Cancel, vars, poolVars, busVars, flagVars,
                tableVars, managerVars, managerCtl, workerLocals
  <2>2. PhaseOK' /\ HandledOK' /\ PopsAreSafe' /\ Restarting' = Restarting
    BY <2>1 DEF ExitInv, PhaseOK, HandledOK, PopsAreSafe, ThreadAlive, Restarting
  <2>3. QED
    BY <2>1, <2>2, FrameKeepsExitInv DEF ExitInv, WorkersNumbered
<1>5. QED
  BY <1>1, <1>2, <1>3, <1>4 DEF Next, Terminated

\* The inductive invariant holds in every reachable state.
LEMMA IndInvHolds == Spec => []IndInv
<1>1. Init => IndInv
  BY InitType, InitTaskInv, InitExitInv DEF IndInv
<1>2. IndInv /\ [Next]_vars => IndInv'
  BY StepKeepsType, StepKeepsTaskInv, StepKeepsExitInv DEF IndInv
<1>3. QED
  BY <1>1, <1>2, PTL DEF Spec

(***************************************************************************)
(* The manager's thread never dies of a KeyError: the pops and the lookup  *)
(* of _consume_response find their entries.                                *)
(***************************************************************************)
THEOREM PopsSafe == Spec => []PopsAreSafe
<1>1. IndInv => PopsAreSafe
  BY DEF IndInv, ExitInv
<1>2. QED
  BY <1>1, IndInvHolds, PTL

(***************************************************************************)
(* A restart finds the worker stopped and without a thread: worker.start() *)
(* in _consume_response neither raises nor starts a second thread.         *)
(***************************************************************************)
THEOREM RestartsNeverRaise == Spec => []RestartNeverRaises
<1>1. IndInv => RestartNeverRaises
  <2>1. SUFFICES ASSUME IndInv, mpc = "start"
                 PROVE  ~running[handled] /\ ~thread[handled] /\ ~ThreadAlive(handled)
    BY DEF RestartNeverRaises
  <2>2. ~thread[handled] /\ ~ThreadAlive(handled)
    BY <2>1 DEF IndInv, ExitInv, HandledOK
  <2>3. Restarting
    BY <2>1 DEF IndInv, ExitInv, PhaseOK, Restarting
  <2>4. QED
    BY <2>1, <2>2, <2>3 DEF IndInv, ExitInv, ExitsListed, EndedWorkers
<1>2. QED
  BY <1>1, IndInvHolds, PTL

(***************************************************************************)
(* A worker announces its end once, when it has left its loop, and the     *)
(* manager knows it until it has handled the announcement.                 *)
(***************************************************************************)
THEOREM ExitsAreTracked == Spec => []ExitsTracked
<1>1. IndInv => ExitsTracked
  <2>1. SUFFICES ASSUME IndInv, phase # "halt" PROVE ExitsTracked
    BY DEF ExitsTracked
  <2>2. EndsListed(responseBus, EndedWorkers)
    BY <2>1 DEF IndInv, ExitInv, ExitsListed
  <2>3. \A w \in Workers :
          /\ AtMostOne(ExitsOf(w))
          /\ ExitsOf(w) # {} => w \in EndedWorkers
    BY <2>2 DEF EndsListed, AtMostOne, ExitsOf
  <2>4. Restarting => handled \in EndedWorkers /\ ExitsOf(handled) = {}
    BY <2>1 DEF IndInv, ExitInv, ExitsListed, EndsListed, ExitsOf
  <2>5. QED
    BY <2>3, <2>4 DEF ExitsTracked, EndedWorkers
<1>2. QED
  BY <1>1, IndInvHolds, PTL

(***************************************************************************)
(* Every worker that may take a task is in _curr_workers, so that          *)
(* _stop_all_workers misses none.                                          *)
(***************************************************************************)
THEOREM WorkersAreKnown == Spec => []WorkersKnown
<1>1. IndInv => WorkersKnown
  BY DEF IndInv, ExitInv
<1>2. QED
  BY <1>1, IndInvHolds, PTL

=============================================================================
