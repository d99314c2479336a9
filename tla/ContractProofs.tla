--------------------------- MODULE ContractProofs ---------------------------
(***************************************************************************)
(* A ThreadPool implements TaskContract: proved step by step, under the    *)
(* inductive invariant of the pool and ContractInv.  The same invariants   *)
(* explain how the manager's thread may die, and what stop() leaves.       *)
(***************************************************************************)
EXTENDS ThreadPoolProofs

\* What the contract speaks of.
contractVars == <<taskBus, task, currTasks, future>>

\* The manager answers: it may forget a task, and nothing else happens.
LEMMA ManagerFrame ==
  ASSUME RunManager \/ ManagerGivesUp
  PROVE  /\ UNCHANGED <<taskBus, task, future>>
         /\ \/ UNCHANGED currTasks
            \/ /\ responseBus # <<>>
               /\ currTasks' = TasksAfter(Head(responseBus))
<1>1. CASE ConsumeFails \/ ConsumeResponse \/ KilledConsuming
  BY <1>1 DEF RunManager, ManagerGivesUp, ConsumeFails, ConsumeResponse,
              TakeResponse, KilledConsuming, workerLocals
<1>2. CASE ~ (ConsumeFails \/ ConsumeResponse \/ KilledConsuming)
  BY <1>2 DEF RunManager, ManagerGivesUp, ManagerStep, ManagerIdleOut,
              ManagerKilled, ManagerBoot, ManagerCheck, BusDrained, ManagerDown,
              StopFlag, StopAlive, StopJoin, StopJoined, StopDone,
              StopUnchanged, RestartWorker, RestartReturns, IterationFails,
              CloseWorker, CloseDone, HaltWorker, ManagerEnd, poolVars,
              busVars, tableVars, workerLocals
<1>3. QED
  BY <1>1, <1>2

\* Of what a client does, only submit() changes tasks or futures.
LEMMA ClientFrame ==
  ASSUME NEW c \in Clients, RunClient(c) \/ ClientCalls(c)
  PROVE  \/ UNCHANGED contractVars
         \/ Queue(c) /\ UNCHANGED workerLocals
         \/ (\E t \in Tasks : Submit(c, t)) /\ UNCHANGED workerLocals
<1>1. CASE Queue(c) \/ \E t \in Tasks : Submit(c, t)
  BY <1>1 DEF RunClient, ClientCalls
<1>2. CASE ~ (Queue(c) \/ \E t \in Tasks : Submit(c, t))
  BY <1>2
     DEF RunClient, ClientCalls, ClientCall, ClientStep, Start, Stop,
         Terminate, CallStop, StopGivesUp, StartReturns, AdjustWorkers,
         CountTasks, ScanFails, ScanWorker, ScanDone, SpawnWorker,
         SpawnReturns, SubmitReturns, StopTestsAlive, TerminateTestsAlive,
         TestsAlive, StopCallsJoin, StopReturns, StopExpired, StopRaises,
         TerminateKills, StopCallUnchanged, poolVars, busVars, tableVars,
         workerLocals, contractVars
<1>3. QED
  BY <1>1, <1>2

\* Of what a worker does, only taking and running a task changes them.
LEMMA WorkerFrame ==
  ASSUME NEW w \in Workers, RunWorker(w) \/ WorkerGivesUp(w)
  PROVE  \/ GetTask(w) /\ UNCHANGED <<currTasks, future>>
         \/ RunTask(w) /\ UNCHANGED <<taskBus, currTasks>>
         \/ /\ UNCHANGED contractVars
            /\ \/ BeginTask(w)
               \/ /\ pc[w] \notin {"begin", "refuse", "run"}
                  /\ \E label \in {"top", "requests", "check", "get", "finally",
                                   "quit", "clear", "ended", "died"} :
                       pc' = [pc EXCEPT ![w] = label]
<1>1. UNCHANGED currTasks
  BY DEF RunWorker, WorkerGivesUp, tableVars
<1>2. WorkerStep(w) \/ TimeOut(w)
  BY DEF RunWorker, WorkerGivesUp
<1>3. CASE GetTask(w) \/ RunTask(w) \/ BeginTask(w)
  BY <1>1, <1>3 DEF GetTask, RunTask, BeginTask, busVars, workerLocals,
                    contractVars
<1>4. CASE ~ (GetTask(w) \/ RunTask(w) \/ BeginTask(w))
  BY <1>1, <1>2, <1>4
     DEF WorkerStep, TimeOut, Boot, HandleRequest, NoRequest, CheckRunning,
         GetEmpty, FinishAndRestart, FinishAndContinue, FinishAndFail,
         FinishAndDie, EnterFinally, Quit, ClearThread, Goto, busVars,
         workerLocals, contractVars
<1>5. QED
  BY <1>3, <1>4

-----------------------------------------------------------------------------
\* Tasks that stay where they are, and whose futures stay open.
LEMMA FuturesStayOpen ==
  ASSUME TypeOK, WorkUnsettled, UNCHANGED <<taskBus, task>>,
         \A t \in Tasks : Unsettled(t) => Unsettled(t)'
  PROVE  WorkUnsettled'
  BY DEF WorkUnsettled, TypeOK, PoolStateTypeOK, ThreadWorkerTypeOK

\* A thread that is started has no task in its hand.
LEMMA StartKeepsHandEmpty ==
  ASSUME TypeOK, HandEmpty, UNCHANGED task,
         \/ UNCHANGED pc
         \/ \E w : ~ThreadAlive(w) /\ pc' = [pc EXCEPT ![w] = "boot"]
  PROVE  HandEmpty'
  BY DEF HandEmpty, ThreadAlive, TypeOK, PoolStateTypeOK

\* A step of a worker keeps ContractInv.
LEMMA WorkerKeepsContractInv ==
  ASSUME IndInv, ContractInv, NEW w \in Workers, RunWorker(w) \/ WorkerGivesUp(w)
  PROVE  ContractInv'
<1> USE DEF IndInv, TypeOK, PoolStateTypeOK, ThreadWorkerTypeOK, ContractInv
<1>1. CASE GetTask(w) /\ UNCHANGED future
  <2>1. /\ taskBus \in Seq(Tasks) /\ taskBus # <<>>
        /\ task' = [task EXCEPT ![w] = Head(taskBus)]
        /\ taskBus' = Tail(taskBus) /\ pc' = [pc EXCEPT ![w] = "begin"]
    BY <1>1 DEF GetTask, Goto
  <2>2. HandEmpty'
    BY <2>1 DEF HandEmpty
  <2>3. WorkUnsettled'
    BY <1>1, <2>1, TailFacts DEF WorkUnsettled, Unsettled
  <2>4. QED
    BY <2>2, <2>3
<1>2. CASE RunTask(w) /\ UNCHANGED taskBus
  <2>1. /\ task' = [task EXCEPT ![w] = NoTask]
        /\ pc' = [pc EXCEPT ![w] = "finally"] /\ task[w] \in Tasks
        /\ \E o : Conclude(w, o)
    BY <1>2 DEF RunTask, Goto, TaskInv, HandFull
  <2>2. HandEmpty'
    BY <2>1 DEF HandEmpty
  <2>3. \A t \in Tasks : t # task[w] => future'[t] = future[t]
    BY <2>1 DEF Conclude
  <2>4. /\ \A i \in DOMAIN taskBus : taskBus[i] \in Tasks /\ taskBus[i] # task[w]
        /\ \A v \in Workers : v # w /\ task[v] # NoTask
                                => task[v] \in Tasks /\ task[v] # task[w]
    BY <2>1 DEF TaskInv, OnePlace
  <2>5. WorkUnsettled'
    BY <1>2, <2>1, <2>3, <2>4 DEF WorkUnsettled, Unsettled
  <2>6. QED
    BY <2>2, <2>5
<1>3. CASE UNCHANGED contractVars /\ BeginTask(w)
  <2>1. HandEmpty'
    BY <1>3 DEF BeginTask, CancelledFlag, Goto, HandEmpty, contractVars
  <2>2. QED
    BY <1>3, <2>1, FuturesStayOpen DEF contractVars, Unsettled
<1>4. CASE /\ UNCHANGED contractVars /\ pc[w] \notin {"begin", "refuse", "run"}
           /\ \E label \in {"top", "requests", "check", "get", "finally", "quit",
                            "clear", "ended", "died"} :
                pc' = [pc EXCEPT ![w] = label]
  <2>1. HandEmpty'
    BY <1>4 DEF HandEmpty, contractVars
  <2>2. QED
    BY <1>4, <2>1, FuturesStayOpen DEF contractVars, Unsettled
<1>5. QED
  BY <1>1, <1>2, <1>3, <1>4, WorkerFrame

\* ContractInv is inductive, given the invariant of the pool.
LEMMA StepKeepsContractInv ==
  IndInv /\ ContractInv /\ [Next]_vars => ContractInv'
<1> SUFFICES ASSUME IndInv, ContractInv, [Next]_vars PROVE ContractInv'
  OBVIOUS
<1> USE DEF ContractInv
<1>1. ASSUME NEW w \in Workers, RunWorker(w) \/ WorkerGivesUp(w)
      PROVE  ContractInv'
  BY <1>1, WorkerKeepsContractInv
<1>2. CASE \/ RunManager \/ ManagerGivesUp
           \/ \E c \in Clients : RunClient(c) \/ ClientCalls(c)
           \/ CancelTask \/ UNCHANGED vars
  <2>1. UNCHANGED workerLocals
    BY <1>2, OthersMoveWorkers DEF IndInv
  <2>2. \/ UNCHANGED pc
        \/ \E w : ~ThreadAlive(w) /\ pc' = [pc EXCEPT ![w] = "boot"]
    <3>1. RestartWorker => ~ThreadAlive(handled)
      BY DEF RestartWorker, IndInv, ExitInv, HandledOK
    <3>2. \A c \in Clients : SpawnWorker(c) => ~ThreadAlive(nextWorker)
      BY PoolStateAssumption
         DEF SpawnWorker, Workers, ThreadAlive, IndInv, TypeOK, TableTypeOK,
             ExitInv, WorkersNumbered
    <3>3. QED
      BY <1>2, <3>1, <3>2, OthersMoveWorkers DEF IndInv
  <2>3. HandEmpty'
    BY <2>1, <2>2, StartKeepsHandEmpty DEF IndInv, workerLocals
  <2>4. CASE UNCHANGED taskBus /\ \A t \in Tasks : Unsettled(t) => Unsettled(t)'
    BY <2>1, <2>3, <2>4, FuturesStayOpen DEF IndInv, workerLocals
  <2>5. CASE RunManager \/ ManagerGivesUp \/ CancelTask \/ UNCHANGED vars
    <3>1. UNCHANGED <<taskBus, future>> \/ CancelTask
      BY <2>5, ManagerFrame DEF vars, poolVars, busVars
    <3>2. CASE UNCHANGED <<taskBus, future>>
      BY <2>4, <3>2 DEF Unsettled
    <3>3. CASE CancelTask
      BY <2>4, <3>3 DEF CancelTask, Cancel, CancelFuture, busVars, Unsettled,
                        IndInv, TypeOK, PoolStateTypeOK
    <3>4. QED
      BY <3>1, <3>2, <3>3
  <2>6. ASSUME NEW c \in Clients, RunClient(c) \/ ClientCalls(c)
        PROVE  ContractInv'
    <3>1. CASE UNCHANGED contractVars
      BY <2>4, <3>1 DEF contractVars, Unsettled
    <3>2. ASSUME NEW t \in Tasks, Submit(c, t)
          PROVE  ContractInv'
      BY <2>4, <3>2 DEF Submit, busVars, Unsettled, IndInv, TypeOK, PoolStateTypeOK
    <3>3. CASE Queue(c)
      <4> DEFINE t == cTask[c]
      <4>1. t \in Tasks /\ future[t] = "unsubmitted"
        BY <3>3 DEF Queue, IndInv, TaskInv, QueuedIsNew
      <4>2. /\ future' = [future EXCEPT ![t] = "pending"]
            /\ taskBus' = Append(taskBus, t) /\ UNCHANGED task
        BY <2>1, <3>3 DEF Queue, workerLocals
      <4>3. WorkUnsettled'
        BY <4>1, <4>2, AppendFacts
           DEF WorkUnsettled, Unsettled, IndInv, TypeOK, PoolStateTypeOK,
               ThreadWorkerTypeOK
      <4>4. QED
        BY <2>3, <4>3
    <3>4. QED
      BY <2>6, <3>1, <3>2, <3>3, ClientFrame
  <2>7. QED
    BY <1>2, <2>5, <2>6
<1>3. QED
  BY <1>1, <1>2 DEF Next, Terminated

-----------------------------------------------------------------------------
\* The tasks in the hands of the workers.
Held(hand) == {hand[w] : w \in Workers} \ {NoTask}

\* A worker with empty hands takes a task, a worker drops its task.
LEMMA HeldTaken ==
  ASSUME NEW hand \in [Workers -> Tasks \cup {NoTask}], NEW w \in Workers,
         hand[w] = NoTask, NEW t \in Tasks
  PROVE  Held([hand EXCEPT ![w] = t]) = Held(hand) \cup {t}
  BY PoolStateAssumption DEF Held

\* A worker that lets go of its task: one held task less.
LEMMA HeldDropped ==
  ASSUME NEW hand \in [Workers -> Tasks \cup {NoTask}], NEW w \in Workers,
         hand[w] \in Tasks, \A v \in Workers : hand[v] = hand[w] => v = w
  PROVE  /\ hand[w] \in Held(hand)
         /\ Held([hand EXCEPT ![w] = NoTask]) = Held(hand) \ {hand[w]}
  BY PoolStateAssumption DEF Held

\* A pool at rest is a contract at rest.
LEMMA StutterImplements ==
  ASSUME UNCHANGED contractVars PROVE UNCHANGED Contract!vars
  BY DEF contractVars, Contract!vars

\* Taking a task is Start, a run is End or Abort.
LEMMA WorkerImplements ==
  ASSUME IndInv, ContractInv, NEW w \in Workers, RunWorker(w) \/ WorkerGivesUp(w)
  PROVE  [Contract!Next]_(Contract!vars)
<1> USE DEF IndInv, TypeOK, PoolStateTypeOK, ThreadWorkerTypeOK
<1>1. CASE GetTask(w) /\ UNCHANGED <<currTasks, future>>
  <2>1. /\ taskBus \in Seq(Tasks) /\ taskBus # <<>> /\ pc[w] = "get"
        /\ task' = [task EXCEPT ![w] = Head(taskBus)]
        /\ taskBus' = Tail(taskBus)
    BY <1>1 DEF GetTask
  <2>2. Head(taskBus) \in Tasks /\ task[w] = NoTask
    BY <2>1, TailFacts DEF ContractInv, HandEmpty
  <2>3. Held(task') = Held(task) \cup {Head(taskBus)}
    BY <2>1, <2>2, HeldTaken
  <2>4. Head(taskBus) \notin Held(task)
    BY <2>1, TailFacts DEF Held, TaskInv, OnePlace
  <2>5. Contract!Start
    BY <1>1, <2>1, <2>3, <2>4 DEF Contract!Start, Held
  <2>6. QED
    BY <2>5 DEF Contract!Next
<1>2. CASE RunTask(w) /\ UNCHANGED <<taskBus, currTasks>>
  <2>0. PICK t \in Tasks : task[w] = t
    BY <1>2 DEF RunTask, TaskInv, HandFull
  <2>1. PICK o : /\ Conclude(w, o)
                 /\ o \in {"result", "exception", "exit"}
                 /\ o = "exit" => "exit" \in Outcomes
    BY <1>2, ThreadWorkerAssumption DEF RunTask
  <2>2. /\ task[w] = t /\ task' = [task EXCEPT ![w] = NoTask]
        /\ \A v \in Workers : task[v] = t => v = w
    BY <1>2, <2>0, PoolStateAssumption DEF RunTask, TaskInv, OnePlace
  <2>3. t \in Held(task) /\ Held(task') = Held(task) \ {t}
    BY <2>2, HeldDropped
  <2>4. future[t] \in {"pending", "cancelled"}
    BY <2>2, PoolStateAssumption DEF ContractInv, WorkUnsettled, Unsettled
  <2>5. CASE o = "exit"
    <3>1. UNCHANGED future
      BY <2>1, <2>5 DEF Conclude
    <3>2. Contract!Abort
      BY <1>2, <2>1, <2>3, <2>5, <3>1 DEF Contract!Abort, Held
    <3>3. QED
      BY <3>2 DEF Contract!Next
  <2>6. CASE o # "exit"
    <3>1. Contract!Settle(t)
      BY <2>1, <2>2, <2>4, <2>6 DEF Conclude, Settable, Contract!Settle, Contract!Resolve
    <3>2. Contract!End(t)
      BY <1>2, <2>3, <3>1 DEF Contract!End, Held
    <3>3. QED
      BY <2>2, <3>2 DEF Contract!Next
  <2>7. QED
    BY <2>5, <2>6
<1>3. QED
  BY <1>1, <1>2, WorkerFrame, StutterImplements

\* A reported task is forgotten once its future is resolved.
LEMMA ManagerImplements ==
  ASSUME IndInv, RunManager \/ ManagerGivesUp
  PROVE  [Contract!Next]_(Contract!vars)
<1> DEFINE r == Head(responseBus)
           pops == responseBus # <<>> /\ currTasks' = TasksAfter(r)
<1>1. CASE pops /\ EndsTask(r) /\ r.task \in currTasks
  <2> USE DEF IndInv, TypeOK, PoolStateTypeOK, ThreadWorkerTypeOK, TableTypeOK
  <2>1. /\ responseBus \in Seq(Responses) /\ responseBus # <<>>
        /\ 1 \in DOMAIN responseBus /\ r = responseBus[1]
        /\ currTasks' = currTasks \ {r.task}
        /\ UNCHANGED <<taskBus, task, future>>
    BY <1>1, ManagerFrame, TailFacts DEF TasksAfter
  <2>2. Ended(r) = r.task /\ r.task \in Tasks /\ r.task # NoTask
    BY <1>1, PoolStateAssumption DEF Ended
  <2>3. /\ \A i \in DOMAIN taskBus : taskBus[i] # r.task
        /\ \A v \in Workers : task[v] # r.task
        /\ future[r.task] \in {"cancelled", "result", "exception"}
    BY <1>1, <2>1, <2>2 DEF TaskInv, OnePlace, ReportsResolved, ReportOK
  <2>4. Contract!Forget(r.task)
    BY <1>1, <2>1, <2>3 DEF Contract!Forget
  <2>5. QED
    BY <2>2, <2>4 DEF Contract!Next
<1>2. CASE UNCHANGED currTasks
  BY <1>2, ManagerFrame, StutterImplements DEF contractVars
<1>3. pops => (EndsTask(r) /\ r.task \in currTasks) \/ UNCHANGED currTasks
  BY DEF TasksAfter
<1>4. QED
  BY <1>1, <1>2, <1>3, ManagerFrame

\* submit() is Accept or Refuse.
LEMMA ClientImplements ==
  ASSUME IndInv, NEW c \in Clients, RunClient(c) \/ ClientCalls(c)
  PROVE  [Contract!Next]_(Contract!vars)
<1>1. CASE Queue(c) /\ UNCHANGED workerLocals
  <2> DEFINE t == cTask[c]
  <2>1. t \in Tasks /\ future[t] = "unsubmitted"
    BY <1>1 DEF Queue, IndInv, TaskInv, QueuedIsNew
  <2>2. Contract!Accept(t)
    BY <1>1, <2>1 DEF Queue, workerLocals, Contract!Accept, Contract!Resolve
  <2>3. QED
    BY <2>1, <2>2 DEF Contract!Next
<1>2. ASSUME NEW t \in Tasks, Submit(c, t), UNCHANGED workerLocals
      PROVE  [Contract!Next]_(Contract!vars)
  <2>1. UNCHANGED contractVars \/ Contract!Refuse(t)
    BY <1>2 DEF Submit, busVars, tableVars, workerLocals, contractVars,
                Contract!Refuse, Contract!Resolve
  <2>2. QED
    BY <2>1, StutterImplements DEF Contract!Next
<1>3. QED
  BY <1>1, <1>2, ClientFrame, StutterImplements

(***************************************************************************)
(* A thread pool keeps the contract, whatever its threads and clients do   *)
(* and however often workers are restarted: a task is started at most      *)
(* once, in the order of submission; its future is resolved once, by its   *)
(* run or by cancel(); it is forgotten only after that.                    *)
(***************************************************************************)
THEOREM PoolImplementsContract == Spec => ImplementsContract
<1>1. Init => ContractInv
  BY DEF Init, PoolStateInit, ThreadWorkerInit, ContractInv, HandEmpty,
         WorkUnsettled
<1>2. Init => Contract!Init
  BY DEF Init, PoolStateInit, ThreadWorkerInit, ThreadManagerInit, Contract!Init
<1>3. IndInv /\ ContractInv /\ [Next]_vars => [Contract!Next]_(Contract!vars)
  <2> SUFFICES ASSUME IndInv, ContractInv, [Next]_vars
               PROVE  [Contract!Next]_(Contract!vars)
    OBVIOUS
  <2>1. ASSUME NEW w \in Workers, RunWorker(w) \/ WorkerGivesUp(w)
        PROVE  [Contract!Next]_(Contract!vars)
    BY <2>1, WorkerImplements
  <2>2. CASE RunManager \/ ManagerGivesUp
    BY <2>2, ManagerImplements
  <2>3. ASSUME NEW c \in Clients, RunClient(c) \/ ClientCalls(c)
        PROVE  [Contract!Next]_(Contract!vars)
    BY <2>3, ClientImplements
  <2>4. CASE CancelTask
    <3>1. \E t \in Tasks : Contract!Cancel(t)
      BY <2>4 DEF CancelTask, Cancel, CancelFuture, busVars, tableVars,
                  workerLocals, Contract!Cancel, Contract!Resolve
    <3>2. QED
      BY <3>1 DEF Contract!Next
  <2>5. CASE UNCHANGED vars
    BY <2>5, StutterImplements DEF vars, poolVars, busVars, workerLocals,
                                   tableVars, contractVars
  <2>6. QED
    BY <2>1, <2>2, <2>3, <2>4, <2>5 DEF Next, Terminated
<1>4. QED
  BY <1>1, <1>2, <1>3, IndInvHolds, StepKeepsContractInv, PTL
     DEF Spec, ImplementsContract, Contract!Spec

-----------------------------------------------------------------------------
(***************************************************************************)
(* Without faults a run always has an answer: no future is cancelled and   *)
(* no function raises a BaseException, so that the finally clause finds a  *)
(* response that it may put on the bus.                                    *)
(***************************************************************************)
LEMMA AnswerFacts ==
  /\ ~Closes(None)
  /\ \A t, w : /\ Action({"DONE"}, t, w) # None /\ ~Closes(Action({"DONE"}, t, w))
               /\ Action({"EXCEPTION"}, t, w) # None
               /\ ~Closes(Action({"EXCEPTION"}, t, w))
  /\ \A r \in Responses : /\ AddFlag(r, "RESTART") # None
                          /\ Closes(AddFlag(r, "RESTART")) <=> Closes(r)
<1>1. \A r : Closes(r) <=> "CLOSE" \in r.flag
  BY DEF Closes, Match
<1>2. None.flag = {} /\ ~Closes(None)
  BY <1>1 DEF None, Action
<1>3. \A t, w : Action({"DONE"}, t, w).flag = {"DONE"}
                /\ Action({"EXCEPTION"}, t, w).flag = {"EXCEPTION"}
  BY WorkerOfAction
<1>4. ASSUME NEW r \in Responses
      PROVE  AddFlag(r, "RESTART").flag = r.flag \cup {"RESTART"}
  BY DEF AddFlag, Responses
<1>5. \A t, w : /\ ~Closes(Action({"DONE"}, t, w)) /\ Action({"DONE"}, t, w) # None
                /\ ~Closes(Action({"EXCEPTION"}, t, w))
                /\ Action({"EXCEPTION"}, t, w) # None
  BY <1>1, <1>2, <1>3
<1>6. \A r \in Responses : /\ AddFlag(r, "RESTART") # None
                           /\ Closes(AddFlag(r, "RESTART")) <=> Closes(r)
  BY <1>1, <1>2, <1>4
<1>7. QED
  BY <1>2, <1>5, <1>6

\* A run without faults settles its future and has its answer ready.
LEMMA FaultlessRun ==
  ASSUME IndInv, ContractInv, ~MayFault, AnswersSound, NEW w \in Workers, RunTask(w)
  PROVE  \E t \in Tasks, o \in {"result", "exception"}, r \in Responses :
           /\ future' = [future EXCEPT ![t] = o]
           /\ response' = [response EXCEPT ![w] = r] /\ r # None /\ ~Closes(r)
           /\ outcome' = [outcome EXCEPT ![w] = "settled"]
           /\ pc[w] \in {"run", "refuse"} /\ pc' = [pc EXCEPT ![w] = "finally"]
           /\ UNCHANGED responseBus
<1>1. PICK o : Conclude(w, o) /\ o \in {"result", "exception"}
  <2>1. Outcomes \subseteq {"result", "exception"}
    BY ThreadWorkerAssumption DEF MayFault
  <2>2. PICK o \in IF pc[w] = "refuse" THEN {"exception"} ELSE Outcomes : Conclude(w, o)
    BY DEF RunTask
  <2>3. QED
    BY <2>1, <2>2
<1>2. PICK t \in Tasks : task[w] = t
  BY DEF RunTask, IndInv, TaskInv, HandFull
<1>3. future[t] = "pending"
  <2>1. t # NoTask
    BY <1>2, PoolStateAssumption
  <2>2. Unsettled(t)
    BY <1>2, <2>1 DEF ContractInv, WorkUnsettled
  <2>3. QED
    BY <2>2 DEF Unsettled, AnswersSound
<1>4. PICK r \in Responses : /\ response' = [response EXCEPT ![w] = r]
                             /\ r # None /\ ~Closes(r)
  <2>1. response' = [response EXCEPT ![w] =
                       Action({IF o = "result" THEN "DONE" ELSE "EXCEPTION"}, t, w)]
    BY <1>1, <1>2, <1>3 DEF Conclude, Settable
  <2>2. {"DONE"} \in SUBSET Flags /\ {"EXCEPTION"} \in SUBSET Flags
    BY DEF Flags
  <2>3. Action({"DONE"}, t, w) \in Responses /\ Action({"EXCEPTION"}, t, w) \in Responses
    BY <2>2, ActionType
  <2>4. QED
    BY <1>1, <2>1, <2>3, AnswerFacts
<1>5. /\ future' = [future EXCEPT ![t] = o]
      /\ outcome' = [outcome EXCEPT ![w] = "settled"]
  BY <1>1, <1>2, <1>3 DEF Conclude, Settable
<1>6. /\ pc[w] \in {"run", "refuse"} /\ pc' = [pc EXCEPT ![w] = "finally"]
      /\ UNCHANGED responseBus
  BY DEF RunTask, Goto, busVars
<1>7. QED
  BY <1>1, <1>4, <1>5, <1>6

\* The finally clause then neither raises nor ends the thread.
LEMMA FaultlessFinish ==
  ASSUME AnswersSound, NEW w \in Workers
  PROVE  ~FinishAndFail(w) /\ ~FinishAndDie(w)
<1>1. pc[w] = "finally" => outcome[w] = "settled" /\ response[w] # None
  BY DEF AnswersSound
<1>2. QED
  BY <1>1 DEF FinishAndFail, FinishAndDie, EnterFinally

\* What a step of worker w does to its own variables without faults.
Faultless(w) ==
  /\ \A t \in Tasks : future'[t] # "cancelled"
  /\ \/ UNCHANGED responseBus
     \/ response[w] # None /\ responseBus' = Append(responseBus, response[w])
  /\ pc' = [pc EXCEPT ![w] = pc'[w]]
  /\ outcome' = [outcome EXCEPT ![w] = outcome'[w]]
  /\ response' = [response EXCEPT ![w] = response'[w]]
  /\ pc'[w] = "finally" => outcome'[w] = "settled" /\ response'[w] # None
  /\ phase # "halt" /\ ~WorkerTimesOut /\ Closes(response'[w]) => Closes(response[w])

\* Where nothing faults, a worker's step does not either.
LEMMA WorkerFaultless ==
  ASSUME IndInv, ContractInv, ~MayFault, AnswersSound,
         NEW w \in Workers, RunWorker(w) \/ WorkerGivesUp(w)
  PROVE  Faultless(w)
<1> USE DEF Faultless, Goto
<1>1. /\ WorkerStep(w) \/ TimeOut(w)
      /\ DOMAIN pc = Workers /\ pc = [v \in Workers |-> pc[v]]
      /\ outcome \in [Workers -> {"none", "settled", "exit", "invalid"}]
      /\ response \in [Workers -> Responses]
      /\ future \in [Tasks -> FutureStates]
      /\ \A t \in Tasks : future[t] # "cancelled"
  BY DEF RunWorker, WorkerGivesUp, IndInv, TypeOK, PoolStateTypeOK,
         ThreadWorkerTypeOK, AnswersSound
<1>2. CASE /\ UNCHANGED <<future, response, outcome, responseBus>>
           /\ \E label \in {"requests", "check", "get", "top", "begin", "refuse",
                            "run", "quit", "ended"} :
                pc' = [pc EXCEPT ![w] = label]
  BY <1>1, <1>2
<1>3. CASE NoRequest(w) \/ CheckRunning(w) \/ GetEmpty(w) \/ GetTask(w)
  BY <1>2, <1>3 DEF NoRequest, CheckRunning, GetEmpty, GetTask, busVars, workerLocals
<1>4. CASE BeginTask(w) \/ ClearThread(w)
  BY <1>2, <1>4 DEF BeginTask, ClearThread, busVars, workerLocals
<1>5. CASE RunTask(w)
  <2>1. PICK t \in Tasks, o \in {"result", "exception"}, r \in Responses :
          /\ future' = [future EXCEPT ![t] = o]
          /\ response' = [response EXCEPT ![w] = r] /\ r # None /\ ~Closes(r)
          /\ outcome' = [outcome EXCEPT ![w] = "settled"]
          /\ pc[w] \in {"run", "refuse"} /\ pc' = [pc EXCEPT ![w] = "finally"]
          /\ UNCHANGED responseBus
    BY <1>5, FaultlessRun
  <2>2. o # "cancelled"
    OBVIOUS
  <2>3. response'[w] = r /\ outcome'[w] = "settled"
    BY <1>1, <2>1
  <2>4. QED
    BY <1>1, <2>1, <2>2, <2>3
<1>6. CASE HandleRequest(w)
  <2>1. phase = "halt"
    BY <1>6 DEF HandleRequest, IndInv, ExitInv, AnswersOK
  <2>2. /\ \E label \in {"check", "requests"} : pc' = [pc EXCEPT ![w] = label]
        /\ \E r : response' = [response EXCEPT ![w] = r]
        /\ UNCHANGED <<future, outcome, responseBus>>
    BY <1>6 DEF HandleRequest
  <2>3. QED
    BY <1>1, <2>1, <2>2
<1>7. CASE TimeOut(w)
  BY <1>1, <1>7 DEF TimeOut, busVars
<1>8. CASE Boot(w)
  BY <1>1, <1>8, AnswerFacts DEF Boot, busVars
<1>9. CASE Quit(w)
  <2>1. /\ UNCHANGED <<future, outcome>> /\ pc' = [pc EXCEPT ![w] = "clear"]
        /\ response' = [response EXCEPT ![w] = None]
        /\ responseBus' = IF response[w] = None THEN responseBus
                          ELSE Append(responseBus, response[w])
    BY <1>9 DEF Quit
  <2>2. QED
    BY <1>1, <2>1, AnswerFacts
<1>10. CASE FinishAndRestart(w)
  BY <1>1, <1>10, AnswerFacts DEF FinishAndRestart, EnterFinally
<1>11. CASE FinishAndContinue(w)
  BY <1>1, <1>11, AnswerFacts DEF FinishAndContinue, EnterFinally, AnswersSound
<1>12. QED
  BY <1>1, <1>3, <1>4, <1>5, <1>6, <1>7, <1>8, <1>9, <1>10, <1>11, FaultlessFinish
     DEF WorkerStep

\* What is put on a bus, and what is left on it.
LEMMA AppendedAll ==
  ASSUME NEW s \in Seq(Responses), NEW x \in Responses
  PROVE  /\ (\A i \in DOMAIN s : s[i] # None) /\ x # None =>
              \A i \in DOMAIN Append(s, x) : Append(s, x)[i] # None
         /\ (\A i \in DOMAIN s : ~Closes(s[i])) /\ ~Closes(x) =>
              \A i \in DOMAIN Append(s, x) : ~Closes(Append(s, x)[i])
<1>1. PICK a \in Seq(Responses) : a = Append(s, x)
  BY AppendFacts
<1>2. \A i \in DOMAIN a : (i \in DOMAIN s /\ a[i] = s[i]) \/ a[i] = x
  BY <1>1, AppendFacts
<1>3. (\A i \in DOMAIN s : s[i] # None) /\ x # None => \A i \in DOMAIN a : a[i] # None
  BY <1>2
<1>4. (\A i \in DOMAIN s : ~Closes(s[i])) /\ ~Closes(x) => \A i \in DOMAIN a : ~Closes(a[i])
  BY <1>2
<1>5. QED
  BY <1>1, <1>3, <1>4

\* What all responses on a bus have in common, those left on it have.
LEMMA LeftAll ==
  ASSUME NEW s \in Seq(Responses), s # <<>>
  PROVE  /\ (\A i \in DOMAIN s : s[i] # None) =>
              /\ Head(s) # None
              /\ \A i \in DOMAIN Tail(s) : Tail(s)[i] # None
         /\ (\A i \in DOMAIN s : ~Closes(s[i])) =>
              /\ ~Closes(Head(s))
              /\ \A i \in DOMAIN Tail(s) : ~Closes(Tail(s)[i])
<1>1. /\ 1 \in DOMAIN s /\ Head(s) = s[1]
      /\ \A i \in DOMAIN Tail(s) : i + 1 \in DOMAIN s /\ Tail(s)[i] = s[i + 1]
  BY TailFacts
<1>2. QED
  BY <1>1

-----------------------------------------------------------------------------
(***************************************************************************)
(* What a client's step leaves alone: it starts the manager, or a worker,  *)
(* and does nothing else to the threads.                                   *)
(***************************************************************************)
LEMMA ClientLeaves ==
  ASSUME NEW c \in Clients, RunClient(c) \/ ClientCalls(c)
  PROVE  /\ UNCHANGED <<responseBus, workerLocals, phase, handled, todo, todoSize,
                        death>>
         /\ mpc' = mpc \/ (mpc = "unborn" /\ mpc' = "boot")
         /\ SpawnWorker(c) \/ UNCHANGED <<currWorkers, nextWorker, pc, thread>>
<1>1. UNCHANGED workerLocals
  BY DEF RunClient, ClientCalls
<1>2. CASE \E t \in Tasks : Submit(c, t)
  BY <1>1, <1>2 DEF Submit, busVars, flagVars, tableVars, managerVars, managerCtl
<1>3. CASE Start(c)
  BY <1>1, <1>3 DEF Start, poolVars, busVars, flagVars, tableVars
<1>4. CASE \/ Queue(c) \/ AdjustWorkers(c) \/ CountTasks(c) \/ ScanFails(c)
           \/ ScanWorker(c) \/ ScanDone(c) \/ SpawnWorker(c) \/ SpawnReturns(c)
           \/ SubmitReturns(c) \/ StartReturns(c)
  BY <1>1, <1>4 DEF Queue, AdjustWorkers, CountTasks, ScanFails, ScanWorker, ScanDone,
                    SpawnWorker, SpawnReturns, SubmitReturns, StartReturns, poolVars,
                    busVars, flagVars, tableVars, managerVars, managerCtl
<1>5. CASE StopCallUnchanged
  BY <1>1, <1>5 DEF StopCallUnchanged, poolVars, busVars, flagVars, tableVars,
                    managerCtl
<1>6. \/ \E t \in Tasks : Submit(c, t)
      \/ Start(c) \/ StopCallUnchanged
      \/ Queue(c) \/ AdjustWorkers(c) \/ CountTasks(c) \/ ScanFails(c)
      \/ ScanWorker(c) \/ ScanDone(c) \/ SpawnWorker(c) \/ SpawnReturns(c)
      \/ SubmitReturns(c) \/ StartReturns(c)
  BY DEF RunClient, ClientCalls, ClientStep, ClientCall, Stop, Terminate, CallStop,
         StopGivesUp, StopTestsAlive, TerminateTestsAlive, TestsAlive, StopCallsJoin,
         StopReturns, StopExpired, StopRaises, TerminateKills
<1>7. QED
  BY <1>2, <1>3, <1>4, <1>5, <1>6

\* The manager takes responses off the bus and puts none on it.
LEMMA ManagerTakes ==
  ASSUME RunManager \/ ManagerGivesUp
  PROVE  \/ ConsumeFails \/ ConsumeResponse \/ KilledConsuming
         \/ UNCHANGED <<responseBus, currWorkers, nextWorker>>
<1>1. CASE ~ (ConsumeFails \/ ConsumeResponse \/ KilledConsuming)
  BY <1>1
     DEF RunManager, ManagerGivesUp, ManagerStep, ManagerIdleOut, ManagerKilled,
         ManagerBoot, ManagerCheck, BusDrained, ManagerDown, StopFlag, StopAlive,
         StopJoin, StopJoined, StopDone, StopUnchanged, RestartWorker, RestartReturns,
         IterationFails, CloseWorker, CloseDone, HaltWorker, ManagerEnd, poolVars,
         busVars, tableVars
<1>2. QED
  BY <1>1

\* Where no fault is possible, every answer remains one.
LEMMA StepKeepsSound ==
  ASSUME IndInv, ContractInv, ~MayFault, AnswersSound, [Next]_vars
  PROVE  AnswersSound'
<1>1. /\ DOMAIN pc = Workers /\ responseBus \in Seq(Responses)
      /\ DOMAIN outcome = Workers /\ response \in [Workers -> Responses]
      /\ future \in [Tasks -> FutureStates]
  BY DEF IndInv, TypeOK, PoolStateTypeOK, ThreadWorkerTypeOK
<1>2. ASSUME NEW w \in Workers, RunWorker(w) \/ WorkerGivesUp(w)
      PROVE  AnswersSound'
  <2>1. Faultless(w)
    BY <1>2, WorkerFaultless
  <2>2. \A i \in DOMAIN responseBus' : responseBus'[i] # None
    <3>1. CASE UNCHANGED responseBus
      BY <3>1 DEF AnswersSound
    <3>2. CASE response[w] # None /\ responseBus' = Append(responseBus, response[w])
      BY <1>1, <3>2, AppendedAll DEF AnswersSound
    <3>3. QED
      BY <2>1, <3>1, <3>2 DEF Faultless
  <2>3. ASSUME NEW v \in Workers, pc'[v] = "finally"
        PROVE  outcome'[v] = "settled" /\ response'[v] # None
    <3>1. CASE v = w
      BY <2>1, <2>3, <3>1 DEF Faultless
    <3>2. CASE v # w
      <4>1. pc'[v] = pc[v] /\ outcome'[v] = outcome[v] /\ response'[v] = response[v]
        BY <1>1, <2>1, <3>2 DEF Faultless
      <4>2. QED
        BY <2>3, <4>1 DEF AnswersSound
    <3>3. QED
      BY <3>1, <3>2
  <2>4. QED
    BY <2>1, <2>2, <2>3 DEF AnswersSound, Faultless
<1>3. CASE \/ RunManager \/ ManagerGivesUp
           \/ \E c \in Clients : RunClient(c) \/ ClientCalls(c)
           \/ CancelTask \/ UNCHANGED vars
  <2>1. /\ UNCHANGED workerLocals
        /\ \/ pc' = pc
           \/ \E w : pc' = [pc EXCEPT ![w] = "boot"]
    BY <1>3, OthersMoveWorkers DEF IndInv
  <2>2. \A v \in Workers : pc'[v] = "finally" =>
                             outcome'[v] = "settled" /\ response'[v] # None
    BY <1>1, <2>1 DEF workerLocals, AnswersSound
  <2>3. \A t \in Tasks : future'[t] # "cancelled"
    <3>1. ~CancelTask
      BY DEF CancelTask, Cancel, MayFault
    <3>2. CASE UNCHANGED future
      BY <3>2 DEF AnswersSound
    <3>3. ASSUME NEW c \in Clients, Queue(c) PROVE \A t \in Tasks : future'[t] # "cancelled"
      BY <1>1, <3>3 DEF Queue, AnswersSound
    <3>4. ASSUME NEW c \in Clients, NEW u \in Tasks, Submit(c, u)
          PROVE  \A t \in Tasks : future'[t] # "cancelled"
      BY <1>1, <3>4 DEF Submit, AnswersSound
    <3>5. QED
      BY <1>3, <3>1, <3>2, <3>3, <3>4, ManagerFrame, ClientFrame
         DEF contractVars, vars, poolVars
  <2>4. \A i \in DOMAIN responseBus' : responseBus'[i] # None
    <3>1. CASE UNCHANGED responseBus
      BY <3>1 DEF AnswersSound
    <3>2. CASE ConsumeFails \/ ConsumeResponse \/ KilledConsuming
      <4>1. responseBus # <<>> /\ responseBus' = Tail(responseBus)
        BY <3>2 DEF ConsumeFails, ConsumeResponse, TakeResponse, KilledConsuming
      <4>2. QED
        BY <1>1, <4>1, LeftAll DEF AnswersSound
    <3>3. QED
      BY <1>3, <3>1, <3>2, ManagerTakes, ClientLeaves
         DEF CancelTask, Cancel, busVars, vars, poolVars
  <2>5. QED
    BY <2>2, <2>3, <2>4 DEF AnswersSound
<1>4. QED
  BY <1>2, <1>3 DEF Next, Terminated

\* Where no worker gives up, none leaves _curr_workers.
LEMMA StepKeepsStaying ==
  ASSUME IndInv, ContractInv, ~MayGiveUp, AnswersSound, NobodyLeaves, [Next]_vars
  PROVE  NobodyLeaves'
<1>1. /\ responseBus \in Seq(Responses) /\ response \in [Workers -> Responses]
      /\ ~MayFault /\ ~WorkerTimesOut
  BY DEF IndInv, TypeOK, PoolStateTypeOK, ThreadWorkerTypeOK, MayGiveUp
<1>2. ASSUME NEW w \in Workers, RunWorker(w) \/ WorkerGivesUp(w)
      PROVE  NobodyLeaves'
  <2>1. Faultless(w)
    BY <1>1, <1>2, WorkerFaultless
  <2>2. UNCHANGED <<currWorkers, nextWorker, phase>>
    BY <1>2 DEF RunWorker, WorkerGivesUp, tableVars, managerVars, managerCtl
  <2>3. phase # "halt" => \A v \in Workers : ~Closes(response'[v])
    BY <1>1, <2>1 DEF Faultless, NobodyLeaves
  <2>4. phase # "halt" => \A i \in DOMAIN responseBus' : ~Closes(responseBus'[i])
    BY <1>1, <2>1, AppendedAll DEF Faultless, NobodyLeaves
  <2>5. QED
    BY <2>2, <2>3, <2>4 DEF NobodyLeaves
<1>3. CASE RunManager \/ ManagerGivesUp
  <2>1. UNCHANGED response /\ (phase' # "halt" => phase # "halt")
    BY <1>3, OthersMoveWorkers, HaltStays
    DEF IndInv, ExitInv, workerLocals, RunManager, ManagerGivesUp
  <2>2. CASE UNCHANGED <<responseBus, currWorkers, nextWorker>>
    BY <2>1, <2>2 DEF NobodyLeaves
  <2>3. CASE ConsumeFails \/ ConsumeResponse \/ KilledConsuming
    <3>1. /\ responseBus # <<>> /\ responseBus' = Tail(responseBus)
          /\ UNCHANGED nextWorker /\ mpc = "receive"
          /\ currWorkers' = currWorkers \/ Closes(Head(responseBus))
      BY <2>3 DEF ConsumeFails, ConsumeResponse, TakeResponse, KilledConsuming
    <3>2. phase # "halt"
      BY <3>1 DEF IndInv, ExitInv, PhaseOK
    <3>3. /\ ~Closes(Head(responseBus))
          /\ \A i \in DOMAIN responseBus' : ~Closes(responseBus'[i])
      BY <1>1, <3>1, <3>2, LeftAll DEF NobodyLeaves
    <3>4. QED
      BY <2>1, <3>1, <3>2, <3>3 DEF NobodyLeaves
  <2>4. QED
    BY <1>3, <2>2, <2>3, ManagerTakes
<1>4. ASSUME NEW c \in Clients, RunClient(c) \/ ClientCalls(c)
      PROVE  NobodyLeaves'
  <2>1. UNCHANGED <<responseBus, response, phase>>
    BY <1>4, ClientLeaves DEF workerLocals
  <2>2. CASE SpawnWorker(c)
    <3>1. currWorkers' = currWorkers \cup {nextWorker} /\ nextWorker' = nextWorker + 1
      BY <2>2 DEF SpawnWorker
    <3>2. \A w \in Workers : w < nextWorker' => w < nextWorker \/ w = nextWorker
      BY <3>1, PoolStateAssumption, WorkersNat DEF IndInv, TypeOK, TableTypeOK
    <3>3. QED
      BY <2>1, <3>1, <3>2 DEF NobodyLeaves
  <2>3. CASE UNCHANGED <<currWorkers, nextWorker>>
    BY <2>1, <2>3 DEF NobodyLeaves
  <2>4. QED
    BY <1>4, <2>2, <2>3, ClientLeaves
<1>5. CASE CancelTask \/ UNCHANGED vars
  <2>1. UNCHANGED <<responseBus, response, phase, currWorkers, nextWorker>>
    BY <1>5 DEF CancelTask, Cancel, busVars, tableVars, managerVars, managerCtl,
                workerLocals, vars, poolVars
  <2>2. QED
    BY <2>1 DEF NobodyLeaves
<1>6. QED
  BY <1>2, <1>3, <1>4, <1>5 DEF Next, Terminated

-----------------------------------------------------------------------------
(***************************************************************************)
(* worker.stop() in the manager: the thread it has found is taken away by  *)
(* its own end only.                                                       *)
(***************************************************************************)
LEMMA StepKeepsEnds ==
  ASSUME IndInv, EndsOK, [Next]_vars
  PROVE  EndsOK'
<1>1. ASSUME NEW w \in Workers, RunWorker(w) \/ WorkerGivesUp(w)
      PROVE  EndsOK'
  BY <1>1 DEF RunWorker, WorkerGivesUp, managerVars, managerCtl, EndsOK
<1>2. CASE RunManager \/ ManagerGivesUp
  BY <1>2, ManagerKeepsEnds DEF IndInv, ExitInv, RunManager, ManagerGivesUp
<1>3. ASSUME NEW c \in Clients, RunClient(c) \/ ClientCalls(c)
      PROVE  EndsOK'
  BY <1>3, ClientLeaves DEF EndsOK
<1>4. CASE CancelTask \/ UNCHANGED vars
  BY <1>4 DEF CancelTask, Cancel, managerVars, managerCtl, vars, EndsOK
<1>5. QED
  BY <1>1, <1>2, <1>3, <1>4 DEF Next, Terminated

\* Every step keeps what stop() promises about each worker.
LEMMA StepKeepsStops ==
  ASSUME IndInv, StopsOK, [Next]_vars
  PROVE  StopsOK'
<1>1. /\ thread \in [Workers -> BOOLEAN] /\ DOMAIN pc = Workers
      /\ mpc \in {"stop2", "stop3"} => handled \in Workers
  BY DEF IndInv, TypeOK, PoolStateTypeOK, ExitInv, HandledOK
<1>2. ASSUME NEW w \in Workers, RunWorker(w) \/ WorkerGivesUp(w)
      PROVE  StopsOK'
  <2>1. UNCHANGED <<mpc, handled>>
    BY <1>2 DEF RunWorker, WorkerGivesUp, managerVars, managerCtl
  <2>2. Moves(w) /\ Flips(w)
    BY <1>2, WorkerMoves, WorkerFlips DEF IndInv, RunWorker, WorkerGivesUp
  <2>3. CASE handled = w
    BY <1>1, <2>1, <2>2, <2>3 DEF StopsOK, Moves, Flips
  <2>4. CASE handled # w
    BY <1>1, <2>1, <2>2, <2>4 DEF StopsOK, Moves, Flips
  <2>5. QED
    BY <2>3, <2>4
<1>3. CASE RunManager \/ ManagerGivesUp
  <2>1. CASE StopFlag
    BY <2>1 DEF StopFlag, StopUnchanged, StopsOK
  <2>2. CASE StopAlive
    BY <2>2 DEF StopAlive, StopUnchanged, StopsOK, Die
  <2>3. CASE ~StopFlag /\ ~StopAlive
    <3>1. mpc' \notin {"stop2", "stop3"}
      <4>1. CASE CloseWorker
        BY <4>1 DEF CloseWorker
      <4>2. CASE ~CloseWorker
        BY <1>3, <2>3, <4>2
           DEF RunManager, ManagerGivesUp, ManagerStep, ManagerIdleOut, ManagerKilled,
               KilledConsuming, ManagerBoot, ManagerCheck, BusDrained, ConsumeFails, ConsumeResponse,
               AfterConsume, Die, ManagerDown, StopJoin, StopJoined, StopDone,
               RestartWorker, RestartReturns, IterationFails, CloseDone, HaltWorker,
               ManagerEnd
      <4>3. QED
        BY <4>1, <4>2
    <3>2. QED
      BY <3>1 DEF StopsOK
  <2>4. QED
    BY <2>1, <2>2, <2>3
<1>4. ASSUME NEW c \in Clients, RunClient(c) \/ ClientCalls(c)
      PROVE  StopsOK'
  <2>1. UNCHANGED handled /\ (mpc' = mpc \/ mpc' = "boot")
    BY <1>4, ClientLeaves
  <2>2. CASE UNCHANGED <<pc, thread>>
    BY <2>1, <2>2 DEF StopsOK
  <2>3. CASE SpawnWorker(c)
    <3>1. /\ pc' = [pc EXCEPT ![nextWorker] = "boot"]
          /\ thread' = [thread EXCEPT ![nextWorker] = TRUE]
      BY <2>3 DEF SpawnWorker, StartThread
    <3>2. QED
      BY <1>1, <2>1, <3>1 DEF StopsOK
  <2>4. QED
    BY <1>4, <2>2, <2>3, ClientLeaves
<1>5. CASE CancelTask \/ UNCHANGED vars
  BY <1>5 DEF CancelTask, Cancel, managerVars, managerCtl, flagVars, vars, poolVars,
              StopsOK
<1>6. QED
  BY <1>2, <1>3, <1>4, <1>5 DEF Next, Terminated

-----------------------------------------------------------------------------
(***************************************************************************)
(* One client, and a manager that does not give up: a worker disturbs      *)
(* nothing of what holds behind the manager's loop.                        *)
(***************************************************************************)
LEMMA WorkerKeepsQuiet ==
  ASSUME TypeOK, QuietEnd, NEW w \in Workers, RunWorker(w) \/ WorkerGivesUp(w)
  PROVE  QuietEnd'
<1>1. UNCHANGED <<mpc, phase, handled, todo, todoSize, currWorkers, mRunning, cpc>>
  BY DEF RunWorker, WorkerGivesUp, tableVars, managerVars, managerCtl, clientVars
<1>2. Moves(w) /\ DOMAIN pc = Workers
  BY WorkerMoves DEF RunWorker, WorkerGivesUp, TypeOK, PoolStateTypeOK
<1>3. \A v \in Workers : pc'[v] \notin {"unborn", "ended", "died"} => ThreadAlive(v)
  <2>1. \A v \in Workers : v # w => pc'[v] = pc[v]
    BY <1>2 DEF Moves
  <2>2. QED
    BY <1>2, <2>1 DEF Moves, ThreadAlive
<1>4. QED
  BY <1>1, <1>3, TypeParts, FrameKeepsQuiet, QuietParts

\* Nor does any step, when only stop() can end the manager.
LEMMA StepKeepsQuiet ==
  ASSUME Calm, TypeOK, ExitInv, EndsOK, QuietEnd, [Next]_vars
  PROVE  QuietEnd'
<1>1. Clients = {Owner} /\ ~ManagerTimesOut
  BY DEF Calm
<1>2. SharedTypeOK /\ PhaseOK /\ HandledOK /\ ThreadsHeld
  BY TypeParts DEF ExitInv, ThreadsOK, ThreadsHeld
<1>3. CASE CancelTask \/ UNCHANGED vars
  <2>1. UNCHANGED <<mpc, phase, handled, todo, todoSize, currWorkers, pc, cpc, mRunning>>
    BY <1>3 DEF CancelTask, Cancel, vars, poolVars, flagVars, tableVars, managerVars,
                managerCtl, clientVars
  <2>2. QED
    BY <2>1, <1>2, FrameKeepsQuiet, QuietParts DEF ThreadAlive
<1>4. CASE RunManager \/ ManagerGivesUp
  BY <1>1, <1>4, <1>2, ManagerKeepsQuiet DEF RunManager, ManagerGivesUp
<1>5. ASSUME NEW c \in Clients, RunClient(c) \/ ClientCalls(c)
      PROVE  QuietEnd'
  BY <1>1, <1>5, <1>2, ClientKeepsQuiet DEF RunClient, ClientCalls
<1>6. ASSUME NEW w \in Workers, RunWorker(w) \/ WorkerGivesUp(w)
      PROVE  QuietEnd'
  BY <1>6, WorkerKeepsQuiet
<1>7. QED
  BY <1>3, <1>4, <1>5, <1>6 DEF Next, Terminated

-----------------------------------------------------------------------------
(***************************************************************************)
(* The manager's thread raises in four places: when it takes a response,   *)
(* in worker.stop(), in worker.start() and when it goes over its workers.  *)
(***************************************************************************)
LEMMA ManagerDies ==
  ASSUME IndInv, IndInv', StopsOK, Calm => QuietEnd, ~MayFault => AnswersSound,
         RunManager \/ ManagerGivesUp, mpc # "dead", mpc' = "dead"
  PROVE  DiesOnlyInStop'
<1> USE DEF Die
<1>1. CASE ConsumeFails
  <2> DEFINE r == Head(responseBus)
  <2>1. /\ responseBus \in Seq(Responses) /\ responseBus # <<>>
        /\ death' = ConsumeError(r) /\ death' # "KeyError" /\ death' # "none"
    BY <1>1 DEF ConsumeFails, TakeResponse, IndInv, TypeOK, PoolStateTypeOK, ExitInv,
                PopsAreSafe
  <2>2. r = None /\ death' = "AttributeError"
    BY <2>1 DEF ConsumeError
  <2>3. MayFault
    BY <2>1, <2>2, LeftAll DEF AnswersSound
  <2>4. QED
    BY <2>2, <2>3 DEF DiesOnlyInStop
<1>2. CASE StopAlive \/ StopJoin
  <2>1. /\ death' = "AttributeError" /\ ~thread[handled]
        /\ UNCHANGED <<thread, pc, handled>> /\ mpc \in {"stop2", "stop3"}
    BY <1>2 DEF StopAlive, StopJoin, StopUnchanged
  <2>2. handled \in Workers /\ pc[handled] = "ended"
    BY <2>1 DEF StopsOK, IndInv, ExitInv, HandledOK
  <2>3. QED
    BY <2>1, <2>2 DEF DiesOnlyInStop
<1>3. CASE RestartWorker
  <2>1. mpc = "start"
    BY <1>3 DEF RestartWorker
  <2>2. ~thread[handled] /\ Restarting
    BY <2>1 DEF IndInv, ExitInv, HandledOK, PhaseOK, Restarting
  <2>3. ~running[handled]
    BY <2>2 DEF IndInv, ExitInv, ExitsListed, EndedWorkers
  <2>4. QED
    BY <1>3, <2>2, <2>3 DEF RestartWorker
<1>4. CASE IterationFails
  <2>1. phase = "halt" /\ death' = "RuntimeError" /\ todoSize # Cardinality(currWorkers)
    BY <1>4 DEF IterationFails, IterationBroken, IndInv, ExitInv, PhaseOK
  <2>2. ~Calm
    BY <2>1 DEF QuietEnd
  <2>3. QED
    BY <2>1, <2>2 DEF DiesOnlyInStop, Calm
<1>5. CASE ~ (ConsumeFails \/ StopAlive \/ StopJoin \/ RestartWorker \/ IterationFails)
  <2>1. CASE CloseWorker
    BY <2>1 DEF CloseWorker
  <2>2. CASE ~CloseWorker
    BY <1>5, <2>2
       DEF RunManager, ManagerGivesUp, ManagerStep, ManagerIdleOut, ManagerKilled,
           KilledConsuming, ManagerBoot, ManagerCheck, BusDrained, ConsumeResponse, AfterConsume,
           ManagerDown, StopFlag, StopJoined, StopDone, RestartReturns, CloseDone,
           HaltWorker, ManagerEnd
  <2>3. QED
    BY <2>1, <2>2
<1>6. QED
  BY <1>1, <1>2, <1>3, <1>4, <1>5

\* A dead manager stays dead, and so does the worker whose end it met.
LEMMA DeadStays ==
  ASSUME IndInv, DiesOnlyInStop, [Next]_vars, mpc' = "dead",
         mpc = "dead" \/ ~ (RunManager \/ ManagerGivesUp)
  PROVE  DiesOnlyInStop'
<1>1. /\ DOMAIN pc = Workers /\ thread \in [Workers -> BOOLEAN]
  BY DEF IndInv, TypeOK, PoolStateTypeOK
<1>2. ASSUME UNCHANGED <<mpc, death, handled>>,
             \A w \in Workers : pc[w] = "ended" => pc'[w] = "ended" /\ thread'[w] = thread[w]
      PROVE  DiesOnlyInStop'
  BY <1>2 DEF DiesOnlyInStop
<1>3. ASSUME NEW w \in Workers, RunWorker(w) \/ WorkerGivesUp(w)
      PROVE  DiesOnlyInStop'
  <2>1. Moves(w) /\ Flips(w) /\ UNCHANGED <<mpc, death, handled>>
    BY <1>3, WorkerMoves, WorkerFlips
       DEF IndInv, RunWorker, WorkerGivesUp, managerVars, managerCtl
  <2>2. \A v \in Workers : pc[v] = "ended" => pc'[v] = "ended" /\ thread'[v] = thread[v]
    BY <1>1, <2>1 DEF Moves, Flips
  <2>3. QED
    BY <1>2, <2>1, <2>2
<1>4. CASE RunManager \/ ManagerGivesUp
  BY <1>4 DEF RunManager, ManagerGivesUp, ManagerStep, ManagerIdleOut, ManagerKilled,
              KilledConsuming, ManagerAlive, ManagerBoot, ManagerCheck, BusDrained, ConsumeFails,
              ConsumeResponse, TakeResponse, ManagerDown, StopFlag, StopAlive, StopJoin,
              StopJoined, StopDone, RestartWorker, RestartReturns, IterationFails,
              CloseWorker, CloseDone, HaltWorker, ManagerEnd
<1>5. ASSUME NEW c \in Clients, RunClient(c) \/ ClientCalls(c)
      PROVE  DiesOnlyInStop'
  <2>1. UNCHANGED <<mpc, death, handled>>
    BY <1>5, ClientLeaves
  <2>2. CASE SpawnWorker(c)
    <3>1. /\ pc' = [pc EXCEPT ![nextWorker] = "boot"]
          /\ thread' = [thread EXCEPT ![nextWorker] = TRUE]
          /\ nextWorker \in Workers
      BY <2>2, PoolStateAssumption DEF SpawnWorker, StartThread, IndInv, TypeOK, TableTypeOK, Workers
    <3>2. pc[nextWorker] = "unborn"
      BY <3>1, WorkersNat DEF IndInv, ExitInv, WorkersNumbered
    <3>3. \A v \in Workers : pc[v] = "ended" => pc'[v] = "ended" /\ thread'[v] = thread[v]
      BY <1>1, <3>1, <3>2
    <3>4. QED
      BY <1>2, <2>1, <3>3
  <2>3. CASE UNCHANGED <<pc, thread>>
    BY <1>2, <2>1, <2>3
  <2>4. QED
    BY <1>5, <2>2, <2>3, ClientLeaves
<1>6. CASE CancelTask \/ UNCHANGED vars
  BY <1>2, <1>6 DEF CancelTask, Cancel, managerVars, managerCtl, flagVars, vars, poolVars
<1>7. QED
  BY <1>3, <1>4, <1>5, <1>6 DEF Next, Terminated

-----------------------------------------------------------------------------
\* A pool at rest has nothing to stop.
LEMMA InitStopInv == Init => StopInv /\ ContractInv
<1> SUFFICES ASSUME Init PROVE StopInv /\ ContractInv
  OBVIOUS
<1> USE DEF Init, PoolStateInit, ThreadWorkerInit, ThreadManagerInit
<1>1. EndsOK /\ StopsOK /\ DiesOnlyInStop
  BY DEF EndsOK, StopsOK, DiesOnlyInStop
<1>2. QuietEnd
  BY ThreadManagerAssumption DEF QuietEnd, Submitting
<1>3. AnswersSound
  BY DEF AnswersSound
<1>4. NobodyLeaves
  BY AnswerFacts, WorkersNat DEF NobodyLeaves
<1>5. ContractInv
  BY DEF ContractInv, HandEmpty, WorkUnsettled
<1>6. QED
  BY <1>1, <1>2, <1>3, <1>4, <1>5 DEF StopInv

\* The two invariants hold in every state of the pool.
LEMMA StopInvHolds == Spec => [](IndInv /\ StopInv)
<1>1. IndInv /\ IndInv' /\ ContractInv /\ StopInv /\ [Next]_vars => StopInv'
  <2> SUFFICES ASSUME IndInv, IndInv', ContractInv, StopInv, [Next]_vars PROVE StopInv'
    OBVIOUS
  <2>1. EndsOK' /\ StopsOK'
    BY StepKeepsEnds, StepKeepsStops DEF StopInv
  <2>2. Calm => QuietEnd'
    BY StepKeepsQuiet DEF IndInv, StopInv
  <2>3. ~MayFault => AnswersSound'
    BY StepKeepsSound DEF StopInv
  <2>4. ~MayGiveUp => NobodyLeaves'
    <3>1. ~MayGiveUp => ~MayFault
      BY DEF MayGiveUp
    <3>2. QED
      BY <3>1, StepKeepsStaying DEF StopInv
  <2>5. DiesOnlyInStop'
    <3>1. CASE mpc' = "dead" /\ mpc # "dead" /\ (RunManager \/ ManagerGivesUp)
      BY <3>1, ManagerDies DEF StopInv
    <3>2. CASE mpc' = "dead" /\ (mpc = "dead" \/ ~ (RunManager \/ ManagerGivesUp))
      BY <3>2, DeadStays DEF StopInv
    <3>3. CASE mpc' # "dead"
      BY <3>3 DEF DiesOnlyInStop
    <3>4. QED
      BY <3>1, <3>2, <3>3
  <2>6. (Calm => QuietEnd)' /\ (~MayFault => AnswersSound)' /\ (~MayGiveUp => NobodyLeaves)'
    BY <2>2, <2>3, <2>4 DEF Calm, MayFault, MayGiveUp
  <2>7. QED
    BY <2>1, <2>5, <2>6 DEF StopInv
<1>2. QED
  BY <1>1, InitStopInv, IndInvHolds, StepKeepsContractInv, PTL DEF Spec

(***************************************************************************)
(* Whatever the threads and the clients do, the manager's thread dies in   *)
(* worker.stop() of a worker that just ended, or of an answer that a       *)
(* cancellation or a BaseException left behind, or, with several clients   *)
(* or a manager that gives up, of a worker added behind its loop.          *)
(***************************************************************************)
THEOREM ManagerDiesOnlyInStop == Spec => []DiesOnlyInStop
<1>1. StopInv => DiesOnlyInStop
  BY DEF StopInv
<1>2. QED
  BY <1>1, StopInvHolds, PTL

(***************************************************************************)
(* stop() of an only client, whose manager does not give up for idleness:  *)
(* a manager that ended by itself has left no worker thread, unless one    *)
(* gave up and is about to end.                                            *)
(***************************************************************************)
THEOREM StopsEndWorkers ==
  Clients = {Owner} /\ ~ManagerTimesOut => (Spec => []StopEndsWorkers)
<1> SUFFICES ASSUME Calm PROVE Spec => []StopEndsWorkers
  BY DEF Calm
<1>1. IndInv /\ StopInv => StopEndsWorkers
  <2> SUFFICES ASSUME IndInv, StopInv, mpc = "ended", NEW w \in Workers, ThreadAlive(w)
               PROVE  MayGiveUp /\ pc[w] = "clear" /\ w \notin currWorkers
    BY DEF StopEndsWorkers
  <2>1. todo = {} /\ \A v \in currWorkers : ~ThreadAlive(v)
    BY DEF StopInv, EndsOK, QuietEnd, Halting, Halted
  <2>2. w \notin currWorkers /\ pc[w] = "clear"
    BY <2>1 DEF IndInv, ExitInv, WorkersKnown, ThreadAlive
  <2>3. MayGiveUp
    <3>1. w < nextWorker
      BY <2>2, WorkersNat, PoolStateAssumption
         DEF IndInv, ExitInv, WorkersNumbered, TypeOK, TableTypeOK
    <3>2. QED
      BY <2>2, <3>1 DEF StopInv, NobodyLeaves
  <2>4. QED
    BY <2>2, <2>3
<1>2. QED
  BY <1>1, StopInvHolds, PTL

=============================================================================
