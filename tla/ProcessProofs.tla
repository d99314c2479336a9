---------------------------- MODULE ProcessProofs ----------------------------
(***************************************************************************)
(* Proofs that ProcessPool keeps its invariants for all values of its      *)
(* constants.                                                              *)
(***************************************************************************)
EXTENDS ProcessPoolInv, TLAPS, FiniteSetTheorems, WellFoundedInduction,
        SequenceTheorems

\* A non-empty set of worker numbers has a least element: Min picks it.
LEMMA MinInSet ==
  ASSUME NEW S \in SUBSET Nat, S # {}
  PROVE  Min(S) \in S
<1> DEFINE R == OpToRel(<, Nat)
<1>1. PICK x \in S : \A y \in S : ~ (<<y, x>> \in R)
  <2>1. IsWellFoundedOn(R, Nat)
    BY NatLessThanWellFounded
  <2> HIDE DEF R
  <2>2. QED
    BY <2>1, WFMin
<1>2. \A y \in S : x =< y
  <2>1. TAKE y \in S
  <2>2. <<y, x>> \in R <=> y < x
    BY DEF OpToRel
  <2>3. <<y, x>> \notin R
    BY <1>1
  <2> HIDE DEF R
  <2> QED
    BY <2>2, <2>3
<1>3. QED
  BY <1>2 DEF Min

\* Workers are numbers, and finitely many.
LEMMA WorkerSets ==
  /\ Workers \in SUBSET Nat
  /\ \A S \in SUBSET Workers : IsFiniteSet(S) /\ Cardinality(S) \in Nat
<1>1. IsFiniteSet(Workers) /\ Workers \in SUBSET Nat
  BY PoolStateAssumption, FS_Interval DEF Workers
<1>2. QED
  BY <1>1, FS_Subset, FS_CardinalityType

\* What Append and Tail do, index by index.
LEMMA AppendFacts ==
  ASSUME NEW S, NEW s \in Seq(S), NEW x \in S
  PROVE  /\ Append(s, x) \in Seq(S) /\ Len(Append(s, x)) = Len(s) + 1
         /\ Len(s) + 1 \in DOMAIN Append(s, x)
         /\ Append(s, x)[Len(s) + 1] = x
         /\ \A i \in DOMAIN s :
              i \in Nat /\ i # Len(s) + 1 /\ i \in DOMAIN Append(s, x)
              /\ Append(s, x)[i] = s[i]
         /\ \A i \in DOMAIN Append(s, x) :
              \/ i \in DOMAIN s /\ Append(s, x)[i] = s[i]
              \/ i = Len(s) + 1 /\ Append(s, x)[i] = x
  OBVIOUS

\* What Tail does, index by index.
LEMMA TailFacts ==
  ASSUME NEW S, NEW s \in Seq(S), s # <<>>
  PROVE  /\ Tail(s) \in Seq(S) /\ Len(Tail(s)) = Len(s) - 1
         /\ Head(s) \in S
         /\ 1 \in DOMAIN s /\ Head(s) = s[1]
         /\ \A i \in DOMAIN Tail(s) :
              /\ i \in Nat /\ i + 1 \in DOMAIN s /\ i + 1 # 1
              /\ Tail(s)[i] = s[i + 1]
         /\ \A i \in DOMAIN s :
              i # 1 => i - 1 \in DOMAIN Tail(s) /\ s[i] = Tail(s)[i - 1]
  OBVIOUS

\* The answers of the code are responses.
LEMMA ResponseFacts ==
  /\ None \in Responses
  /\ \A flag \in SUBSET Flags, t \in Tasks \cup {NoTask},
        w \in Workers \cup {NoWorker} : Action(flag, t, w) \in Responses
  /\ \A r \in Responses, flag \in Flags : AddFlag(r, flag) \in Responses
  /\ \A t \in Tasks \cup {NoTask}, w \in Workers, o \in {"result", "exception", "exit"} :
       AnswerTo(t, w, o) \in Responses
  BY DEF Action, Responses, AddFlag, None, AnswerTo, Flags

-----------------------------------------------------------------------------
(***************************************************************************)
(* Types.                                                                  *)
(***************************************************************************)

\* A pool that nobody has started has the right types.
LEMMA InitType == Init => TypeOK
<1> SUFFICES ASSUME Init PROVE TypeOK
  OBVIOUS
<1> USE DEF Init, ProcessStateInit
<1>1. PoolStateTypeOK
  <2>1. [w \in Workers |-> <<>>] \in [Workers -> Seq(Responses)]
    OBVIOUS
  <2>2. QED
    BY <2>1 DEF PoolStateInit, PoolStateTypeOK, FutureStates, Workers
<1>2. counter \in CounterValues /\ 0 \in CounterValues
  BY ProcessStateAssumption DEF CounterValues
<1>3. ProcessWorkerTypeOK
  BY <1>2, ResponseFacts DEF ProcessWorkerInit, ProcessWorkerTypeOK
<1>4. TableTypeOK
  BY PoolStateAssumption DEF ProcessManagerInit, ThreadManagerInit, TableTypeOK
<1>5. ProcessManagerTypeOK
  BY <1>2, <1>4, ResponseFacts
     DEF ProcessManagerInit, ThreadManagerInit, ProcessManagerTypeOK
<1>6. QED
  BY <1>1, <1>2, <1>3, <1>5 DEF TypeOK, ProcessStateTypeOK

\* The counter of waiting tasks wraps.
LEMMA WrapType == \A n \in Int : Wrap(n) \in CounterValues
  BY ProcessStateAssumption DEF Wrap, CounterValues

\* A step of a worker process keeps the types of what it can change.
LEMMA WorkerKeepsType ==
  ASSUME TypeOK, NEW w \in Workers,
         WorkerStep(w) \/ GetTask(w) \/ FeederStep(w) \/ TimeOut(w) \/ Crash(w)
  PROVE  ProcessStateTypeOK' /\ ProcessWorkerTypeOK'
<1> USE DEF TypeOK, ProcessStateTypeOK, PoolStateTypeOK, ProcessWorkerTypeOK
<1>1. CASE Boot(w)
  BY <1>1, ResponseFacts DEF Boot, busVars, ResetCounts, Goto
<1>2. CASE TimeOut(w)
  <2>1. Action({"CLOSE"}, NoTask, w) \in Responses
    BY ResponseFacts DEF Flags
  <2>2. QED
    BY <1>2, <2>1 DEF TimeOut, busVars, countVars, Goto
<1>3. CASE HandleRequest(w)
  <2> DEFINE request == Head(requestBus[w])
             leaves  == Match(request, {"CLOSE", "RESTART", "FATAL_ERROR"})
  <2>1. request \in Responses /\ Tail(requestBus[w]) \in Seq(Responses)
    BY <1>3, TailFacts DEF HandleRequest
  <2>2. Action(request.flag, NoTask, w) \in Responses
    BY <2>1, ResponseFacts DEF Responses
  <2>3. response' \in [Workers -> Responses]
    BY <1>3, <2>2 DEF HandleRequest
  <2>4. requestBus' \in [Workers -> Seq(Responses)]
    BY <1>3, <2>1 DEF HandleRequest
  <2>5. /\ taskCount' \in [Workers -> Nat] /\ errCount' \in [Workers -> Nat]
        /\ consErrCount' \in [Workers -> Nat]
    <3>1. ResetCounts(w) \/ UNCHANGED countVars
      BY <1>3 DEF HandleRequest
    <3>2. QED
      BY <3>1, SMTT(20) DEF ResetCounts, countVars
  <2>6. pc' = [pc EXCEPT ![w] = "quit"] \/ pc' = [pc EXCEPT ![w] = "requests"]
    BY <1>3 DEF HandleRequest, Goto
  <2>7. QED
    BY <1>3, <2>3, <2>4, <2>5, <2>6 DEF HandleRequest
<1>4. CASE NoRequest(w) \/ CheckRunning(w) \/ GetEmpty(w) \/ EndProcess(w)
  <2>1. \E label \in {"check", "get", "quit", "top", "ended"} :
           pc' = [pc EXCEPT ![w] = label]
    BY <1>4 DEF NoRequest, CheckRunning, GetEmpty, EndProcess, Goto
  <2>2. UNCHANGED <<busVars, future, running, idle, inited, thread, workerLocals, counter>>
    BY <1>4 DEF NoRequest, CheckRunning, GetEmpty, EndProcess
  <2>3. QED
    BY <2>1, <2>2 DEF busVars, workerLocals, countVars
<1>5. CASE GetTask(w)
  BY <1>5, TailFacts DEF GetTask, Goto, countVars
<1>6. CASE LoadCounter(w)
  BY <1>6 DEF LoadCounter, Goto, countVars, busVars
<1>7. CASE StoreCounter(w)
  <2>1. Wrap(seen[w] - 1) \in CounterValues /\ 0 \in CounterValues
    <3>1. seen[w] - 1 \in Int /\ 0 \in CounterValues
      BY ProcessStateAssumption DEF CounterValues
    <3>2. QED
      BY <3>1, WrapType
  <2>2. QED
    BY <1>7, <2>1 DEF StoreCounter, Goto, countVars, busVars
<1>8. CASE BeginTask(w)
  BY <1>8 DEF BeginTask, Goto, workerLocals, countVars, busVars
<1>9. ASSUME NEW o \in Outcomes,
             \/ FinishAndContinue(w, o) \/ FinishAndRestart(w, o)
             \/ FinishAndFail(w, o) \/ FinishAndExit(w, o)
      PROVE  ProcessStateTypeOK' /\ ProcessWorkerTypeOK'
  <2>1. RunTask(w, o) /\ o \in {"result", "exception", "exit"}
    BY <1>9, ProcessWorkerAssumption
       DEF FinishAndContinue, FinishAndRestart, FinishAndFail, FinishAndExit
  <2>2. /\ task' \in [Workers -> Tasks \cup {NoTask}]
        /\ taskCount' \in [Workers -> Nat] /\ errCount' \in [Workers -> Nat]
        /\ consErrCount' \in [Workers -> Nat] /\ idle' \in [Workers -> BOOLEAN]
    BY <2>1, SMTT(20) DEF RunTask, ErrCountWith, ConsErrCountWith
  <2> DEFINE r == AnswerTo(task[w], w, o)
  <2>3. r \in Responses /\ AddFlag(r, "RESTART") \in Responses
    BY <2>1, ResponseFacts DEF Flags
  <2>4. Action({"CLOSE", "FATAL_ERROR"}, NoTask, w) \in Responses
    BY ResponseFacts DEF Flags
  <2> HIDE DEF r
  <2>5. response' \in [Workers -> Responses]
    <3>1. \E a \in Responses : response' = [response EXCEPT ![w] = a]
      BY <1>9, <2>3, <2>4, ResponseFacts
         DEF r, FinishAndContinue, FinishAndRestart, FinishAndFail, FinishAndExit
    <3>2. QED
      BY <3>1
  <2>6. outbox' \in [Workers -> Seq(Responses)]
    <3>1. \/ UNCHANGED outbox
          \/ \E a \in Responses : outbox' = [outbox EXCEPT ![w] = Append(@, a)]
      BY <1>9, <2>3, ResponseFacts
         DEF r, FinishAndContinue, FinishAndRestart, FinishAndFail, FinishAndExit
    <3>2. ASSUME NEW a \in Responses, outbox' = [outbox EXCEPT ![w] = Append(@, a)]
          PROVE  outbox' \in [Workers -> Seq(Responses)]
      BY <3>2, AppendFacts
    <3>3. QED
      BY <3>1, <3>2
  <2>7. \E label \in {"top", "quit", "flush"} : pc' = [pc EXCEPT ![w] = label]
    BY <1>9 DEF FinishAndContinue, FinishAndRestart, FinishAndFail,
                FinishAndExit, Goto
  <2>8. QED
    BY <2>1, <2>2, <2>5, <2>6, <2>7 DEF RunTask, busVars
<1>10. CASE Quit(w)
  <2>1. outbox' \in [Workers -> Seq(Responses)]
    BY <1>10, AppendFacts DEF Quit
  <2>2. QED
    BY <1>10, <2>1, ResponseFacts DEF Quit, Goto, busVars, countVars
<1>11. CASE SendAnswer(w)
  <2>1. responseBus' \in Seq(Responses) /\ outbox' \in [Workers -> Seq(Responses)]
    BY <1>11, AppendFacts, TailFacts DEF SendAnswer
  <2>2. QED
    BY <1>11, <2>1 DEF SendAnswer, flagVars, countVars
<1>12. CASE DropAnswer(w)
  <2>1. \/ outbox' = [outbox EXCEPT ![w] = Tail(outbox[w])]
        \/ outbox' = [outbox EXCEPT ![w] = <<>>]
    BY <1>12 DEF DropAnswer
  <2>2. Tail(outbox[w]) \in Seq(Responses) /\ <<>> \in Seq(Responses)
    BY <1>12, TailFacts DEF DropAnswer
  <2>3. outbox' \in [Workers -> Seq(Responses)]
    BY <2>1, <2>2
  <2>4. QED
    BY <1>12, <2>3 DEF DropAnswer, flagVars, busVars, countVars
<1>13. CASE Crash(w)
  <2>1. 0 \in CounterValues
    BY ProcessStateAssumption DEF CounterValues
  <2>2. QED
    BY <1>13, <2>1, ResponseFacts DEF Crash, Goto, busVars, countVars
<1>14. QED
  BY <1>1, <1>2, <1>3, <1>4, <1>5, <1>6, <1>7, <1>8, <1>9, <1>10, <1>11, <1>12,
     <1>13 DEF WorkerStep, FeederStep

\* A step of the manager's thread, or its end.
ManagerSteps ==
  /\ ProcessManagerStep \/ ((ManagerIdleOut \/ ManagerKilled) /\ UNCHANGED ownVars)
  /\ UNCHANGED <<workerLocals, clientVars, counter, cSeen>>

\* A step of the manager keeps the types of what it can change.
LEMMA ManagerKeepsType ==
  ASSUME TypeOK, ProcessManagerStep \/ ManagerIdleOut \/ ManagerKilled,
         UNCHANGED workerLocals
  PROVE  PoolStateTypeOK' /\ TableTypeOK'
<1> USE DEF TypeOK, ProcessStateTypeOK, PoolStateTypeOK, ProcessManagerTypeOK,
            TableTypeOK, poolVars, busVars, flagVars, tableVars
<1>1. CASE \/ BusEmpty \/ Drained \/ RestartSeen \/ ManagerBoot \/ ManagerCheck
           \/ ManagerDown \/ IterationFails \/ CloseDone \/ HaltWorker \/ ManagerEnd
           \/ ManagerIdleOut \/ ManagerKilled
  <2>1. UNCHANGED <<poolVars, tableVars>>
    BY <1>1 DEF BusEmpty, Drained, RestartSeen, ManagerBoot, ManagerCheck, ManagerDown,
                IterationFails, CloseDone, HaltWorker, ManagerEnd,
                ManagerIdleOut, ManagerKilled
  <2>2. QED
    BY <2>1
<1>2. CASE GetAnswer \/ PopTask \/ SetFuture \/ HandleAnswer
  <2>1. CASE GetAnswer
    <3>1. responseBus' \in Seq(Responses)
      BY <2>1, TailFacts DEF GetAnswer
    <3>2. QED
      BY <2>1, <3>1 DEF GetAnswer
  <2>2. CASE PopTask
    <3>1. currTasks' \in SUBSET Tasks
      BY <2>2 DEF PopTask, TasksAfter
    <3>2. QED
      BY <2>2, <3>1 DEF PopTask
  <2>3. CASE SetFuture
    <3>1. future' \in [Tasks -> FutureStates]
      BY <2>3 DEF SetFuture, Outcome, FutureStates
    <3>2. QED
      BY <2>3, <3>1 DEF SetFuture, SetUnchanged
  <2>4. CASE HandleAnswer
    <3>1. currWorkers' \in SUBSET Workers
      BY <2>4 DEF HandleAnswer
    <3>2. QED
      BY <2>4, <3>1 DEF HandleAnswer
  <2>5. QED
    BY <1>2, <2>1, <2>2, <2>3, <2>4
<1>3. CASE ClearRunning \/ ForgetProcess \/ JoinProcess
  <2>1. running' \in [Workers -> BOOLEAN] /\ thread' \in [Workers -> BOOLEAN]
    BY <1>3 DEF ClearRunning, ForgetProcess, JoinProcess
  <2>2. HaltUnchanged
    BY <1>3 DEF ClearRunning, ForgetProcess, JoinProcess
  <2>3. QED
    BY <2>1, <2>2 DEF HaltUnchanged
<1>4. CASE RestartProcess
  BY <1>4 DEF RestartProcess, RestartWorker, StartThread
<1>5. CASE CloseWorker
  <2>1. Action({"CLOSE"}, NoTask, NoWorker) \in Responses
    BY ResponseFacts DEF Flags
  <2>2. requestBus' \in [Workers -> Seq(Responses)]
    <3>1. Min(todo) \in Workers
      BY <1>5, MinInSet, WorkerSets DEF CloseWorker
    <3>2. Append(requestBus[Min(todo)], Action({"CLOSE"}, NoTask, NoWorker))
            \in Seq(Responses)
      BY <2>1, <3>1, AppendFacts
    <3>3. QED
      BY <1>5, <3>2 DEF CloseWorker
  <2>3. QED
    BY <1>5, <2>2 DEF CloseWorker
<1>6. QED
  BY <1>1, <1>2, <1>3, <1>4, <1>5 DEF ProcessManagerStep

\* ... and the types of its own variables.
LEMMA ManagerKeepsOwnType ==
  ASSUME TypeOK, ManagerSteps
  PROVE  /\ mRunning' \in BOOLEAN /\ mInited' \in BOOLEAN
         /\ mThread' \in BOOLEAN /\ mKill' \in BOOLEAN
         /\ mpc' \in {"unborn", "boot", "top", "receive", "pop", "set", "handle",
                      "down", "stop1", "join", "stopped", "start", "spin", "close",
                      "halt", "ended", "dead", "killed"}
         /\ phase' \in {"loop", "drain", "halt"}
         /\ processed' \in Nat /\ handled' \in Workers \cup {NoWorker}
         /\ todo' \in SUBSET Workers /\ todoSize' \in Nat
         /\ death' \in {"none", "AttributeError", "KeyError", "RuntimeError",
                        "TypeError", "InvalidStateError"}
         /\ received' \in Responses
<1> USE DEF TypeOK, ProcessManagerTypeOK, TableTypeOK, clientVars, managerCtl, ownVars
<1>1. CASE BusEmpty \/ ((ManagerBoot \/ ManagerDown) /\ UNCHANGED ownVars)
  BY <1>1 DEF BusEmpty, ManagerBoot, ManagerDown
<1>10. CASE ManagerCheck /\ UNCHANGED ownVars
  BY <1>10 DEF ManagerCheck
<1>9. CASE RestartSeen
  BY <1>9 DEF RestartSeen, AfterConsume, CountResponse
<1>2. CASE (ManagerEnd \/ ManagerIdleOut \/ ManagerKilled) /\ UNCHANGED ownVars
  <2>1. CASE ManagerEnd
    BY <1>2, <2>1 DEF ManagerEnd
  <2>2. CASE ManagerIdleOut
    BY <1>2, <2>2 DEF ManagerIdleOut
  <2>3. CASE ManagerKilled
    BY <1>2, <2>3 DEF ManagerKilled
  <2>4. QED
    BY <1>2, <2>1, <2>2, <2>3
<1>11. CASE IterationFails /\ UNCHANGED ownVars
  BY <1>11 DEF IterationFails, Die
<1>3. CASE Drained \/ (CloseDone /\ UNCHANGED ownVars)
  BY <1>3, WorkerSets DEF Drained, CloseDone
<1>4. CASE GetAnswer \/ PopTask \/ SetFuture
  <2>1. CASE GetAnswer
    <3>1. Head(responseBus) \in Responses
      BY <2>1, TailFacts DEF GetAnswer, ProcessStateTypeOK, PoolStateTypeOK
    <3>2. QED
      BY <2>1, <3>1 DEF GetAnswer, Die
  <2>2. CASE PopTask
    BY <2>2 DEF PopTask, PopError, Die
  <2>3. CASE SetFuture
    BY <2>3 DEF SetFuture, SetUnchanged, Die
  <2>4. QED
    BY <1>4, <2>1, <2>2, <2>3
<1>12. CASE HandleAnswer
  <2>1. received.worker \in Workers \cup {NoWorker}
    BY DEF Responses
  <2>2. None \in Responses
    BY ResponseFacts
  <2>3. QED
    BY <1>12, <2>1, <2>2 DEF HandleAnswer, Die, AfterConsume, CountResponse
<1>5. CASE ClearRunning \/ ForgetProcess \/ JoinProcess
  BY <1>5 DEF ClearRunning, ForgetProcess, JoinProcess, HaltUnchanged
<1>6. CASE RestartProcess
  BY <1>6 DEF RestartProcess, RestartWorker, Die
<1>7. CASE (CloseWorker \/ HaltWorker) /\ UNCHANGED ownVars
  <2>1. Min(todo) \in todo
    BY <1>7, MinInSet, WorkerSets DEF CloseWorker, HaltWorker
  <2>2. QED
    BY <1>7, <2>1 DEF CloseWorker, HaltWorker
<1>8. QED
  BY <1>1, <1>2, <1>3, <1>4, <1>5, <1>6, <1>7, <1>9, <1>10, <1>11, <1>12
     DEF ProcessManagerStep, ManagerSteps

\* adjust_worker_iterator asks for a number of workers.
LEMMA WorkersToAddType ==
  ASSUME NEW curr \in Nat, NEW free \in Nat, NEW tasks \in Nat
  PROVE  WorkersToAdd(NumWorkers, Incremental, curr, free, tasks) \in Nat
  BY ThreadManagerAssumption DEF WorkersToAdd, RangeLength

\* The locals of the clients have the right types.
Labels == {"idle", "starting", "queue", "load", "store", "adjust", "count", "scan",
           "spawn", "launch", "spin", "stop2", "stop3", "join", "expired", "expired2",
           "kill2", "kill3"}
Applying == {"queue", "load", "store", "adjust", "count", "scan"}
CallsOK ==
  /\ cpc \in [Clients -> Labels]
  /\ cTask \in [Clients -> Tasks \cup {NoTask}]
  /\ cTasks \in [Clients -> Nat] /\ cTodo \in [Clients -> SUBSET Workers]
  /\ cSize \in [Clients -> Nat] /\ cIdle \in [Clients -> Nat]
  /\ cWorker \in [Clients -> Workers \cup {NoWorker}]
  /\ \A c \in Clients : cpc[c] \in Applying => cTask[c] \in Tasks

\* The calls that begin or go on with stop() and terminate().
StopSteps(c) ==
  \/ StopTestsAlive(c) \/ StopCallsJoin(c) \/ StopReturns(c) \/ StopExpired(c)
  \/ StopRaises(c) \/ TerminateTestsAlive(c) \/ TerminateKills(c)
  \/ Stop(c) \/ Terminate(c) \/ StopGivesUp(c)

\* What they do.
LEMMA StopCallFacts ==
  ASSUME TypeOK, NEW c \in Clients, StopSteps(c)
  PROVE  /\ StopCallUnchanged
         /\ mRunning' \in BOOLEAN /\ mThread' \in BOOLEAN /\ mKill' \in BOOLEAN
         /\ \E label \in {"idle", "stop2", "stop3", "join", "expired", "expired2",
                          "kill2", "kill3"} : cpc' = [cpc EXCEPT ![c] = label]
         /\ cpc[c] \in {"idle", "stop2", "stop3", "join", "expired", "expired2",
                        "kill2", "kill3"}
         /\ mRunning' = mRunning \/ mRunning' = FALSE
<1> USE DEF StopSteps, StopTestsAlive, StopCallsJoin, StopReturns, StopExpired,
            StopRaises, TerminateTestsAlive, TerminateKills, TestsAlive, Stop, Terminate,
            CallStop, StopGivesUp
<1>1. StopCallUnchanged
  OBVIOUS
<1>2. mRunning' \in BOOLEAN /\ mThread' \in BOOLEAN /\ mKill' \in BOOLEAN
  BY DEF TypeOK, ProcessManagerTypeOK
<1>3. \E label \in {"idle", "stop2", "stop3", "join", "expired", "expired2", "kill2",
                    "kill3"} : cpc' = [cpc EXCEPT ![c] = label]
  BY DEF EndStop, CGoto
<1>4. cpc[c] \in {"idle", "stop2", "stop3", "join", "expired", "expired2", "kill2", "kill3"}
  OBVIOUS
<1>5. mRunning' = mRunning \/ mRunning' = FALSE
  OBVIOUS
<1>6. QED
  BY <1>1, <1>2, <1>3, <1>4, <1>5

\* A call of a client keeps the types of the locals of the clients.
LEMMA ClientKeepsCalls ==
  ASSUME TypeOK, NEW c \in Clients, ProcessClientStep(c) \/ ClientCall(c)
  PROVE  CallsOK'
<1>1. CallsOK /\ counter \in CounterValues /\ CounterValues \subseteq Nat
  BY DEF TypeOK, ProcessStateTypeOK, ProcessManagerTypeOK, CallsOK, Labels, Applying,
         CounterValues
<1>2. ASSUME UNCHANGED <<cTask, cTasks, cTodo, cSize, cIdle, cWorker>>,
             NEW label \in Labels \ (Applying \ {"load", "store", "adjust", "count", "scan"}),
             cpc' = [cpc EXCEPT ![c] = label],
             label \in Applying => cpc[c] \in Applying
      PROVE  CallsOK'
  BY <1>1, <1>2 DEF CallsOK
<1>3. CASE EndSubmit(c)
  BY <1>1, <1>3 DEF CallsOK, EndSubmit, CGoto, Labels, Applying
<1>4. CASE StopSteps(c)
  BY <1>2, <1>4, StopCallFacts DEF StopCallUnchanged, Labels, Applying
<1>5. CASE \/ PutTask(c) \/ LoadCount(c) \/ StoreCount(c) \/ LaunchWorker(c)
           \/ LaunchSeen(c) \/ Start(c) \/ StartReturns(c)
  BY <1>2, <1>5 DEF PutTask, LoadCount, StoreCount, LaunchWorker, LaunchSeen, Start,
                    StartReturns, CGoto, Labels, Applying
<1>6. CASE AdjustWorkers(c)
  BY <1>2, <1>3, <1>6 DEF AdjustWorkers, CGoto, Labels, Applying
<1>7. CASE ScanFails(c) \/ SubmitReturns(c)
  BY <1>3, <1>7 DEF ScanFails, SubmitReturns
<1>8. CASE ReadCount(c)
  <2>1. Cardinality(currWorkers) \in Nat /\ currWorkers \in SUBSET Workers
    BY WorkerSets DEF TypeOK, ProcessManagerTypeOK, TableTypeOK
  <2>2. counter \in Nat /\ (IF CountsIdle THEN currWorkers ELSE {}) \in SUBSET Workers
    BY <1>1, <2>1
  <2>3. QED
    BY <1>1, <1>8, <2>1, <2>2 DEF ReadCount, CallsOK, CGoto, Labels, Applying
<1>9. CASE ScanProcess(c)
  BY <1>1, <1>9 DEF ScanProcess, CallsOK
<1>10. CASE ScanDone(c)
  <2>1. WorkersToAdd(NumWorkers, Incremental, Cardinality(currWorkers),
                     cIdle[c], cTasks[c]) \in Nat
    <3>1. Cardinality(currWorkers) \in Nat
      BY WorkerSets DEF TypeOK, ProcessManagerTypeOK, TableTypeOK
    <3>2. QED
      BY <1>1, <3>1, WorkersToAddType DEF CallsOK
  <2>2. QED
    BY <1>1, <1>10, <2>1 DEF ScanDone, CallsOK, CGoto, Labels, Applying
<1>11. CASE EnterWorker(c)
  <2>1. nextWorker \in Workers
    BY <1>11, PoolStateAssumption
       DEF EnterWorker, Workers, TypeOK, ProcessManagerTypeOK, TableTypeOK
  <2>2. cTasks[c] - 1 \in Nat
    BY <1>1, <1>11 DEF EnterWorker, CallsOK
  <2>3. QED
    BY <1>1, <1>11, <2>1, <2>2 DEF EnterWorker, CallsOK, CGoto, Labels, Applying
<1>12. ASSUME NEW t \in Tasks, Submit(c, t)
       PROVE  CallsOK'
  BY <1>1, <1>12 DEF Submit, CallsOK, CGoto, Labels, Applying
<1>13. QED
  BY <1>4, <1>5, <1>6, <1>7, <1>8, <1>9, <1>10, <1>11, <1>12
     DEF ProcessClientStep, ClientCall, StopSteps

\* A call of a client keeps the types of the pool and of the manager.
LEMMA ClientKeepsType ==
  ASSUME TypeOK, NEW c \in Clients,
         ProcessClientStep(c) \/ (ClientCall(c) /\ UNCHANGED ownVars),
         UNCHANGED workerLocals
  PROVE  TypeOK'
<1> USE DEF ownVars
<1>1. ProcessWorkerTypeOK' /\ CallsOK'
  BY ClientKeepsCalls
     DEF TypeOK, ProcessWorkerTypeOK, workerLocals, countVars
<1>2. ASSUME PoolStateTypeOK', TableTypeOK', counter' \in CounterValues,
             mRunning' \in BOOLEAN, mThread' \in BOOLEAN, mKill' \in BOOLEAN,
             mpc' \in {mpc, "boot"},
             UNCHANGED <<mInited, phase, processed, handled, todo, todoSize, death,
                         received>>,
             cSeen' \in [Clients -> CounterValues], submitError' \in SUBSET Tasks
      PROVE  TypeOK'
  BY <1>1, <1>2 DEF TypeOK, ProcessStateTypeOK, ProcessManagerTypeOK, CallsOK, Labels,
                    Applying
<1>3. /\ PoolStateTypeOK /\ TableTypeOK /\ counter \in CounterValues
      /\ mRunning \in BOOLEAN /\ mThread \in BOOLEAN /\ mKill \in BOOLEAN
      /\ cSeen \in [Clients -> CounterValues] /\ submitError \in SUBSET Tasks
  BY DEF TypeOK, ProcessStateTypeOK, ProcessManagerTypeOK
<1>4. ASSUME UNCHANGED poolVars PROVE PoolStateTypeOK'
  BY <1>3, <1>4 DEF PoolStateTypeOK, poolVars, busVars, flagVars
<1>5. ASSUME UNCHANGED tableVars PROVE TableTypeOK'
  BY <1>3, <1>5 DEF TableTypeOK, tableVars
<1>6. CASE StopSteps(c)
  <2>1. StopCallUnchanged /\ UNCHANGED ownVars
    <3>1. cpc[c] \in {"idle", "stop2", "stop3", "join", "expired", "expired2", "kill2", "kill3"}
      BY <1>6, StopCallFacts
    <3>2. UNCHANGED ownVars
      BY <3>1 DEF ProcessClientStep, PutTask, LoadCount, StoreCount,
                  ReadCount, ScanProcess, EnterWorker, LaunchWorker, LaunchSeen
    <3>3. QED
      BY <1>6, <3>2, StopCallFacts
  <2>2. QED
    BY <1>2, <1>3, <1>4, <1>5, <1>6, <2>1, StopCallFacts
       DEF StopCallUnchanged, managerCtl
<1>7. CASE \/ StartReturns(c) /\ UNCHANGED ownVars
           \/ AdjustWorkers(c) /\ UNCHANGED ownVars
           \/ ScanDone(c) /\ UNCHANGED ownVars
           \/ SubmitReturns(c) /\ UNCHANGED ownVars
           \/ ReadCount(c) \/ ScanProcess(c) \/ LaunchSeen(c)
  <2>1. UNCHANGED <<poolVars, tableVars, managerVars, counter, cSeen, received,
                    submitError>>
    BY <1>7 DEF StartReturns, AdjustWorkers, ScanDone, SubmitReturns, ReadCount,
                ScanProcess, LaunchSeen
  <2>2. QED
    BY <1>2, <1>3, <1>4, <1>5, <2>1 DEF managerVars, managerCtl
<1>8. CASE Start(c) /\ UNCHANGED ownVars
  BY <1>2, <1>3, <1>4, <1>5, <1>8 DEF Start
<1>9. CASE ScanFails(c) /\ UNCHANGED ownVars
  <2>1. cTask[c] \in Tasks
    BY <1>9 DEF ScanFails, TypeOK, ProcessManagerTypeOK
  <2>2. QED
    BY <1>2, <1>3, <1>4, <1>5, <1>9, <2>1 DEF ScanFails, managerVars, managerCtl
<1>10. CASE PutTask(c)
  <2>1. cTask[c] \in Tasks
    BY <1>10 DEF PutTask, TypeOK, ProcessManagerTypeOK
  <2>2. taskBus' \in Seq(Tasks) /\ future' \in [Tasks -> FutureStates]
    BY <1>3, <1>10, <2>1 DEF PutTask, PoolStateTypeOK, FutureStates
  <2>3. PoolStateTypeOK'
    BY <1>3, <1>10, <2>2 DEF PutTask, PoolStateTypeOK, flagVars
  <2>4. TableTypeOK'
    BY <1>3, <1>10, <2>1 DEF PutTask, TableTypeOK
  <2>5. QED
    BY <1>2, <1>3, <1>10, <2>3, <2>4 DEF PutTask, managerVars, managerCtl
<1>11. CASE LoadCount(c)
  BY <1>2, <1>3, <1>4, <1>5, <1>11 DEF LoadCount, managerVars, managerCtl
<1>12. CASE StoreCount(c)
  <2>1. cSeen[c] \in CounterValues /\ CounterValues \subseteq Int /\ 0 \in CounterValues
    BY <1>3, ProcessStateAssumption DEF CounterValues
  <2>2. cSeen[c] + 1 \in Int
    <3>1. cSeen[c] \in Int
      BY <1>3, ProcessStateAssumption DEF CounterValues
    <3>2. QED
      BY <3>1
  <2>3. Wrap(cSeen[c] + 1) \in CounterValues
    BY <2>2, WrapType
  <2>4. QED
    BY <1>2, <1>3, <1>4, <1>5, <1>12, <2>1, <2>3 DEF StoreCount, managerVars, managerCtl
<1>13. CASE EnterWorker(c)
  <2>1. nextWorker \in Workers /\ nextWorker + 1 \in 0 .. MaxWorkers
    BY <1>3, <1>13, PoolStateAssumption DEF EnterWorker, Workers, TableTypeOK
  <2>2. TableTypeOK'
    BY <1>3, <1>13, <2>1 DEF EnterWorker, TableTypeOK
  <2>3. QED
    BY <1>2, <1>3, <1>4, <1>13, <2>2 DEF EnterWorker, managerVars, managerCtl
<1>14. CASE LaunchWorker(c)
  <2>1. PoolStateTypeOK'
    BY <1>3, <1>14 DEF LaunchWorker, StartThread, PoolStateTypeOK, busVars
  <2>2. QED
    BY <1>2, <1>3, <1>5, <1>14, <2>1 DEF LaunchWorker, managerVars, managerCtl
<1>15. ASSUME NEW t \in Tasks, Submit(c, t), UNCHANGED ownVars
       PROVE  TypeOK'
  <2>1. PoolStateTypeOK'
    BY <1>3, <1>15 DEF Submit, PoolStateTypeOK, busVars, flagVars, FutureStates
  <2>2. QED
    BY <1>2, <1>3, <1>5, <1>15, <2>1 DEF Submit, managerVars, managerCtl
<1>16. QED
  BY <1>6, <1>7, <1>8, <1>9, <1>10, <1>11, <1>12, <1>13, <1>14, <1>15
     DEF ProcessClientStep, ClientCall, StopSteps

\* A step of a worker process, of its feeder included, or its end.
ProcessStep(w) ==
  /\ WorkerStep(w) \/ GetTask(w) \/ FeederStep(w) \/ TimeOut(w) \/ Crash(w)
  /\ MainUnchanged

CallSteps(c) ==
  /\ ProcessClientStep(c) \/ (ClientCall(c) /\ UNCHANGED ownVars)
  /\ UNCHANGED workerLocals

\* Every step is one of these.
LEMMA Steps ==
  ASSUME [Next]_vars
  PROVE  \/ \E w \in Workers : ProcessStep(w)
         \/ ManagerSteps
         \/ \E c \in Clients : CallSteps(c)
         \/ CancelTask
         \/ UNCHANGED vars
<1>1. CASE RunManager \/ ManagerGivesUp
  <2>1. UNCHANGED <<clientVars, counter, cSeen>>
    BY <1>1 DEF RunManager, ManagerGivesUp, ProcessManagerStep, ManagerIdleOut,
                ManagerKilled, BusEmpty, Drained, GetAnswer, PopTask, SetFuture,
                SetUnchanged, HandleAnswer, ClearRunning, JoinProcess, ForgetProcess,
                HaltUnchanged, RestartProcess, RestartWorker, RestartSeen, ManagerBoot,
                ManagerCheck, ManagerDown, IterationFails, CloseWorker, CloseDone,
                HaltWorker, ManagerEnd, ownVars
  <2>2. QED
    BY <1>1, <2>1 DEF RunManager, ManagerGivesUp, ManagerSteps
<1>2. \A w \in Workers :
        RunWorker(w) \/ TakeTask(w) \/ RunFeeder(w) \/ WorkerGivesUp(w) \/ WorkerCrashes(w)
          => ProcessStep(w)
  BY DEF RunWorker, TakeTask, RunFeeder, WorkerGivesUp, WorkerCrashes, ProcessStep
<1>3. \A c \in Clients : RunClient(c) \/ ClientCalls(c) => CallSteps(c)
  BY DEF RunClient, ClientCalls, CallSteps
<1>4. CASE \E w \in Workers : RunWorker(w) \/ TakeTask(w) \/ RunFeeder(w)
                              \/ WorkerGivesUp(w) \/ WorkerCrashes(w)
  <2>1. PICK w \in Workers : RunWorker(w) \/ TakeTask(w) \/ RunFeeder(w)
                             \/ WorkerGivesUp(w) \/ WorkerCrashes(w)
    BY <1>4
  <2>2. ProcessStep(w)
    BY <1>2, <2>1
  <2>3. QED
    BY <2>2
<1>5. CASE \E c \in Clients : RunClient(c) \/ ClientCalls(c)
  <2>1. PICK c \in Clients : RunClient(c) \/ ClientCalls(c)
    BY <1>5
  <2>2. CallSteps(c)
    BY <1>3, <2>1
  <2>3. QED
    BY <2>2
<1>6. QED
  BY <1>1, <1>4, <1>5 DEF Next

\* No step disturbs the types.
LEMMA StepKeepsType == TypeOK /\ [Next]_vars => TypeOK'
<1> SUFFICES ASSUME TypeOK, [Next]_vars PROVE TypeOK'
  OBVIOUS
<1>1. ASSUME NEW w \in Workers, ProcessStep(w)
      PROVE  TypeOK'
  <2>1. ProcessStateTypeOK' /\ ProcessWorkerTypeOK'
    BY <1>1, WorkerKeepsType DEF ProcessStep
  <2>2. ProcessManagerTypeOK'
    BY <1>1 DEF ProcessStep, MainUnchanged, TypeOK, ProcessManagerTypeOK, TableTypeOK,
                tableVars, managerVars, managerCtl, clientVars
  <2>3. QED
    BY <2>1, <2>2 DEF TypeOK
<1>2. CASE ManagerSteps
  <2>1. PoolStateTypeOK' /\ TableTypeOK'
    BY <1>2, ManagerKeepsType DEF ManagerSteps
  <2>2. ProcessWorkerTypeOK' /\ counter' \in CounterValues
    BY <1>2 DEF ManagerSteps, TypeOK, ProcessStateTypeOK, ProcessWorkerTypeOK,
                workerLocals, countVars, ownVars
  <2>3. UNCHANGED <<clientVars, counter, cSeen>>
    BY <1>2 DEF ManagerSteps
  <2>4. ProcessManagerTypeOK'
    BY <1>2, <2>1, <2>3, ManagerKeepsOwnType
       DEF ManagerSteps, TypeOK, ProcessManagerTypeOK, clientVars, ownVars
  <2>5. QED
    BY <2>1, <2>2, <2>4 DEF TypeOK, ProcessStateTypeOK
<1>3. ASSUME NEW c \in Clients, CallSteps(c)
      PROVE  TypeOK'
  BY <1>3, ClientKeepsType DEF CallSteps
<1>4. CASE CancelTask
  <2>1. PICK t \in Tasks : Cancel(t)
    BY <1>4 DEF CancelTask
  <2>2. PoolStateTypeOK'
    BY <2>1 DEF Cancel, CancelFuture, TypeOK, ProcessStateTypeOK, PoolStateTypeOK,
                FutureStates, busVars, flagVars
  <2>3. UNCHANGED <<tableVars, managerVars, clientVars, workerLocals, ownVars>>
    BY <1>4, <2>1 DEF CancelTask, Cancel
  <2>4. QED
    BY <2>2, <2>3
       DEF TypeOK, ProcessStateTypeOK, ProcessWorkerTypeOK, ProcessManagerTypeOK,
           TableTypeOK, tableVars, managerVars, managerCtl, clientVars, workerLocals,
           countVars, ownVars
<1>5. CASE UNCHANGED vars
  <2>1. UNCHANGED <<poolVars, workerLocals, tableVars, managerVars, clientVars, ownVars>>
    BY <1>5 DEF vars
  <2>2. ProcessStateTypeOK'
    BY <2>1 DEF TypeOK, ProcessStateTypeOK, PoolStateTypeOK, poolVars, busVars, flagVars,
                ownVars
  <2>3. ProcessWorkerTypeOK'
    BY <2>1 DEF TypeOK, ProcessWorkerTypeOK, workerLocals, countVars
  <2>4. ProcessManagerTypeOK'
    BY <2>1 DEF TypeOK, ProcessManagerTypeOK, TableTypeOK, tableVars, managerVars,
                managerCtl, clientVars, ownVars
  <2>5. QED
    BY <2>2, <2>3, <2>4 DEF TypeOK
<1>6. QED
  BY Steps, <1>1, <1>2, <1>3, <1>4, <1>5

(***************************************************************************)
(* The counter of waiting tasks stays in its range, and every other        *)
(* variable keeps its type, in every reachable state of a process pool.    *)
(***************************************************************************)
THEOREM TypeCorrect == Spec => []TypeOK
  BY InitType, StepKeepsType, PTL DEF Spec

-----------------------------------------------------------------------------
(***************************************************************************)
(* The way out of a worker process.                                        *)
(***************************************************************************)

\* Which answers of the code announce the end of a worker.
LEMMA ExitFacts ==
  /\ ~Exits(None) /\ None.worker = NoWorker
  /\ \A t, w, o : o \in {"result", "exception", "exit"} => ~Exits(AnswerTo(t, w, o))
  /\ \A t, w, o : o \in {"result", "exception"} => AnswerTo(t, w, o).worker = w
  /\ \A r \in Responses : \A flag : AddFlag(r, flag).worker = r.worker
  BY DEF Exits, Closes, Restarts, Match, None, Action, AnswerTo, AddFlag, Responses

\* The lists of ends, of contents of the right types.
Listed(bus, boxes, workers) ==
  /\ bus \in Seq(Responses) /\ boxes \in [Workers -> Seq(Responses)]
  /\ workers \in SUBSET Workers
  /\ EndsListed(bus, boxes, workers)

\* A worker that is not over puts a response into its buffer; with its end it
\* is over.
LEMMA PutListed ==
  ASSUME NEW bus, NEW boxes, NEW W, Listed(bus, boxes, W),
         NEW w \in Workers \ W, NEW r \in Responses, NEW V \in SUBSET Workers,
         W \subseteq V, Exits(r) => w \in V /\ r.worker = w
  PROVE  Listed(bus, [boxes EXCEPT ![w] = Append(@, r)], V)
<1> DEFINE b == [boxes EXCEPT ![w] = Append(@, r)]
<1> USE DEF Listed
<1>1. /\ boxes[w] \in Seq(Responses) /\ b \in [Workers -> Seq(Responses)]
      /\ b[w] = Append(boxes[w], r)
      /\ \A v \in Workers : v # w => b[v] = boxes[v]
  BY AppendFacts
<1> HIDE DEF b
<1>2. \A i \in DOMAIN bus : Exits(bus[i]) => bus[i].worker \in V /\ b[bus[i].worker] = <<>>
  BY <1>1 DEF EndsListed
<1>3. \A v \in Workers : \A i \in DOMAIN b[v] :
        Exits(b[v][i]) => v \in V /\ i = Len(b[v]) /\ b[v][i].worker = v
  <2>1. TAKE v \in Workers
  <2>2. CASE v # w
    BY <1>1, <2>2 DEF EndsListed
  <2>3. CASE v = w
    <3>1. TAKE i \in DOMAIN b[v]
    <3>2. HAVE Exits(b[v][i])
    <3>3. CASE i \in DOMAIN boxes[w] /\ b[v][i] = boxes[w][i]
      BY <3>2, <3>3 DEF EndsListed
    <3>4. CASE i = Len(boxes[w]) + 1 /\ b[v][i] = r
      BY <1>1, <2>3, <3>2, <3>4, AppendFacts
    <3>5. QED
      BY <1>1, <2>3, <3>3, <3>4, AppendFacts
  <2>4. QED
    BY <2>2, <2>3
<1>4. QED
  BY <1>1, <1>2, <1>3 DEF EndsListed, b

\* Responses are lost from a buffer, in front or all of them.
LEMMA DropListed ==
  ASSUME NEW bus, NEW boxes, NEW W, Listed(bus, boxes, W), NEW w \in Workers,
         NEW rest, rest = <<>> \/ (boxes[w] # <<>> /\ rest = Tail(boxes[w]))
  PROVE  Listed(bus, [boxes EXCEPT ![w] = rest], W)
<1> DEFINE b == [boxes EXCEPT ![w] = rest]
<1> USE DEF Listed
<1>1. /\ rest \in Seq(Responses) /\ boxes[w] \in Seq(Responses)
      /\ Len(boxes[w]) \in Nat
      /\ \A i \in DOMAIN rest :
           /\ i \in Nat /\ i + 1 \in DOMAIN boxes[w] /\ rest[i] = boxes[w][i + 1]
           /\ Len(rest) = Len(boxes[w]) - 1
      /\ boxes[w] = <<>> => rest = <<>>
  <2>1. boxes[w] \in Seq(Responses)
    OBVIOUS
  <2>2. CASE rest = <<>>
    BY <2>1, <2>2
  <2>3. CASE boxes[w] # <<>> /\ rest = Tail(boxes[w])
    BY <2>1, <2>3, TailFacts
  <2>4. QED
    BY <2>2, <2>3
<1>2. /\ b \in [Workers -> Seq(Responses)] /\ b[w] = rest
      /\ \A v \in Workers : v # w => b[v] = boxes[v]
  BY <1>1
<1> HIDE DEF b
<1>3. \A i \in DOMAIN bus : Exits(bus[i]) => bus[i].worker \in W /\ b[bus[i].worker] = <<>>
  BY <1>1, <1>2 DEF EndsListed
<1>4. \A v \in Workers : \A i \in DOMAIN b[v] :
        Exits(b[v][i]) => v \in W /\ i = Len(b[v]) /\ b[v][i].worker = v
  <2>1. TAKE v \in Workers
  <2>2. CASE v # w
    BY <1>2, <2>2 DEF EndsListed
  <2>3. CASE v = w
    <3>1. TAKE i \in DOMAIN b[v]
    <3>2. HAVE Exits(b[v][i])
    <3>3. i \in Nat /\ i + 1 \in DOMAIN boxes[w] /\ Exits(boxes[w][i + 1])
          /\ b[v][i] = boxes[w][i + 1] /\ Len(b[v]) = Len(boxes[w]) - 1
      BY <1>1, <1>2, <2>3, <3>2
    <3>4. w \in W /\ i + 1 = Len(boxes[w]) /\ boxes[w][i + 1].worker = w
      BY <3>3 DEF EndsListed
    <3>5. i = Len(b[v])
      BY <1>1, <3>3, <3>4
    <3>6. QED
      BY <2>3, <3>3, <3>4, <3>5
  <2>4. QED
    BY <2>2, <2>3
<1>5. QED
  BY <1>2, <1>3, <1>4 DEF EndsListed, b

\* The feeder of w sends the first response in its buffer.
LEMMA SendListed ==
  ASSUME NEW bus, NEW boxes, NEW W, Listed(bus, boxes, W),
         NEW w \in Workers, boxes[w] # <<>>
  PROVE  Listed(Append(bus, Head(boxes[w])), [boxes EXCEPT ![w] = Tail(@)], W)
<1> DEFINE b == [boxes EXCEPT ![w] = Tail(@)]
           r == Head(boxes[w])
           s == Append(bus, r)
<1> USE DEF Listed
<1>1. /\ boxes[w] \in Seq(Responses) /\ r \in Responses
      /\ 1 \in DOMAIN boxes[w] /\ r = boxes[w][1]
      /\ Tail(boxes[w]) \in Seq(Responses)
  <2>1. boxes[w] \in Seq(Responses)
    OBVIOUS
  <2>2. QED
    BY <2>1, TailFacts
<1>2. /\ b \in [Workers -> Seq(Responses)] /\ b[w] = Tail(boxes[w])
      /\ \A v \in Workers : v # w => b[v] = boxes[v]
  BY <1>1
<1>3. Exits(r) => w \in W /\ Len(boxes[w]) = 1 /\ r.worker = w
  <2>1. Exits(boxes[w][1]) => w \in W /\ 1 = Len(boxes[w]) /\ boxes[w][1].worker = w
    BY <1>1 DEF EndsListed
  <2>2. QED
    BY <1>1, <2>1
<1>4. Len(boxes[w]) = 1 => Tail(boxes[w]) = <<>>
  <2>1. Tail(boxes[w]) \in Seq(Responses) /\ Len(Tail(boxes[w])) = Len(boxes[w]) - 1
    BY <1>1, TailFacts
  <2>2. HAVE Len(boxes[w]) = 1
  <2>3. Len(Tail(boxes[w])) = 0
    BY <2>1, <2>2
  <2>4. QED
    BY <2>1, <2>3, EmptySeq
<1>5. /\ s \in Seq(Responses)
      /\ \A i \in DOMAIN s : \/ i \in DOMAIN bus /\ s[i] = bus[i]
                             \/ i = Len(bus) + 1 /\ s[i] = r
  BY <1>1, AppendFacts
<1>6. \A i \in DOMAIN bus : Exits(bus[i]) => bus[i].worker # w /\ bus[i].worker \in Workers
  BY DEF EndsListed
<1> HIDE DEF b, r, s
<1>7. \A i \in DOMAIN s : Exits(s[i]) => s[i].worker \in W /\ b[s[i].worker] = <<>>
  <2>1. TAKE i \in DOMAIN s
  <2>2. HAVE Exits(s[i])
  <2>3. CASE i \in DOMAIN bus /\ s[i] = bus[i]
    BY <1>2, <1>6, <2>2, <2>3 DEF EndsListed
  <2>4. CASE s[i] = r
    BY <1>2, <1>3, <1>4, <2>2, <2>4
  <2>5. QED
    BY <1>5, <2>3, <2>4
<1>8. \A i, j \in DOMAIN s :
        Exits(s[i]) /\ Exits(s[j]) /\ s[i].worker = s[j].worker => i = j
  BY <1>3, <1>5, <1>6, SMTT(20) DEF EndsListed
<1>9. QED
  <2>1. Listed(bus, b, W)
    BY DropListed DEF b
  <2>2. QED
    BY <1>2, <1>5, <1>7, <1>8, <2>1 DEF EndsListed, b, s, r

\* The manager takes the first response; the end of a worker is on the bus once.
LEMMA TakeListed ==
  ASSUME NEW bus, NEW boxes, NEW W, Listed(bus, boxes, W), bus # <<>>
  PROVE  /\ Listed(Tail(bus), boxes, W)
         /\ Exits(Head(bus)) => /\ Head(bus).worker \in W
                                /\ boxes[Head(bus).worker] = <<>>
                                /\ Listed(Tail(bus), boxes, W \ {Head(bus).worker})
<1> DEFINE r == Head(bus)
<1> USE DEF Listed
<1>1. /\ Tail(bus) \in Seq(Responses) /\ 1 \in DOMAIN bus /\ r = bus[1]
      /\ \A i \in DOMAIN Tail(bus) : /\ i \in Nat /\ i + 1 \in DOMAIN bus /\ i + 1 # 1
                                     /\ Tail(bus)[i] = bus[i + 1]
  <2>1. bus \in Seq(Responses)
    OBVIOUS
  <2>2. QED
    BY <2>1, TailFacts
<1>2. EndsListed(Tail(bus), boxes, W)
  <2>1. \A i, j \in DOMAIN Tail(bus) :
          /\ Exits(Tail(bus)[i]) /\ Exits(Tail(bus)[j])
          /\ Tail(bus)[i].worker = Tail(bus)[j].worker
          => i = j
    <3>1. TAKE i, j \in DOMAIN Tail(bus)
    <3>2. Exits(Tail(bus)[i]) /\ Exits(Tail(bus)[j])
          /\ Tail(bus)[i].worker = Tail(bus)[j].worker => i + 1 = j + 1
      BY <1>1 DEF EndsListed
    <3>3. QED
      BY <1>1, <3>2
  <2>2. QED
    BY <1>1, <2>1 DEF EndsListed
<1>3. ASSUME Exits(r)
      PROVE  /\ r.worker \in W /\ boxes[r.worker] = <<>>
             /\ EndsListed(Tail(bus), boxes, W \ {r.worker})
  <2>1. r.worker \in W /\ boxes[r.worker] = <<>>
    BY <1>1, <1>3 DEF EndsListed
  <2>2. \A i \in DOMAIN Tail(bus) : Exits(Tail(bus)[i]) => Tail(bus)[i].worker # r.worker
    BY <1>1, <1>3 DEF EndsListed
  <2>3. \A w \in Workers : \A i \in DOMAIN boxes[w] : Exits(boxes[w][i]) => w # r.worker
    BY <2>1
  <2> HIDE DEF r
  <2>4. QED
    BY <1>2, <2>1, <2>2, <2>3 DEF EndsListed
<1> HIDE DEF r
<1>4. QED
  BY <1>1, <1>2, <1>3 DEF r

(***************************************************************************)
(* What a step of the process of w does to the way out: it goes on with    *)
(* its loop, leaves it, ends, or its feeder works.                         *)
(***************************************************************************)
Inner == {"boot", "top", "requests", "check", "get", "load", "store", "begin", "run",
          "quit"}

GoesOn(w) ==
  /\ pc[w] \notin Past
  /\ \E label \in Inner : pc' = [pc EXCEPT ![w] = label]
  /\ \E b \in BOOLEAN : running' = [running EXCEPT ![w] = b]
  /\ \/ outbox' = outbox
     \/ \E r \in Responses : ~Exits(r) /\ outbox' = [outbox EXCEPT ![w] = Append(@, r)]
  /\ responseBus' = responseBus

Leaves(w) ==
  /\ pc[w] \notin Past
  /\ pc' = [pc EXCEPT ![w] = "flush"]
  /\ \E b \in BOOLEAN : running' = [running EXCEPT ![w] = b]
  /\ \/ outbox' = outbox
     \/ \E r \in Responses : /\ Exits(r) => r.worker = w /\ ~running'[w]
                             /\ outbox' = [outbox EXCEPT ![w] = Append(@, r)]
  /\ responseBus' = responseBus

Ends(w) ==
  /\ \E label \in {"ended", "died"} : pc' = [pc EXCEPT ![w] = label]
  /\ outbox' = [outbox EXCEPT ![w] = <<>>]
  /\ UNCHANGED <<running, responseBus>>

Feeds(w) ==
  /\ outbox[w] # <<>>
  /\ \/ /\ responseBus' = Append(responseBus, Head(outbox[w]))
        /\ outbox' = [outbox EXCEPT ![w] = Tail(@)]
     \/ /\ outbox' = [outbox EXCEPT ![w] = Tail(@)]
        /\ UNCHANGED responseBus
     \/ /\ outbox' = [outbox EXCEPT ![w] = <<>>]
        /\ UNCHANGED responseBus
  /\ UNCHANGED <<running, pc>>

\* Every step of a worker process is one of these.
LEMMA WorkerKinds ==
  ASSUME TypeOK, AnswersOK, NEW w \in Workers, ProcessStep(w)
  PROVE  /\ ThreadAlive(w) /\ thread' = thread
         /\ GoesOn(w) \/ Leaves(w) \/ Ends(w) \/ Feeds(w)
<1> USE DEF ThreadAlive, Past, Goto, Inner
<1>1. /\ running \in [Workers -> BOOLEAN] /\ outbox \in [Workers -> Seq(Responses)]
      /\ running[w] \in BOOLEAN /\ running = [running EXCEPT ![w] = running[w]]
      /\ response[w] \in Responses
      /\ pc[w] = "quit" /\ response[w] # None => response[w].worker = w
  BY DEF TypeOK, ProcessStateTypeOK, PoolStateTypeOK, ProcessWorkerTypeOK, AnswersOK
<1>2. CASE \/ TimeOut(w) \/ NoRequest(w) \/ CheckRunning(w) \/ GetEmpty(w)
           \/ LoadCounter(w) \/ StoreCounter(w) \/ BeginTask(w) \/ GetTask(w)
           \/ HandleRequest(w) \/ Boot(w)
  <2>1. UNCHANGED <<thread, outbox, responseBus>>
    BY <1>2 DEF TimeOut, NoRequest, CheckRunning, GetEmpty, LoadCounter, StoreCounter,
                BeginTask, GetTask, HandleRequest, Boot, busVars, workerLocals
  <2>2. \E label \in Inner : pc' = [pc EXCEPT ![w] = label]
    BY <1>2 DEF TimeOut, NoRequest, CheckRunning, GetEmpty, LoadCounter, StoreCounter,
                BeginTask, GetTask, HandleRequest, Boot
  <2>3. pc[w] \in Inner
    BY <1>2 DEF TimeOut, NoRequest, CheckRunning, GetEmpty, LoadCounter, StoreCounter,
                BeginTask, GetTask, HandleRequest, Boot
  <2>4. running' = running \/ running' = [running EXCEPT ![w] = TRUE]
    BY <1>2 DEF TimeOut, NoRequest, CheckRunning, GetEmpty, LoadCounter, StoreCounter,
                BeginTask, GetTask, HandleRequest, Boot
  <2>5. GoesOn(w)
    BY <1>1, <2>1, <2>2, <2>3, <2>4 DEF GoesOn
  <2>6. QED
    BY <2>1, <2>3, <2>5
<1>3. ASSUME NEW o \in Outcomes,
             \/ FinishAndContinue(w, o) \/ FinishAndRestart(w, o)
             \/ FinishAndFail(w, o) \/ FinishAndExit(w, o)
      PROVE  /\ ThreadAlive(w) /\ thread' = thread
             /\ GoesOn(w) \/ Leaves(w)
  <2>1. o \in {"result", "exception", "exit"} /\ task[w] \in Tasks \cup {NoTask}
    BY ProcessWorkerAssumption DEF TypeOK, ProcessWorkerTypeOK
  <2>2. pc[w] = "run" /\ UNCHANGED <<thread, running, responseBus>>
    BY <1>3 DEF FinishAndContinue, FinishAndRestart, FinishAndFail, FinishAndExit,
                RunTask, busVars
  <2>3. AnswerTo(task[w], w, o) \in Responses /\ ~Exits(AnswerTo(task[w], w, o))
    BY <2>1, ResponseFacts, ExitFacts
  <2>4. None \in Responses /\ ~Exits(None)
    BY ResponseFacts, ExitFacts
  <2>5. CASE FinishAndContinue(w, o)
    BY <1>1, <2>2, <2>3, <2>5 DEF FinishAndContinue, GoesOn
  <2>6. CASE FinishAndRestart(w, o) \/ FinishAndFail(w, o)
    BY <1>1, <2>2, <2>6 DEF FinishAndRestart, FinishAndFail, GoesOn
  <2>7. CASE FinishAndExit(w, o)
    BY <1>1, <2>2, <2>4, <2>7 DEF FinishAndExit, Leaves
  <2>8. QED
    BY <1>3, <2>2, <2>5, <2>6, <2>7
<1>4. CASE Quit(w)
  <2>1. /\ pc[w] = "quit" /\ UNCHANGED <<thread, responseBus>>
        /\ running' = [running EXCEPT ![w] = FALSE] /\ ~running'[w]
        /\ pc' = [pc EXCEPT ![w] = "flush"]
    BY <1>1, <1>4 DEF Quit, busVars
  <2>2. CASE response[w] = None
    BY <1>1, <1>4, <2>1, <2>2 DEF Quit, Leaves
  <2>3. CASE response[w] # None
    BY <1>1, <1>4, <2>1, <2>3 DEF Quit, Leaves
  <2>4. QED
    BY <2>1, <2>2, <2>3
<1>5. CASE EndProcess(w) \/ Crash(w)
  <2>1. ThreadAlive(w) /\ UNCHANGED <<thread, running, responseBus>>
    BY <1>5 DEF EndProcess, Crash, Alive, busVars
  <2>2. outbox' = [outbox EXCEPT ![w] = <<>>]
    BY <1>1, <1>5 DEF EndProcess, Crash, workerLocals
  <2>3. QED
    BY <1>5, <2>1, <2>2 DEF EndProcess, Crash, Ends
<1>6. CASE SendAnswer(w) \/ DropAnswer(w)
  BY <1>6 DEF SendAnswer, DropAnswer, Feeds, Alive, flagVars, busVars
<1>7. QED
  BY <1>2, <1>3, <1>4, <1>5, <1>6 DEF ProcessStep, WorkerStep, FeederStep

\* A worker prepares an answer behind its loop only, in its own name.
LEMMA WorkerKeepsAnswers ==
  ASSUME TypeOK, AnswersOK, NEW w \in Workers, ProcessStep(w)
  PROVE  AnswersOK'
<1>1. /\ response \in [Workers -> Responses] /\ DOMAIN pc = Workers
      /\ pc[w] # "quit" => response[w] = None
  BY DEF TypeOK, ProcessStateTypeOK, PoolStateTypeOK, ProcessWorkerTypeOK, AnswersOK
<1>2. ASSUME NEW r, NEW label, response' = [response EXCEPT ![w] = r],
             pc' = [pc EXCEPT ![w] = label],
             r = None \/ (label = "quit" /\ r.worker = w)
      PROVE  AnswersOK'
  BY <1>1, <1>2 DEF AnswersOK
<1>3. CASE UNCHANGED response /\ pc[w] # "quit" /\ \E label : Goto(w, label)
  <2>1. response' = [response EXCEPT ![w] = None]
    BY <1>1, <1>3
  <2>2. QED
    BY <1>2, <1>3, <2>1 DEF Goto
<1>4. CASE \/ NoRequest(w) \/ CheckRunning(w) \/ GetEmpty(w) \/ LoadCounter(w)
           \/ StoreCounter(w) \/ BeginTask(w) \/ GetTask(w) \/ EndProcess(w)
  <2>1. UNCHANGED response /\ pc[w] # "quit"
    BY <1>4 DEF NoRequest, CheckRunning, GetEmpty, LoadCounter, StoreCounter,
                BeginTask, GetTask, EndProcess, workerLocals
  <2>2. \E label : Goto(w, label)
    BY <1>4 DEF NoRequest, CheckRunning, GetEmpty, LoadCounter, StoreCounter,
                BeginTask, GetTask, EndProcess
  <2>3. QED
    BY <1>3, <2>1, <2>2
<1>5. CASE Boot(w) \/ Quit(w) \/ Crash(w)
  BY <1>2, <1>5 DEF Boot, Quit, Crash, Goto
<1>6. CASE TimeOut(w)
  <2>1. Action({"CLOSE"}, NoTask, w).worker = w
    BY DEF Action
  <2>2. QED
    BY <1>2, <1>6, <2>1 DEF TimeOut, Goto
<1>7. CASE HandleRequest(w)
  <2>1. CASE Match(Head(requestBus[w]), {"CLOSE", "RESTART", "FATAL_ERROR"})
    <3>1. Action(Head(requestBus[w]).flag, NoTask, w).worker = w
      BY DEF Action
    <3>2. QED
      BY <1>2, <1>7, <2>1, <3>1 DEF HandleRequest, Goto
  <2>2. CASE ~Match(Head(requestBus[w]), {"CLOSE", "RESTART", "FATAL_ERROR"})
    <3>1. response' = response /\ pc[w] # "quit"
      BY <1>1, <1>7, <2>2 DEF HandleRequest
    <3>2. QED
      BY <1>3, <1>7, <2>2, <3>1 DEF HandleRequest
  <2>3. QED
    BY <2>1, <2>2
<1>8. ASSUME NEW o \in Outcomes,
             \/ FinishAndContinue(w, o) \/ FinishAndRestart(w, o)
             \/ FinishAndFail(w, o) \/ FinishAndExit(w, o)
      PROVE  AnswersOK'
  <2>1. pc[w] = "run"
    BY <1>8 DEF FinishAndContinue, FinishAndRestart, FinishAndFail, FinishAndExit, RunTask
  <2>2. CASE FinishAndContinue(w, o)
    BY <1>2, <2>2 DEF FinishAndContinue, Goto
  <2>3. CASE FinishAndRestart(w, o)
    <3>1. o \in {"result", "exception"} /\ task[w] \in Tasks \cup {NoTask}
      BY <2>3, ProcessWorkerAssumption DEF FinishAndRestart, TypeOK, ProcessWorkerTypeOK
    <3>2. AnswerTo(task[w], w, o) \in Responses
      BY <3>1, ResponseFacts
    <3>3. AddFlag(AnswerTo(task[w], w, o), "RESTART").worker = w
      BY <3>1, <3>2, ExitFacts
    <3>4. QED
      BY <1>2, <2>3, <3>3 DEF FinishAndRestart, Goto
  <2>4. CASE FinishAndFail(w, o)
    <3>1. Action({"CLOSE", "FATAL_ERROR"}, NoTask, w).worker = w
      BY DEF Action
    <3>2. QED
      BY <1>2, <2>4, <3>1 DEF FinishAndFail, Goto
  <2>5. CASE FinishAndExit(w, o)
    BY <1>3, <2>1, <2>5 DEF FinishAndExit
  <2>6. QED
    BY <1>8, <2>2, <2>3, <2>4, <2>5
<1>9. CASE SendAnswer(w) \/ DropAnswer(w)
  BY <1>9 DEF SendAnswer, DropAnswer, AnswersOK, flagVars
<1>10. QED
  BY <1>4, <1>5, <1>6, <1>7, <1>8, <1>9 DEF ProcessStep, WorkerStep, FeederStep

\* What the step does to the lists of ends.
LEMMA WorkerListed ==
  ASSUME NEW w \in Workers, GoesOn(w) \/ Leaves(w) \/ Ends(w) \/ Feeds(w),
         NEW W, Listed(responseBus, outbox, W), NEW V \in SUBSET Workers, W \subseteq V,
         GoesOn(w) \/ Leaves(w) => w \notin W,
         Leaves(w) /\ ~running'[w] => w \in V
  PROVE  Listed(responseBus', outbox', V)
<1>1. Listed(responseBus, outbox, V)
  BY DEF Listed, EndsListed
<1>2. CASE GoesOn(w)
  <2>1. CASE outbox' = outbox
    BY <1>1, <1>2, <2>1 DEF GoesOn
  <2>2. ASSUME NEW r \in Responses, ~Exits(r),
               outbox' = [outbox EXCEPT ![w] = Append(@, r)]
        PROVE  Listed(responseBus', outbox', V)
    <3>1. w \in Workers \ W
      BY <1>2
    <3>2. Listed(responseBus, [outbox EXCEPT ![w] = Append(@, r)], V)
      BY <2>2, <3>1, PutListed
    <3>3. QED
      BY <1>2, <2>2, <3>2 DEF GoesOn
  <2>3. QED
    BY <1>2, <2>1, <2>2 DEF GoesOn
<1>3. CASE Leaves(w)
  <2>1. CASE outbox' = outbox
    BY <1>1, <1>3, <2>1 DEF Leaves
  <2>2. ASSUME NEW r \in Responses, Exits(r) => r.worker = w /\ ~running'[w],
               outbox' = [outbox EXCEPT ![w] = Append(@, r)]
        PROVE  Listed(responseBus', outbox', V)
    <3>1. w \in Workers \ W /\ (Exits(r) => w \in V /\ r.worker = w)
      BY <1>3, <2>2
    <3>2. Listed(responseBus, [outbox EXCEPT ![w] = Append(@, r)], V)
      BY <3>1, PutListed
    <3>3. QED
      BY <1>3, <2>2, <3>2 DEF Leaves
  <2>3. QED
    BY <1>3, <2>1, <2>2 DEF Leaves
<1>4. CASE Ends(w)
  BY <1>1, <1>4, DropListed DEF Ends
<1>5. CASE Feeds(w)
  <2>1. CASE UNCHANGED responseBus
    BY <1>1, <1>5, <2>1, DropListed DEF Feeds
  <2>2. CASE /\ responseBus' = Append(responseBus, Head(outbox[w]))
             /\ outbox' = [outbox EXCEPT ![w] = Tail(@)]
    BY <1>1, <1>5, <2>2, SendListed DEF Feeds
  <2>3. QED
    BY <1>5, <2>1, <2>2 DEF Feeds
<1>6. QED
  BY <1>2, <1>3, <1>4, <1>5

\* A step of a worker process keeps the invariant of the ends.
LEMMA WorkerKeepsExitInv ==
  ASSUME TypeOK, ExitInv, NEW w \in Workers, ProcessStep(w)
  PROVE  ExitInv'
<1>1. /\ ThreadAlive(w) /\ thread' = thread
      /\ GoesOn(w) \/ Leaves(w) \/ Ends(w) \/ Feeds(w)
      /\ AnswersOK'
  BY WorkerKinds, WorkerKeepsAnswers DEF ExitInv
<1>2. UNCHANGED <<currWorkers, nextWorker, mpc, phase, handled, received, cpc, cWorker>>
  BY DEF ProcessStep, MainUnchanged, tableVars, managerVars, managerCtl, clientVars
<1>3. /\ pc \in [Workers -> {"unborn", "boot", "top", "requests", "check", "get",
                             "begin", "refuse", "run", "finally", "quit", "clear",
                             "collect", "wait", "await", "flush", "load", "store",
                             "ended", "died"}]
      /\ running \in [Workers -> BOOLEAN] /\ outbox \in [Workers -> Seq(Responses)]
      /\ responseBus \in Seq(Responses) /\ currWorkers \in SUBSET Workers
  BY DEF TypeOK, ProcessStateTypeOK, PoolStateTypeOK, ProcessWorkerTypeOK,
         ProcessManagerTypeOK, TableTypeOK
<1>4. /\ \A v \in Workers : v # w => pc'[v] = pc[v] /\ outbox'[v] = outbox[v]
                                     /\ running'[v] = running[v]
      /\ ThreadAlive(w) => pc[w] \notin {"unborn", "ended", "died"}
      /\ pc'[w] # "unborn"
      /\ pc[w] \in Past => pc'[w] \in Past
  BY <1>1, <1>3 DEF GoesOn, Leaves, Ends, Feeds, Inner, Past, ThreadAlive
<1>5. PhaseOK'
  BY <1>2 DEF ExitInv, PhaseOK
<1>6. WorkersNumbered'
  <2>1. \A v \in Workers : v >= nextWorker => v # w /\ pc[v] = "unborn"
    BY <1>1, <1>4 DEF ExitInv, WorkersNumbered
  <2>2. \A v \in Workers : v >= nextWorker => pc'[v] = "unborn"
    BY <1>4, <2>1
  <2>3. \A c \in Clients : cpc[c] = "launch" =>
          /\ cWorker[c] \in currWorkers /\ cWorker[c] # w /\ cWorker[c] \in Workers
          /\ pc[cWorker[c]] = "unborn"
    BY <1>1, <1>3, <1>4 DEF ExitInv, WorkersNumbered
  <2>4. \A c \in Clients : cpc[c] = "launch" => pc'[cWorker[c]] = "unborn"
    BY <1>4, <2>3
  <2>5. QED
    BY <1>2, <2>2, <2>3, <2>4 DEF ExitInv, WorkersNumbered
<1>7. OthersPast'
  <2>1. w \notin currWorkers => pc[w] \in Past /\ outbox[w] = <<>>
    BY <1>1, <1>4 DEF ExitInv, OthersPast
  <2>2. w \notin currWorkers => pc'[w] \in Past /\ outbox'[w] = <<>>
    BY <1>1, <1>3, <1>4, <2>1 DEF GoesOn, Leaves, Ends, Feeds
  <2>3. QED
    BY <1>2, <1>4, <2>2 DEF ExitInv, OthersPast
<1>8. ProcessesOK'
  <2>1. \A v \in Workers : pc'[v] \notin {"unborn", "ended", "died"} => ThreadAlive(v)
    BY <1>1, <1>4 DEF ThreadAlive
  <2>2. \A v \in Workers : ~ThreadAlive(v) => ~ThreadAlive(v)'
    BY <2>1 DEF ThreadAlive
  <2>3. QED
    BY <1>1, <1>2, <2>2 DEF ExitInv, ProcessesOK, Restarting, ThreadAlive
<1>9. ExitsListed'
  <2>1. /\ Over \subseteq Over' /\ Over' \subseteq Workers
        /\ GoesOn(w) \/ Leaves(w) => w \notin Over
    <3>1. GoesOn(w) \/ Leaves(w) => pc[w] \notin Past
      BY DEF GoesOn, Leaves
    <3>2. pc[w] \in Past => running'[w] = running[w]
      BY <1>1, <3>1 DEF Ends, Feeds
    <3>3. \A v \in Workers : v \in Over => v \in Over'
      BY <1>2, <1>4, <3>2 DEF Over
    <3>4. QED
      BY <1>2, <1>3, <3>1, <3>3 DEF Over
  <2>2. Leaves(w) /\ ~running'[w] => w \in Over'
    <3>1. w \notin currWorkers => pc[w] \in Past
      BY <1>1, <1>4 DEF ExitInv, OthersPast
    <3>2. QED
      BY <1>2, <1>3, <3>1 DEF Over, Leaves, Past
  <2>3. ASSUME phase' # "halt"
        PROVE  EndsListed(responseBus, outbox, Over)'
    <3>1. Listed(responseBus, outbox, Over)
      BY <1>2, <1>3, <2>3 DEF Listed, Over, ExitInv, ExitsListed
    <3>2. QED
      BY <1>1, <2>1, <2>2, <3>1, WorkerListed DEF Listed
  <2>4. ASSUME Attending'
        PROVE  /\ Attended' \in Over' /\ outbox'[Attended'] = <<>>
               /\ EndsListed(responseBus', outbox', Over' \ {Attended'})
    <3>1. Attending /\ Attended' = Attended
      BY <1>2, <2>4 DEF Attending, Attended, Restarting, Handling
    <3>2. /\ Attended \in Over /\ outbox[Attended] = <<>>
          /\ Listed(responseBus, outbox, Over \ {Attended})
      BY <1>3, <3>1 DEF Listed, Over, ExitInv, ExitsListed
    <3>3. Attended \in Over' /\ Attended \in Workers
      BY <1>2, <2>1, <3>2
    <3>4. outbox'[Attended] = <<>>
      BY <1>1, <1>3, <1>4, <2>1, <3>2, <3>3 DEF Ends, Feeds
    <3>5. Listed(responseBus', outbox', Over' \ {Attended})
      BY <1>1, <2>1, <2>2, <3>2, WorkerListed
    <3>6. QED
      BY <3>1, <3>3, <3>4, <3>5 DEF Listed
  <2>5. QED
    BY <2>3, <2>4 DEF ExitsListed
<1>10. QED
  BY <1>1, <1>5, <1>6, <1>7, <1>8, <1>9 DEF ExitInv

\* A step that leaves the processes, their answers and the workers alone.
LEMMA FrameKeepsExitInv ==
  ASSUME ExitInv, PhaseOK', ProcessesOK',
         UNCHANGED <<pc, running, currWorkers, nextWorker, outbox, responseBus, response>>,
         phase' # "halt" => phase # "halt",
         Attending' => Attending /\ Attended' = Attended,
         \A c \in Clients : cpc'[c] = "launch" => cpc[c] = "launch" /\ cWorker'[c] = cWorker[c]
  PROVE  ExitInv'
<1>1. AnswersOK' /\ OthersPast'
  BY DEF ExitInv, AnswersOK, OthersPast
<1>2. WorkersNumbered'
  BY DEF ExitInv, WorkersNumbered
<1>3. ExitsListed'
  <2>1. Over' = Over
    BY DEF Over
  <2>2. phase' # "halt" => EndsListed(responseBus', outbox', Over')
    BY <2>1 DEF ExitInv, ExitsListed
  <2>3. Attending' => /\ Attended' \in Over' /\ outbox'[Attended'] = <<>>
                      /\ EndsListed(responseBus', outbox', Over' \ {Attended'})
    BY <2>1 DEF ExitInv, ExitsListed
  <2>4. QED
    BY <2>2, <2>3 DEF ExitsListed
<1>4. QED
  BY <1>1, <1>2, <1>3 DEF ExitInv

\* The manager takes a response: the end it may announce is the one attended.
LEMMA GetKeepsExitInv ==
  ASSUME TypeOK, ExitInv, GetAnswer, UNCHANGED <<workerLocals, clientVars>>
  PROVE  ExitInv'
<1> DEFINE r == Head(responseBus)
<1>1. /\ UNCHANGED <<pc, running, thread, nextWorker, currWorkers, outbox, response,
                     cpc, cWorker, phase, handled>>
      /\ responseBus # <<>> /\ responseBus' = Tail(responseBus)
      /\ phase # "halt" /\ mpc = "receive"
      /\ mpc' = "dead" \/ (mpc' = "pop" /\ received' = r)
  BY DEF GetAnswer, Die, tableVars, flagVars, workerLocals, clientVars, ExitInv, PhaseOK
<1>2. Listed(responseBus, outbox, Over)
  BY <1>1 DEF Listed, Over, ExitInv, ExitsListed, TypeOK, ProcessStateTypeOK,
              PoolStateTypeOK, ProcessWorkerTypeOK, ProcessManagerTypeOK, TableTypeOK
<1>3. /\ Listed(responseBus', outbox', Over)
      /\ Exits(r) => /\ r.worker \in Over /\ outbox'[r.worker] = <<>>
                     /\ Listed(responseBus', outbox', Over \ {r.worker})
  BY <1>1, <1>2, TakeListed
<1> HIDE DEF r
<1>4. PhaseOK' /\ ProcessesOK'
  BY <1>1 DEF ExitInv, PhaseOK, ProcessesOK, Restarting, ThreadAlive
<1>5. AnswersOK' /\ OthersPast' /\ WorkersNumbered'
  BY <1>1 DEF ExitInv, AnswersOK, OthersPast, WorkersNumbered
<1>6. Over' = Over
  BY <1>1 DEF Over
<1>7. Attending' => Attended' = r.worker /\ Exits(r)
  BY <1>1 DEF Attending, Attended, Handling, Restarting
<1>8. ExitsListed'
  BY <1>3, <1>6, <1>7 DEF ExitsListed, Listed
<1>9. QED
  BY <1>4, <1>5, <1>8 DEF ExitInv

\* Popping the task and setting its future leave the workers alone.
LEMMA PopKeepsExitInv ==
  ASSUME ExitInv, PopTask \/ SetFuture, UNCHANGED <<workerLocals, clientVars>>
  PROVE  ExitInv'
<1>1. /\ UNCHANGED <<pc, running, thread, nextWorker, currWorkers, outbox, response,
                     responseBus, cpc, cWorker, phase, handled, received>>
      /\ mpc \in {"pop", "set"} /\ mpc' \in {"set", "handle", "dead"}
  BY DEF PopTask, SetFuture, SetUnchanged, Die, poolVars, busVars, flagVars, tableVars,
         workerLocals, clientVars, ownVars
<1>2. PhaseOK' /\ ProcessesOK'
  BY <1>1 DEF ExitInv, PhaseOK, ProcessesOK, Restarting, ThreadAlive
<1>3. Attending' => Attending /\ Attended' = Attended
  BY <1>1 DEF Attending, Attended, Handling, Restarting
<1>4. QED
  BY <1>1, <1>2, <1>3, FrameKeepsExitInv

\* A worker that closed leaves the table, one that asks for a restart is
\* stopped next.
LEMMA HandleKeepsExitInv ==
  ASSUME TypeOK, ExitInv, HandleAnswer, UNCHANGED <<workerLocals, clientVars>>
  PROVE  ExitInv'
<1> DEFINE r == received
<1>1. /\ UNCHANGED <<pc, running, thread, nextWorker, outbox, response, responseBus,
                     cpc, cWorker, phase>>
      /\ mpc = "handle" /\ phase # "halt"
  BY DEF HandleAnswer, poolVars, busVars, flagVars, workerLocals, clientVars, ExitInv,
         PhaseOK
<1>2. /\ r.worker \in Workers \cup {NoWorker} /\ handled \in Workers \cup {NoWorker}
      /\ currWorkers \in SUBSET Workers /\ DOMAIN pc = Workers
  BY DEF TypeOK, ProcessStateTypeOK, PoolStateTypeOK, ProcessManagerTypeOK, TableTypeOK,
         Responses
<1>3. /\ EndsListed(responseBus, outbox, Over)
      /\ Exits(r) => /\ r.worker \in Over /\ outbox[r.worker] = <<>>
                     /\ EndsListed(responseBus, outbox, Over \ {r.worker})
  BY <1>1 DEF ExitInv, ExitsListed, Attending, Attended, Handling
<1> HIDE DEF r
<1>4. CASE \/ mpc' = "dead" /\ UNCHANGED <<currWorkers, handled>>
           \/ /\ ~Closes(r) /\ ~Restarts(r) /\ UNCHANGED <<currWorkers, handled>>
              /\ mpc' \in {"top", "receive"}
  <2>1. PhaseOK' /\ ProcessesOK' /\ ~Attending'
    BY <1>1, <1>4
       DEF ExitInv, PhaseOK, ProcessesOK, Restarting, ThreadAlive, Attending, Handling
  <2>2. QED
    BY <1>1, <1>4, <2>1, FrameKeepsExitInv
<1>5. CASE /\ Closes(r) \/ Restarts(r)
           /\ currWorkers' = IF Closes(r) THEN currWorkers \ {r.worker} ELSE currWorkers
           /\ \/ Restarts(r) /\ mpc' = "stop1" /\ handled' = r.worker
              \/ ~Restarts(r) /\ mpc' \in {"top", "receive"} /\ handled' = handled
  <2>1. Exits(r) /\ (Restarts(r) <=> ~Closes(r))
    BY <1>5 DEF Exits, Restarts
  <2>2. /\ PhaseOK' /\ AnswersOK'
        /\ Restarts(r) => handled' \in Workers
    BY <1>1, <1>2, <1>3, <1>5, <2>1 DEF PhaseOK, ExitInv, AnswersOK, Over
  <2>3. ProcessesOK'
    BY <1>1, <1>2, <1>5, <2>2 DEF ExitInv, ProcessesOK, Restarting, ThreadAlive
  <2>4. /\ r.worker \in currWorkers /\ pc[r.worker] \in Past
        /\ outbox[r.worker] = <<>>
    BY <1>3, <2>1 DEF Over
  <2>5. OthersPast' /\ WorkersNumbered'
    BY <1>1, <1>5, <2>4 DEF ExitInv, OthersPast, WorkersNumbered, Past
  <2>6. CASE Closes(r)
    <3>1. Over' = Over \ {r.worker} /\ ~Attending'
      BY <1>1, <1>5, <2>1, <2>6 DEF Over, Attending, Restarting, Handling
    <3>2. QED
      BY <1>1, <1>3, <2>1, <2>2, <2>3, <2>5, <3>1 DEF ExitInv, ExitsListed
  <2>7. CASE ~Closes(r)
    <3>1. Over' = Over /\ Attended' = r.worker
      BY <1>1, <1>5, <2>1, <2>7 DEF Over, Attended, Handling
    <3>2. ExitsListed'
      BY <1>1, <1>3, <2>1, <3>1 DEF ExitsListed
    <3>3. QED
      BY <2>2, <2>3, <2>5, <3>2 DEF ExitInv
  <2>8. QED
    BY <2>6, <2>7
<1>6. QED
  BY <1>4, <1>5 DEF HandleAnswer, WorkerUnknown, Die, AfterConsume, r

\* The manager stops the worker it is about to restart, or one of those it
\* ends with.
LEMMA StopKeepsExitInv ==
  ASSUME TypeOK, ExitInv, ClearRunning \/ JoinProcess \/ ForgetProcess,
         UNCHANGED workerLocals
  PROVE  ExitInv'
<1>1. /\ UNCHANGED <<pc, currWorkers, nextWorker, outbox, responseBus, response, cpc,
                     cWorker, phase, handled>>
      /\ mpc \in {"stop1", "join", "stopped"} /\ handled \in Workers
  BY DEF ClearRunning, JoinProcess, ForgetProcess, HaltUnchanged, busVars, tableVars,
         clientVars, workerLocals, ExitInv, ProcessesOK
<1>2. /\ running \in [Workers -> BOOLEAN] /\ thread \in [Workers -> BOOLEAN]
      /\ outbox \in [Workers -> Seq(Responses)] /\ responseBus \in Seq(Responses)
      /\ currWorkers \in SUBSET Workers
  BY DEF TypeOK, ProcessStateTypeOK, PoolStateTypeOK, ProcessWorkerTypeOK,
         ProcessManagerTypeOK, TableTypeOK
<1>3. /\ mpc' \in {"join", "stopped", "halt", "start"}
      /\ mpc' = "halt" => phase = "halt"
      /\ mpc' = "start" => phase # "halt"
  BY DEF ClearRunning, JoinProcess, ForgetProcess
<1>4. (Attending' <=> phase # "halt") /\ Attended' = handled
  BY <1>1, <1>3 DEF Attending, Attended, Handling, Restarting
<1>5. /\ Restarting <=> phase # "halt"
      /\ Attending <=> phase # "halt"
      /\ Attended = handled
  BY <1>1 DEF Attending, Attended, Handling, Restarting
<1>6. PhaseOK'
  BY <1>1, <1>3 DEF PhaseOK
<1>7. phase # "halt" => /\ handled \in Over
                        /\ \A w \in Workers : ThreadAlive(w) => thread[w]
  BY <1>5 DEF ExitInv, ExitsListed, ProcessesOK
<1>8. ProcessesOK'
  <2>1. CASE ClearRunning
    BY <1>1, <1>2, <1>3, <1>7, <2>1
       DEF ClearRunning, ExitInv, ProcessesOK, Restarting, ThreadAlive
  <2>2. CASE JoinProcess
    BY <1>1, <1>2, <1>3, <1>7, <2>2
       DEF JoinProcess, ExitInv, ProcessesOK, Restarting, ThreadAlive
  <2>3. CASE ForgetProcess
    BY <1>1, <1>2, <1>3, <1>5, <1>7, <2>3
       DEF ForgetProcess, ExitInv, ProcessesOK, Restarting, ThreadAlive
  <2>4. QED
    BY <2>1, <2>2, <2>3
<1>9. phase # "halt" => Over' = Over
  <2>1. running' = running \/ running' = [running EXCEPT ![handled] = FALSE]
    BY DEF ClearRunning, JoinProcess, ForgetProcess
  <2>2. phase # "halt" => running' = running
    BY <1>2, <1>7, <2>1 DEF Over
  <2>3. QED
    BY <1>1, <2>2 DEF Over
<1>10. ExitsListed'
  BY <1>1, <1>4, <1>5, <1>9 DEF ExitInv, ExitsListed
<1>11. AnswersOK' /\ OthersPast' /\ WorkersNumbered'
  BY <1>1 DEF ExitInv, AnswersOK, OthersPast, WorkersNumbered
<1>12. QED
  BY <1>6, <1>8, <1>10, <1>11 DEF ExitInv

\* The manager starts the process of a worker again: nothing its last process
\* said is left.
LEMMA RestartKeepsExitInv ==
  ASSUME TypeOK, ExitInv, RestartProcess, UNCHANGED workerLocals
  PROVE  ExitInv'
<1>1. /\ mpc = "start" /\ phase # "halt" /\ Restarting
      /\ Attending /\ Attended = handled
      /\ UNCHANGED <<running, currWorkers, nextWorker, outbox, responseBus, response, cpc,
                     cWorker, phase, handled>>
  BY DEF RestartProcess, RestartWorker, busVars, tableVars, clientVars, workerLocals,
         ExitInv, PhaseOK, Restarting, Attending, Attended, Handling
<1>2. /\ pc \in [Workers -> {"unborn", "boot", "top", "requests", "check", "get",
                             "begin", "refuse", "run", "finally", "quit", "clear",
                             "collect", "wait", "await", "flush", "load", "store",
                             "ended", "died"}]
      /\ thread \in [Workers -> BOOLEAN]
      /\ outbox \in [Workers -> Seq(Responses)] /\ responseBus \in Seq(Responses)
      /\ currWorkers \in SUBSET Workers
  BY DEF TypeOK, ProcessStateTypeOK, PoolStateTypeOK, ProcessWorkerTypeOK,
         ProcessManagerTypeOK, TableTypeOK
<1>3. /\ handled \in Over /\ outbox[handled] = <<>>
      /\ EndsListed(responseBus, outbox, Over \ {handled})
      /\ ~running[handled] /\ ~thread[handled] /\ handled \in Workers
      /\ handled \in currWorkers /\ pc[handled] \in Past
  BY <1>1, <1>2 DEF ExitInv, ExitsListed, ProcessesOK, Over
<1>4. /\ pc' = [pc EXCEPT ![handled] = "boot"]
      /\ thread' = [thread EXCEPT ![handled] = TRUE] /\ mpc' = "spin"
  BY <1>3 DEF RestartProcess, RestartWorker, StartThread
<1>5. Over' = Over \ {handled} /\ ~Attending'
  BY <1>1, <1>2, <1>3, <1>4 DEF Over, Past, Restarting, Attending, Handling
<1>6. ExitsListed'
  BY <1>1, <1>3, <1>5 DEF ExitsListed
<1>7. PhaseOK' /\ ProcessesOK'
  BY <1>1, <1>2, <1>3, <1>4 DEF ExitInv, PhaseOK, ProcessesOK, Restarting, ThreadAlive
<1>8. AnswersOK'
  BY <1>1, <1>2, <1>3, <1>4 DEF ExitInv, AnswersOK, Past
<1>9. OthersPast'
  BY <1>1, <1>2, <1>3, <1>4 DEF ExitInv, OthersPast
<1>10. WorkersNumbered'
  BY <1>1, <1>2, <1>3, <1>4 DEF ExitInv, WorkersNumbered, Past, Workers
<1>11. QED
  BY <1>6, <1>7, <1>8, <1>9, <1>10 DEF ExitInv

\* A step of the manager keeps the invariant of the ends.
LEMMA ManagerKeepsExitInv ==
  ASSUME TypeOK, ExitInv, ManagerSteps
  PROVE  ExitInv'
<1>1. UNCHANGED <<workerLocals, clientVars>>
  BY DEF ManagerSteps
<1>2. CASE GetAnswer \/ PopTask \/ SetFuture \/ HandleAnswer
  BY <1>1, <1>2, GetKeepsExitInv, PopKeepsExitInv, HandleKeepsExitInv
<1>3. CASE ClearRunning \/ JoinProcess \/ ForgetProcess
  BY <1>1, <1>3, StopKeepsExitInv
<1>4. CASE RestartProcess
  BY <1>1, <1>4, RestartKeepsExitInv
<1>5. CASE \/ BusEmpty \/ Drained \/ RestartSeen \/ ManagerBoot \/ ManagerCheck
           \/ ManagerDown \/ IterationFails \/ CloseWorker \/ CloseDone \/ HaltWorker
           \/ ManagerEnd \/ ManagerIdleOut \/ ManagerKilled
  <2>1. UNCHANGED <<pc, running, thread, currWorkers, nextWorker, outbox, responseBus,
                    response, cpc, cWorker>>
    BY <1>1, <1>5 DEF BusEmpty, Drained, RestartSeen, ManagerBoot, ManagerCheck,
         ManagerDown, IterationFails, CloseWorker, CloseDone, HaltWorker, ManagerEnd,
         ManagerIdleOut, ManagerKilled, poolVars, busVars, flagVars, tableVars,
         clientVars, workerLocals
  <2>2. PhaseOK'
    BY <1>5 DEF BusEmpty, Drained, RestartSeen, ManagerBoot, ManagerCheck,
         ManagerDown, IterationFails, CloseWorker, CloseDone, HaltWorker, ManagerEnd,
         ManagerIdleOut, ManagerKilled, ExitInv, PhaseOK, AfterConsume, Die
  <2>3. /\ phase' # "halt" => phase # "halt"
        /\ mpc' \notin {"start", "stopped", "join", "pop", "set", "handle"}
        /\ mpc' = "stop1" => phase' = "halt"
        /\ mpc' \in {"stop1", "spin"} => handled' \in Workers
    <3>1. CASE HaltWorker
      <4>1. Min(todo) \in Workers
        BY <3>1, MinInSet, WorkerSets DEF HaltWorker, TypeOK, ProcessManagerTypeOK
      <4>2. QED
        BY <3>1, <4>1 DEF HaltWorker, ExitInv, PhaseOK
    <3>2. CASE ~HaltWorker
      BY <1>5, <3>2 DEF BusEmpty, Drained, RestartSeen, ManagerBoot, ManagerCheck,
         ManagerDown, IterationFails, CloseWorker, CloseDone, ManagerEnd,
         ManagerIdleOut, ManagerKilled, AfterConsume, Die, ExitInv, PhaseOK
    <3>3. QED
      BY <3>1, <3>2
  <2>4. ProcessesOK' /\ ~Attending'
    BY <2>1, <2>3
       DEF ExitInv, ProcessesOK, Restarting, ThreadAlive, Attending, Handling
  <2>5. QED
    BY <2>1, <2>2, <2>3, <2>4, FrameKeepsExitInv
<1>6. QED
  BY <1>2, <1>3, <1>4, <1>5 DEF ManagerSteps, ProcessManagerStep

\* A client that starts a worker starts one that has not run before.
LEMMA ClientKeepsExitInv ==
  ASSUME TypeOK, ExitInv, NEW c \in Clients, CallSteps(c)
  PROVE  ExitInv'
<1>1. /\ pc \in [Workers -> {"unborn", "boot", "top", "requests", "check", "get",
                             "begin", "refuse", "run", "finally", "quit", "clear",
                             "collect", "wait", "await", "flush", "load", "store",
                             "ended", "died"}]
      /\ thread \in [Workers -> BOOLEAN] /\ currWorkers \in SUBSET Workers
      /\ cpc \in [Clients -> Labels]
      /\ cWorker \in [Clients -> Workers \cup {NoWorker}]
      /\ nextWorker \in Nat
  BY PoolStateAssumption
     DEF TypeOK, ProcessStateTypeOK, PoolStateTypeOK, ProcessManagerTypeOK, TableTypeOK,
         Labels
<1>2. UNCHANGED <<outbox, response>>
  BY DEF CallSteps, workerLocals
<1>3. CASE EnterWorker(c)
  <2>1. /\ nextWorker \in Workers /\ pc[nextWorker] = "unborn"
        /\ currWorkers' = currWorkers \cup {nextWorker} /\ nextWorker' = nextWorker + 1
        /\ cWorker' = [cWorker EXCEPT ![c] = nextWorker]
        /\ cpc' = [cpc EXCEPT ![c] = "launch"]
        /\ UNCHANGED <<pc, running, thread, responseBus, phase, mpc, handled, received>>
    <3>1. nextWorker \in Workers
      BY <1>1, <1>3, PoolStateAssumption DEF EnterWorker, Workers
    <3>2. nextWorker >= nextWorker
      BY <1>1
    <3>3. pc[nextWorker] = "unborn"
      BY <3>1, <3>2 DEF ExitInv, WorkersNumbered
    <3>4. QED
      BY <1>3, <3>1, <3>3 DEF EnterWorker, CGoto, poolVars, busVars, flagVars, managerVars,
                              managerCtl, ownVars
  <2>2. Over' = Over
    BY <2>1 DEF Over, Past
  <2>3. PhaseOK' /\ AnswersOK' /\ OthersPast' /\ ProcessesOK' /\ ExitsListed'
    BY <1>2, <2>1, <2>2
       DEF ExitInv, PhaseOK, AnswersOK, OthersPast, ProcessesOK, ExitsListed,
           Restarting, ThreadAlive, Attending, Attended, Handling
  <2>4. /\ \A w \in Workers : w >= nextWorker + 1 => w >= nextWorker
        /\ \A w \in currWorkers \cup {nextWorker} : w < nextWorker + 1
    BY <1>1, <2>1, WorkerSets DEF ExitInv, WorkersNumbered
  <2>5. \A d \in Clients : cpc[d] = "launch" =>
          /\ cWorker[d] \in currWorkers /\ cWorker[d] # nextWorker
          /\ pc[cWorker[d]] = "unborn"
    BY <1>1, <2>1 DEF ExitInv, WorkersNumbered
  <2>6. \A d \in Clients : cpc'[d] = "launch" =>
          /\ cWorker'[d] \in currWorkers' /\ pc[cWorker'[d]] = "unborn"
          /\ \A e \in Clients : cpc'[e] = "launch" /\ cWorker'[e] = cWorker'[d] => d = e
    BY <1>1, <2>1, <2>5 DEF ExitInv, WorkersNumbered
  <2>7. WorkersNumbered'
    BY <2>1, <2>4, <2>6 DEF ExitInv, WorkersNumbered
  <2>8. QED
    BY <2>3, <2>7 DEF ExitInv
<1>4. CASE LaunchWorker(c)
  <2> DEFINE w == cWorker[c]
  <2>1. /\ w \in currWorkers /\ w \in Workers /\ pc[w] = "unborn"
        /\ \A d \in Clients : cpc[d] = "launch" /\ cWorker[d] = w => c = d
    BY <1>1, <1>4 DEF LaunchWorker, ExitInv, WorkersNumbered
  <2>2. /\ pc' = [pc EXCEPT ![w] = "boot"] /\ thread' = [thread EXCEPT ![w] = TRUE]
        /\ cpc' = [cpc EXCEPT ![c] = "spin"]
        /\ UNCHANGED <<cWorker, running, responseBus, currWorkers, nextWorker, phase,
                       mpc, handled, received>>
    BY <1>4 DEF LaunchWorker, CGoto, StartThread, busVars, tableVars, managerVars,
                managerCtl, ownVars
  <2> HIDE DEF w
  <2>3. Over' = Over /\ w \notin Over
    BY <1>1, <2>1, <2>2 DEF Over, Past
  <2>4. /\ Restarting => w # handled
        /\ mpc = "start" => w # handled
    BY <2>3 DEF ExitInv, ExitsListed, PhaseOK, Restarting, Attending, Attended, Handling
  <2>5. PhaseOK' /\ AnswersOK' /\ OthersPast' /\ ExitsListed'
    BY <1>1, <1>2, <2>1, <2>2, <2>3
       DEF ExitInv, PhaseOK, AnswersOK, OthersPast, ExitsListed, Restarting, Attending,
           Attended, Handling
  <2>6. ProcessesOK'
    BY <1>1, <2>1, <2>2, <2>4 DEF ExitInv, ProcessesOK, Restarting, ThreadAlive
  <2>7. WorkersNumbered'
    <3>1. \A v \in Workers : v >= nextWorker => v # w
      <4>1. w < nextWorker
        BY <2>1 DEF ExitInv, WorkersNumbered
      <4>2. QED
        BY <1>1, <2>1, <4>1, WorkerSets
    <3>2. \A v \in Workers : v >= nextWorker => pc'[v] = "unborn"
      BY <1>1, <2>2, <3>1 DEF ExitInv, WorkersNumbered
    <3>3. \A d \in Clients : cpc'[d] = "launch" =>
            d # c /\ cpc[d] = "launch" /\ cWorker[d] # w /\ cWorker[d] \in Workers
      BY <1>1, <2>1, <2>2 DEF ExitInv, WorkersNumbered
    <3>4. \A d \in Clients : cpc'[d] = "launch" =>
            cWorker[d] \in currWorkers /\ pc'[cWorker[d]] = "unborn"
      BY <1>1, <2>2, <3>3 DEF ExitInv, WorkersNumbered
    <3>5. QED
      BY <2>2, <3>2, <3>3, <3>4 DEF ExitInv, WorkersNumbered
  <2>8. QED
    BY <2>5, <2>6, <2>7 DEF ExitInv
<1>5. CASE ~EnterWorker(c) /\ ~LaunchWorker(c)
  <2>1. UNCHANGED <<pc, running, thread, currWorkers, nextWorker, responseBus, phase,
                    handled, received>>
    <3>1. CASE StopSteps(c)
      <4>1. UNCHANGED received
        BY <3>1, StopCallFacts
           DEF CallSteps, ProcessClientStep, PutTask, LoadCount, StoreCount, ReadCount,
               ScanProcess, EnterWorker, LaunchWorker, LaunchSeen, ownVars
      <4>2. QED
        BY <3>1, <4>1, StopCallFacts DEF StopCallUnchanged, poolVars, busVars, flagVars,
                                         tableVars, managerCtl
    <3>2. CASE ~StopSteps(c)
      BY <1>5, <3>2
         DEF CallSteps, ProcessClientStep, ClientCall, StopSteps, PutTask, LoadCount,
             StoreCount, ReadCount, ScanProcess, LaunchSeen, StartReturns, AdjustWorkers,
             ScanFails, ScanDone, SubmitReturns, Start, Submit, poolVars, busVars,
             flagVars, tableVars, managerVars, managerCtl, ownVars
    <3>3. QED
      BY <3>1, <3>2
  <2>2. mpc' = mpc \/ (mpc = "unborn" /\ mpc' = "boot")
    <3>1. CASE StopSteps(c)
      BY <3>1, StopCallFacts DEF StopCallUnchanged, managerCtl
    <3>2. CASE ~StopSteps(c)
      BY <1>5, <3>2
         DEF CallSteps, ProcessClientStep, ClientCall, StopSteps, PutTask, LoadCount,
             StoreCount, ReadCount, ScanProcess, LaunchSeen, StartReturns, AdjustWorkers,
             ScanFails, ScanDone, SubmitReturns, Start, Submit, managerVars, managerCtl
    <3>3. QED
      BY <3>1, <3>2
  <2>3. \A d \in Clients : cpc'[d] = "launch" => cpc[d] = "launch" /\ cWorker'[d] = cWorker[d]
    <3>1. CASE StopSteps(c)
      BY <1>1, <3>1, StopCallFacts DEF StopCallUnchanged
    <3>2. CASE EndSubmit(c)
      BY <1>1, <3>2 DEF EndSubmit, CGoto
    <3>3. CASE ~StopSteps(c) /\ ~EndSubmit(c)
      <4>1. cWorker' = cWorker
        BY <1>5, <3>3
           DEF CallSteps, ProcessClientStep, ClientCall, StopSteps, PutTask, LoadCount,
               StoreCount, ReadCount, ScanProcess, LaunchSeen, StartReturns, AdjustWorkers,
               ScanFails, ScanDone, SubmitReturns, Start, Submit
      <4>2. cpc' = cpc \/ \E label \in Labels \ {"launch"} : cpc' = [cpc EXCEPT ![c] = label]
        BY <1>5, <3>3
           DEF CallSteps, ProcessClientStep, ClientCall, StopSteps, PutTask, LoadCount,
               StoreCount, ReadCount, ScanProcess, LaunchSeen, StartReturns, AdjustWorkers,
               ScanFails, ScanDone, SubmitReturns, Start, Submit, CGoto, Labels
      <4>3. QED
        BY <1>1, <4>1, <4>2
    <3>4. QED
      BY <3>1, <3>2, <3>3
  <2>4. PhaseOK' /\ ProcessesOK' /\ (Attending' => Attending /\ Attended' = Attended)
    BY <2>1, <2>2 DEF ExitInv, PhaseOK, ProcessesOK, Restarting, ThreadAlive, Attending,
                      Attended, Handling
  <2>5. QED
    BY <1>2, <2>1, <2>3, <2>4, FrameKeepsExitInv
<1>6. QED
  BY <1>3, <1>4, <1>5

\* At the start no worker has begun.
LEMMA InitExitInv == Init => ExitInv
<1> SUFFICES ASSUME Init PROVE ExitInv
  OBVIOUS
<1> USE DEF Init, ProcessStateInit, PoolStateInit, ProcessWorkerInit, ProcessManagerInit,
            ThreadManagerInit
<1>1. PhaseOK /\ AnswersOK /\ WorkersNumbered
  BY DEF PhaseOK, AnswersOK, WorkersNumbered
<1>2. OthersPast /\ ProcessesOK
  BY DEF OthersPast, ProcessesOK, ThreadAlive, Restarting
<1>3. ExitsListed
  BY DEF ExitsListed, EndsListed, Restarting, Attending, Handling
<1>4. QED
  BY <1>1, <1>2, <1>3 DEF ExitInv

\* The invariant of the ends is inductive, given the types.
LEMMA StepKeepsExitInv == TypeOK /\ ExitInv /\ [Next]_vars => ExitInv'
<1> SUFFICES ASSUME TypeOK, ExitInv, [Next]_vars PROVE ExitInv'
  OBVIOUS
<1>1. ASSUME UNCHANGED <<pc, running, thread, currWorkers, nextWorker, outbox, responseBus,
                         response, cpc, cWorker, phase, mpc, handled, received>>
      PROVE  ExitInv'
  <2>1. PhaseOK' /\ ProcessesOK' /\ (Attending' => Attending /\ Attended' = Attended)
    BY <1>1 DEF ExitInv, PhaseOK, ProcessesOK, Restarting, ThreadAlive, Attending,
                Attended, Handling
  <2>2. QED
    BY <1>1, <2>1, FrameKeepsExitInv
<1>2. CASE CancelTask
  BY <1>1, <1>2 DEF CancelTask, Cancel, flagVars, busVars, tableVars, managerVars,
                    managerCtl, clientVars, workerLocals, ownVars
<1>3. CASE UNCHANGED vars
  BY <1>1, <1>3 DEF vars, poolVars, flagVars, busVars, tableVars, managerVars,
                    managerCtl, clientVars, workerLocals, ownVars
<1>4. QED
  BY Steps, WorkerKeepsExitInv, ManagerKeepsExitInv, ClientKeepsExitInv, <1>2, <1>3

\* Types and ExitInv hold in every state of the pool.
LEMMA ExitInvHolds == Spec => [](TypeOK /\ ExitInv)
<1>1. TypeOK /\ ExitInv /\ [Next]_vars => (TypeOK /\ ExitInv)'
  BY StepKeepsType, StepKeepsExitInv
<1>2. QED
  BY <1>1, InitType, InitExitInv, PTL DEF Spec

(***************************************************************************)
(* Through crashes, restarts and answers that are dropped, the end of a    *)
(* worker is announced once, when its process is past its loop; the        *)
(* manager finds the worker in _curr_workers; and nothing the last process *)
(* of a restarted worker said is left.                                     *)
(***************************************************************************)
THEOREM ExitsAreTracked == Spec => []ExitsTracked
<1>1. TypeOK /\ ExitInv => ExitsTracked
  <2> SUFFICES ASSUME TypeOK, ExitInv, phase # "halt", NEW w \in Workers
               PROVE  LET announced == Announces(responseBus, w)
                          prepared  == Announces(outbox[w], w)
                          attended  == Attending /\ Attended = w
                      IN  /\ AtMostOne(announced) /\ AtMostOne(prepared)
                          /\ announced = {} \/ prepared = {}
                          /\ announced \cup prepared # {} => ~attended
                          /\ announced \cup prepared # {} \/ attended => w \in Over
    BY DEF ExitsTracked, Over, Past
  <2>1. /\ EndsListed(responseBus, outbox, Over)
        /\ Attending => /\ Attended \in Over
                        /\ EndsListed(responseBus, outbox, Over \ {Attended})
        /\ outbox[w] \in Seq(Responses)
    BY DEF ExitInv, ExitsListed, TypeOK, ProcessWorkerTypeOK
  <2>2. AtMostOne(Announces(responseBus, w)) /\ AtMostOne(Announces(outbox[w], w))
    BY <2>1 DEF EndsListed, AtMostOne, Announces
  <2>3. Announces(responseBus, w) = {} \/ Announces(outbox[w], w) = {}
    BY <2>1 DEF EndsListed, Announces
  <2>4. Announces(responseBus, w) \cup Announces(outbox[w], w) # {} =>
          w \in Over /\ ~(Attending /\ Attended = w)
    BY <2>1 DEF EndsListed, Announces
  <2>5. QED
    BY <2>1, <2>2, <2>3, <2>4
<1>2. QED
  BY <1>1, ExitInvHolds, PTL

=============================================================================
