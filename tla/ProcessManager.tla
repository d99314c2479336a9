--------------------------- MODULE ProcessManager ---------------------------
(***************************************************************************)
(* A ProcessManager (workers/process/manager.py).  Much of its code is a   *)
(* copy of ThreadManager's: the loop of _run, the iterations of            *)
(* _stop_all_workers, start, stop and terminate are the actions of         *)
(* ThreadManager.  This module has what differs: the manager sets the      *)
(* futures, waits for every task before it ends, counts waiting tasks      *)
(* itself and starts processes.                                            *)
(***************************************************************************)
EXTENDS ThreadManager, ProcessState

CONSTANT Unloadable   \* tasks whose exception cannot be loaded

ASSUME ProcessManagerAssumption == Unloadable \subseteq Tasks

VARIABLES
  cSeen,      \* value of the counter that a client's `+= 1` has read
  received    \* the local `response` of _consume_response, None outside of it

ownVars == <<counter, cSeen, received>>

ProcessManagerInit ==
  ThreadManagerInit /\ cSeen = [c \in Clients |-> 0] /\ received = None

-----------------------------------------------------------------------------
(***************************************************************************)
(* _run: in its loop the manager takes responses while there are any; once *)
(* out of it, it waits for them until no task is left.                     *)
(***************************************************************************)
BusEmpty ==
  /\ mpc = "receive" /\ phase = "loop"
  /\ responseBus = <<>>
  /\ mpc' = "top"
  /\ UNCHANGED <<poolVars, tableVars, mRunning, mInited, mThread, mKill, phase,
                 processed, handled, todo, todoSize, death, clientVars,
                 ownVars>>

\* Mutant of Drained: what is on the bus is enough, as for threads.
Drained_BusEmpty ==
  /\ mpc = "receive" /\ phase = "drain"
  /\ responseBus = <<>>
  /\ mpc' = "close" /\ phase' = "halt"
  /\ todo' = currWorkers /\ todoSize' = Cardinality(currWorkers)
  /\ UNCHANGED <<poolVars, tableVars, mRunning, mInited, mThread, mKill,
                 processed, handled, death, clientVars, ownVars>>

\* `while self._curr_tasks` ends; _stop_all_workers begins.
Drained ==
  /\ mpc = "receive" /\ phase = "drain"
  /\ currTasks = {}
  /\ mpc' = "close" /\ phase' = "halt"
  /\ todo' = currWorkers /\ todoSize' = Cardinality(currWorkers)
  /\ UNCHANGED <<poolVars, tableVars, mRunning, mInited, mThread, mKill,
                 processed, handled, death, clientVars, ownVars>>

(***************************************************************************)
(* _consume_response, in the steps between which terminate() may raise     *)
(* SystemExit and a client may cancel the future: get() of the answer, the *)
(* pop of its task, set_result or set_exception, and what the answer says  *)
(* of its worker.                                                          *)
(***************************************************************************)

\* get() itself raises when the answer cannot be unpickled.
CannotLoad(r) == r.task \in Unloadable /\ Match(r, {"EXCEPTION"})

GetAnswer ==
  /\ mpc = "receive" /\ (phase = "loop" \/ currTasks # {})
  /\ responseBus # <<>>
  /\ responseBus' = Tail(responseBus)
  /\ IF CannotLoad(Head(responseBus))
     THEN Die("TypeError") /\ UNCHANGED received
     ELSE mpc' = "pop" /\ received' = Head(responseBus) /\ UNCHANGED death
  /\ UNCHANGED <<taskBus, requestBus, future, flagVars, tableVars, mRunning,
                 mInited, mThread, mKill, phase, processed, handled, todo,
                 todoSize, clientVars, counter, cSeen>>

\* What the first lines raise, "none" when they do not.
PopError ==
  IF received = None THEN "AttributeError"
  ELSE IF EndsTask(received) /\ received.task \notin currTasks THEN "KeyError"
  ELSE "none"

\* self._curr_tasks.pop(response.task_name)
PopTask ==
  /\ mpc = "pop"
  /\ IF PopError = "none"
     THEN /\ currTasks' = TasksAfter(received)
          /\ mpc' = IF EndsTask(received) THEN "set" ELSE "handle"
          /\ UNCHANGED death
     ELSE Die(PopError) /\ UNCHANGED currTasks
  /\ UNCHANGED <<poolVars, currWorkers, nextWorker, mRunning, mInited, mThread,
                 mKill, phase, processed, handled, todo, todoSize, clientVars,
                 ownVars>>

Outcome(r) == IF Match(r, {"DONE"}) THEN "result" ELSE "exception"

SetUnchanged ==
  UNCHANGED <<busVars, flagVars, tableVars, mRunning, mInited, mThread, mKill,
              phase, processed, handled, todo, todoSize, clientVars, ownVars>>

\* Mutant of SetFuture: the result is left out.
SetFuture_Skipped ==
  /\ mpc = "set"
  /\ mpc' = "handle"
  /\ UNCHANGED <<future, death>> /\ SetUnchanged

\* task.future.set_result(...), which raises when the future is cancelled.
SetFuture ==
  /\ mpc = "set"
  /\ IF Settable(received.task)
     THEN /\ future' = [future EXCEPT ![received.task] = Outcome(received)]
          /\ mpc' = "handle" /\ UNCHANGED death
     ELSE Die("InvalidStateError") /\ UNCHANGED future
  /\ SetUnchanged

\* The worker that the answer names is not known.
WorkerUnknown ==
  (Closes(received) \/ Restarts(received)) /\ received.worker \notin currWorkers

\* A worker that closed is popped; one that asks for a restart is stopped.
HandleAnswer ==
  /\ mpc = "handle"
  /\ IF WorkerUnknown
     THEN Die("KeyError") /\ UNCHANGED <<currWorkers, processed, handled>>
     ELSE /\ currWorkers' = IF Closes(received) THEN currWorkers \ {received.worker}
                                                ELSE currWorkers
          /\ IF Restarts(received)
             THEN mpc' = "stop1" /\ handled' = received.worker /\ UNCHANGED processed
             ELSE mpc' = AfterConsume /\ CountResponse /\ UNCHANGED handled
          /\ UNCHANGED death
  /\ received' = None
  /\ UNCHANGED <<poolVars, currTasks, nextWorker, mRunning, mInited, mThread,
                 mKill, phase, todo, todoSize, clientVars, counter, cSeen>>

(***************************************************************************)
(* worker.stop() and worker.start().  The reference to the process is      *)
(* changed by the manager's process only, so that nothing can be None in   *)
(* between.                                                                *)
(***************************************************************************)
HaltUnchanged == UNCHANGED <<busVars, future, idle, inited, pc, tableVars,
                             mRunning, mInited, mThread, mKill, phase,
                             processed, handled, todo, todoSize, death,
                             clientVars, ownVars>>

\* self._running.clear() and the test of the process.
ClearRunning ==
  /\ mpc = "stop1"
  /\ running' = [running EXCEPT ![handled] = FALSE]
  /\ mpc' = IF thread[handled] /\ ThreadAlive(handled) THEN "join" ELSE "stopped"
  /\ UNCHANGED thread /\ HaltUnchanged

JoinProcess ==
  /\ mpc = "join" /\ ~ThreadAlive(handled)
  /\ mpc' = "stopped"
  /\ UNCHANGED <<running, thread>> /\ HaltUnchanged

\* self._process = None
ForgetProcess ==
  /\ mpc = "stopped"
  /\ thread' = [thread EXCEPT ![handled] = FALSE]
  /\ mpc' = IF phase = "halt" THEN "halt" ELSE "start"
  /\ UNCHANGED running /\ HaltUnchanged

RestartProcess == RestartWorker /\ UNCHANGED ownVars

\* `while not self._running.is_set(): pass`
RestartSeen ==
  /\ mpc = "spin" /\ running[handled]
  /\ mpc' = AfterConsume /\ CountResponse
  /\ UNCHANGED <<poolVars, tableVars, mRunning, mInited, mThread, mKill, phase,
                 handled, todo, todoSize, death, clientVars, ownVars>>

ProcessManagerStep ==
  \/ BusEmpty \/ Drained
  \/ GetAnswer \/ PopTask \/ SetFuture \/ HandleAnswer
  \/ ClearRunning \/ JoinProcess \/ ForgetProcess
  \/ RestartProcess \/ RestartSeen
  \/ /\ \/ ManagerBoot \/ ManagerCheck \/ ManagerDown
        \/ IterationFails \/ CloseWorker \/ CloseDone \/ HaltWorker \/ ManagerEnd
     /\ UNCHANGED ownVars

-----------------------------------------------------------------------------
(***************************************************************************)
(* submit(): the task enters the table and the bus; then the counter is    *)
(* raised, by a read and a write.                                          *)
(***************************************************************************)
PutTask(c) ==
  /\ cpc[c] = "queue"
  /\ future' = [future EXCEPT ![cTask[c]] = "pending"]
  /\ currTasks' = currTasks \cup {cTask[c]}
  /\ taskBus' = Append(taskBus, cTask[c])
  /\ CGoto(c, "load")
  /\ UNCHANGED <<responseBus, requestBus, flagVars, currWorkers, nextWorker,
                 managerVars, cTask, cTasks, cTodo, cSize, cIdle, cWorker,
                 submitError, stopResult, ownVars>>

LoadCount(c) ==
  /\ cpc[c] = "load"
  /\ cSeen' = [cSeen EXCEPT ![c] = counter]
  /\ CGoto(c, "store")
  /\ UNCHANGED <<poolVars, tableVars, managerVars, cTask, cTasks, cTodo, cSize,
                 cIdle, cWorker, submitError, stopResult, counter, received>>

StoreCount(c) ==
  /\ cpc[c] = "store"
  /\ counter' = Wrap(cSeen[c] + 1)
  /\ cSeen' = [cSeen EXCEPT ![c] = 0]
  /\ CGoto(c, "adjust")
  /\ UNCHANGED <<poolVars, tableVars, managerVars, cTask, cTasks, cTodo, cSize,
                 cIdle, cWorker, submitError, stopResult, received>>

\* The arguments of adjust_worker_iterator.
ReadCount(c) ==
  /\ cpc[c] = "count"
  /\ CGoto(c, "scan")
  /\ cTasks' = [cTasks EXCEPT ![c] = counter]
  /\ cTodo' = [cTodo EXCEPT ![c] = IF CountsIdle THEN currWorkers ELSE {}]
  /\ cSize' = [cSize EXCEPT ![c] = Cardinality(currWorkers)]
  /\ UNCHANGED <<poolVars, tableVars, managerVars, cTask, cIdle, cWorker,
                 submitError, stopResult, ownVars>>

\* is_idle() of a process is its idle event alone.
ScanProcess(c) ==
  /\ cpc[c] = "scan" /\ ~ScanBroken(c) /\ cTodo[c] # {}
  /\ LET w == Min(cTodo[c])
     IN  /\ cIdle' = [cIdle EXCEPT ![c] = IF idle[w] THEN @ + 1 ELSE @]
         /\ cTodo' = [cTodo EXCEPT ![c] = @ \ {w}]
  /\ UNCHANGED <<poolVars, tableVars, managerVars, cpc, cTask, cTasks, cSize,
                 cWorker, submitError, stopResult, ownVars>>

\* A worker object enters _curr_workers ...
EnterWorker(c) ==
  /\ cpc[c] = "spawn" /\ cTasks[c] > 0
  /\ nextWorker < MaxWorkers
  /\ currWorkers' = currWorkers \cup {nextWorker}
  /\ nextWorker' = nextWorker + 1
  /\ cWorker' = [cWorker EXCEPT ![c] = nextWorker]
  /\ cTasks' = [cTasks EXCEPT ![c] = @ - 1]
  /\ CGoto(c, "launch")
  /\ UNCHANGED <<poolVars, currTasks, managerVars, cTask, cTodo, cSize, cIdle,
                 submitError, stopResult, ownVars>>

\* ... and is started: start() returns once it has seen the event `running`.
LaunchWorker(c) ==
  /\ cpc[c] = "launch"
  /\ StartThread(cWorker[c])
  /\ CGoto(c, "spin")
  /\ UNCHANGED <<busVars, future, running, idle, inited, tableVars,
                 managerVars, cTask, cTasks, cTodo, cSize, cIdle, cWorker,
                 submitError, stopResult, ownVars>>

LaunchSeen(c) ==
  /\ cpc[c] = "spin" /\ running[cWorker[c]]
  /\ CGoto(c, "spawn")
  /\ UNCHANGED <<poolVars, tableVars, managerVars, cTask, cTasks, cTodo, cSize,
                 cIdle, cWorker, submitError, stopResult, ownVars>>

ProcessClientStep(c) ==
  \/ PutTask(c) \/ LoadCount(c) \/ StoreCount(c) \/ ReadCount(c)
  \/ ScanProcess(c) \/ EnterWorker(c) \/ LaunchWorker(c) \/ LaunchSeen(c)
  \/ /\ \/ StartReturns(c) \/ AdjustWorkers(c) \/ ScanFails(c) \/ ScanDone(c)
        \/ SubmitReturns(c) \/ StopTestsAlive(c) \/ StopCallsJoin(c)
        \/ StopReturns(c) \/ StopExpired(c) \/ StopRaises(c)
        \/ TerminateTestsAlive(c) \/ TerminateKills(c)
     /\ UNCHANGED ownVars

ProcessManagerTypeOK ==
  /\ TableTypeOK
  /\ mRunning \in BOOLEAN /\ mInited \in BOOLEAN
  /\ mThread \in BOOLEAN /\ mKill \in BOOLEAN
  /\ mpc \in {"unborn", "boot", "top", "receive", "pop", "set", "handle", "down",
              "stop1", "join", "stopped", "start", "spin", "close", "halt",
              "ended", "dead", "killed"}
  /\ phase \in {"loop", "drain", "halt"}
  /\ processed \in Nat /\ handled \in Workers \cup {NoWorker}
  /\ todo \in SUBSET Workers /\ todoSize \in Nat
  /\ death \in {"none", "AttributeError", "KeyError", "RuntimeError",
                "TypeError", "InvalidStateError"}
  /\ cpc \in [Clients -> {"idle", "starting", "queue", "load", "store",
                          "adjust", "count", "scan", "spawn", "launch", "spin",
                          "stop2", "stop3", "join", "expired", "expired2",
                          "kill2", "kill3"}]
  /\ cTask \in [Clients -> Tasks \cup {NoTask}]
  /\ cTasks \in [Clients -> Nat] /\ cSeen \in [Clients -> CounterValues]
  /\ received \in Responses
  /\ cTodo \in [Clients -> SUBSET Workers]
  /\ cSize \in [Clients -> Nat] /\ cIdle \in [Clients -> Nat]
  /\ cWorker \in [Clients -> Workers \cup {NoWorker}]
  /\ \A c \in Clients : cpc[c] \in {"queue", "load", "store", "adjust", "count", "scan"}
                          => cTask[c] \in Tasks
  /\ submitError \in SUBSET Tasks

=============================================================================
