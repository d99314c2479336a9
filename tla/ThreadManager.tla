--------------------------- MODULE ThreadManager ----------------------------
(***************************************************************************)
(* A ThreadManager (workers/thread/manager.py): the manager's own thread   *)
(* (_run) and the methods that client threads call on it (start, submit,   *)
(* stop, terminate).  Workers are seen only through PoolState.             *)
(***************************************************************************)
EXTENDS PoolState, FiniteSetsExt

CONSTANTS
  Clients,              \* threads that call submit()
  Owner,                \* the client that calls start(), stop(), terminate()
  NumWorkers,           \* spec.num_workers, negative: unlimited
  Incremental,          \* spec.incremental
  MaxResponses,         \* spec.max_processing_responses_per_iteration
  ManagerTimesOut,      \* may the manager find itself idle for too long
  StopTimesOut,         \* may join(timeout) in stop() give up
  OwnerMay,             \* subset of {"stop", "terminate"}
  Cancellable           \* tasks whose future a client may cancel

ASSUME ThreadManagerAssumption ==
  /\ Owner \in Clients
  /\ NumWorkers \in Int /\ Incremental \in BOOLEAN /\ MaxResponses \in Int
  /\ ManagerTimesOut \in BOOLEAN /\ StopTimesOut \in BOOLEAN
  /\ OwnerMay \subseteq {"stop", "terminate"}
  /\ Cancellable \subseteq Tasks

VARIABLES
  currTasks,     \* _curr_tasks, its keys
  currWorkers,   \* _curr_workers, its keys
  nextWorker,    \* _next_worker_seq
  mRunning,      \* _state.running of the manager
  mInited,       \* _state.inited of the manager
  mThread,       \* manager._thread is not None
  mKill,         \* SystemExit is pending for the manager's thread
  mpc,           \* control point of the manager's thread
  phase,         \* the loop it is in: "loop", "drain" or "halt"
  processed,     \* the local num_processed
  handled,       \* the worker object it stops or restarts
  todo,          \* what is left of its iteration over _curr_workers
  todoSize,      \* size of _curr_workers when that iteration began
  death,         \* the exception that ended its thread
  cpc,           \* control point of each client
  cTask,         \* the task a client submits
  cTasks,        \* num_curr_tasks, then the iterations of range() left
  cTodo, cSize,  \* a client's iteration over _curr_workers
  cIdle,         \* idle workers it has counted so far
  cWorker,       \* the worker a client starts
  submitError,   \* tasks whose submit() raised after the task was queued
  stopResult     \* how the owner's stop() or terminate() ended

tableVars   == <<currTasks, currWorkers, nextWorker>>
managerCtl  == <<mpc, phase, processed, handled, todo, todoSize, death>>
managerVars == <<mRunning, mInited, mThread, mKill, managerCtl>>
clientVars  == <<cpc, cTask, cTasks, cTodo, cSize, cIdle, cWorker,
                 submitError, stopResult>>

ThreadManagerInit ==
  /\ currTasks = {} /\ currWorkers = {} /\ nextWorker = 0
  /\ mRunning = FALSE /\ mInited = FALSE /\ mThread = FALSE /\ mKill = FALSE
  /\ mpc = "unborn" /\ phase = "loop" /\ processed = 0
  /\ handled = NoWorker /\ todo = {} /\ todoSize = 0 /\ death = "none"
  /\ cpc = [c \in Clients |-> "idle"]
  /\ cTask = [c \in Clients |-> NoTask]
  /\ cTasks = [c \in Clients |-> 0]
  /\ cTodo = [c \in Clients |-> {}]
  /\ cSize = [c \in Clients |-> 0]
  /\ cIdle = [c \in Clients |-> 0]
  /\ cWorker = [c \in Clients |-> NoWorker]
  /\ submitError = {} /\ stopResult = "none"

ManagerAlive == mpc \notin {"unborn", "ended", "dead", "killed"}

-----------------------------------------------------------------------------
(***************************************************************************)
(* The manager's thread: _run.                                             *)
(***************************************************************************)

\* An exception nothing catches ends the thread; _state.running stays set.
Die(exception) == mpc' = "dead" /\ death' = exception

ManagerBoot ==
  /\ mpc = "boot"
  /\ mRunning' = TRUE /\ mInited' = TRUE
  /\ mpc' = "top"
  /\ UNCHANGED <<poolVars, tableVars, mThread, mKill, phase, processed,
                 handled, todo, todoSize, death, clientVars>>

\* Nothing to do for idle_timeout seconds: leave the loop.  state.running
\* is still set, so that submit() still accepts tasks.
ManagerIdleOut ==
  /\ mpc = "top" /\ ManagerTimesOut
  /\ currTasks = {} /\ responseBus = <<>>
  /\ mpc' = "down"
  /\ UNCHANGED <<poolVars, tableVars, mRunning, mInited, mThread, mKill, phase,
                 processed, handled, todo, todoSize, death, clientVars>>

ManagerCheck ==
  /\ mpc = "top"
  /\ mpc' = IF mRunning THEN "receive" ELSE "down"
  /\ processed' = 0
  /\ UNCHANGED <<poolVars, tableVars, mRunning, mInited, mThread, mKill, phase,
                 handled, todo, todoSize, death, clientVars>>

\* num_process_limit: __post_init__ replaces 0 by num_workers, and rectify
\* every value that is not positive by -1.
ProcessLimit == Rectify(IF MaxResponses = 0 THEN NumWorkers ELSE MaxResponses, -1)

\* Where consume_response() returns to: `num_processed >= num_process_limit`
\* breaks the inner loop of the main loop; the final drain has no limit.
LimitBreaks  == processed + 1 >= ProcessLimit
AfterConsume == IF phase = "loop" /\ LimitBreaks THEN "top" ELSE "receive"

\* num_processed += 1 (nothing is counted in the final drain).
CountResponse == processed' = IF phase = "loop" THEN processed + 1 ELSE processed

\* The bus is empty: the inner loop ends.
BusDrained ==
  /\ mpc = "receive"
  /\ responseBus = <<>>
  /\ IF phase = "loop"
     THEN mpc' = "top" /\ UNCHANGED <<phase, todo, todoSize>>
     ELSE /\ mpc' = "close" /\ phase' = "halt"
          /\ todo' = currWorkers /\ todoSize' = Cardinality(currWorkers)
  /\ UNCHANGED <<poolVars, tableVars, mRunning, mInited, mThread, mKill,
                 processed, handled, death, clientVars>>

(***************************************************************************)
(* _consume_response: it takes the next response r off the bus, pops the   *)
(* entry of a finished task, pops a worker that closed or restarts one.    *)
(***************************************************************************)
EndsTask(r)  == Match(r, {"DONE", "EXCEPTION"})
Closes(r)    == Match(r, {"CLOSE"})
Restarts(r)  == ~Closes(r) /\ Match(r, {"RESTART"})

\* Mutant of TasksAfter: clear() instead of pop().
TasksAfter_Clears(r) == IF EndsTask(r) THEN {} ELSE currTasks

\* The tasks left once the entry of r is popped.
TasksAfter(r) == IF EndsTask(r) THEN currTasks \ {r.task} ELSE currTasks

\* What it raises, "none" when it gets to its end.
ConsumeError(r) ==
  IF r = None THEN "AttributeError"
  ELSE IF EndsTask(r) /\ r.task \notin currTasks THEN "KeyError"
  ELSE IF (Closes(r) \/ Restarts(r)) /\ r.worker \notin currWorkers
       THEN "KeyError" ELSE "none"

TakeResponse ==
  /\ mpc = "receive"
  /\ responseBus # <<>>
  /\ responseBus' = Tail(responseBus)
  /\ currTasks' = TasksAfter(Head(responseBus))
  /\ UNCHANGED <<taskBus, requestBus, future, flagVars, nextWorker, mRunning,
                 mInited, mThread, mKill, phase, todo, todoSize, clientVars>>

ConsumeFails ==
  /\ TakeResponse
  /\ ConsumeError(Head(responseBus)) # "none"
  /\ Die(ConsumeError(Head(responseBus)))
  /\ UNCHANGED <<currWorkers, processed, handled>>

ConsumeResponse ==
  /\ TakeResponse
  /\ LET r == Head(responseBus)
     IN  /\ ConsumeError(r) = "none"
         /\ currWorkers' = IF Closes(r) THEN currWorkers \ {r.worker}
                                        ELSE currWorkers
         /\ IF Restarts(r)
            THEN mpc' = "stop1" /\ handled' = r.worker /\ UNCHANGED processed
            ELSE mpc' = AfterConsume /\ CountResponse /\ UNCHANGED handled
  /\ UNCHANGED death

\* The loop was left: state.running = False, then the final drain.
ManagerDown ==
  /\ mpc = "down"
  /\ mRunning' = FALSE
  /\ phase' = "drain"
  /\ mpc' = "receive"
  /\ UNCHANGED <<poolVars, tableVars, mInited, mThread, mKill, processed,
                 handled, todo, todoSize, death, clientVars>>

(***************************************************************************)
(* worker.stop() in the manager's thread.  It reads worker._thread three   *)
(* times; the worker's thread may set it to None in between, and then      *)
(* None.is_alive() or None.join() raises AttributeError.                   *)
(***************************************************************************)
StopUnchanged == UNCHANGED <<busVars, future, idle, inited, pc, tableVars,
                             mRunning, mInited, mThread, mKill, phase,
                             processed, handled, todo, todoSize, clientVars>>

\* self._state.running = False; `if self._thread ...`
StopFlag ==
  /\ mpc = "stop1"
  /\ running' = [running EXCEPT ![handled] = FALSE]
  /\ mpc' = IF thread[handled] THEN "stop2" ELSE "stopped"
  /\ UNCHANGED <<thread, death>> /\ StopUnchanged

\* `... and self._thread.is_alive()`
StopAlive ==
  /\ mpc = "stop2"
  /\ IF thread[handled]
     THEN /\ mpc' = IF ThreadAlive(handled) THEN "stop3" ELSE "stopped"
          /\ UNCHANGED death
     ELSE Die("AttributeError")
  /\ UNCHANGED <<running, thread>> /\ StopUnchanged

\* `self._thread` of self._thread.join() ...
StopJoin ==
  /\ mpc = "stop3"
  /\ IF thread[handled] THEN mpc' = "join" /\ UNCHANGED death
                        ELSE Die("AttributeError")
  /\ UNCHANGED <<running, thread>> /\ StopUnchanged

\* Mutant of StopJoined: the join is forgotten.
StopJoined_NoWait ==
  /\ mpc = "join"
  /\ mpc' = "stopped"
  /\ UNCHANGED <<running, thread, death>> /\ StopUnchanged

\* ... join() returns when the thread has ended.
StopJoined ==
  /\ mpc = "join"
  /\ ~ThreadAlive(handled)
  /\ mpc' = "stopped"
  /\ UNCHANGED <<running, thread, death>> /\ StopUnchanged

\* self._thread = None; then worker.start() after a RESTART response, or
\* the next worker of _stop_all_workers.
StopDone ==
  /\ mpc = "stopped"
  /\ thread' = [thread EXCEPT ![handled] = FALSE]
  /\ mpc' = IF phase = "halt" THEN "halt" ELSE "start"
  /\ UNCHANGED <<running, death>> /\ StopUnchanged

\* worker.start(): it raises when the worker still runs or has a thread.
RestartWorker ==
  /\ mpc = "start"
  /\ IF running[handled] \/ thread[handled]
     THEN Die("RuntimeError") /\ UNCHANGED <<thread, pc>>
     ELSE StartThread(handled) /\ mpc' = "spin" /\ UNCHANGED death
  /\ UNCHANGED <<busVars, future, running, idle, inited, tableVars, mRunning,
                 mInited, mThread, mKill, phase, processed, handled, todo,
                 todoSize, clientVars>>

\* `while not state.inited: pass`
RestartReturns ==
  /\ mpc = "spin"
  /\ inited[handled]
  /\ mpc' = AfterConsume /\ CountResponse
  /\ UNCHANGED <<poolVars, tableVars, mRunning, mInited, mThread, mKill, phase,
                 handled, todo, todoSize, death, clientVars>>

(***************************************************************************)
(* _stop_all_workers: two iterations over _curr_workers.values().  A       *)
(* dictionary that changed its size makes the iteration raise.             *)
(***************************************************************************)
IterationBroken == Cardinality(currWorkers) # todoSize

IterationFails ==
  /\ mpc \in {"close", "halt"}
  /\ IterationBroken
  /\ Die("RuntimeError")
  /\ UNCHANGED <<poolVars, tableVars, mRunning, mInited, mThread, mKill, phase,
                 processed, handled, todo, todoSize, clientVars>>

\* worker.spec.request_bus.put(stop_action)
CloseWorker ==
  /\ mpc = "close"
  /\ ~IterationBroken /\ todo # {}
  /\ LET w == Min(todo)
     IN  /\ requestBus' = [requestBus EXCEPT ![w] =
                             Append(@, Action({"CLOSE"}, NoTask, NoWorker))]
         /\ todo' = todo \ {w}
  /\ UNCHANGED <<taskBus, responseBus, future, flagVars, tableVars, mRunning,
                 mInited, mThread, mKill, mpc, phase, processed, handled,
                 todoSize, death, clientVars>>

\* Mutant of CloseDone: the workers are asked to close, never stopped.
CloseDone_SkipsStop ==
  /\ mpc = "close"
  /\ ~IterationBroken /\ todo = {}
  /\ mpc' = "halt"
  /\ UNCHANGED <<poolVars, tableVars, mRunning, mInited, mThread, mKill, phase,
                 processed, handled, todo, todoSize, death, clientVars>>

\* The second iteration begins.
CloseDone ==
  /\ mpc = "close"
  /\ ~IterationBroken /\ todo = {}
  /\ mpc' = "halt"
  /\ todo' = currWorkers
  /\ todoSize' = Cardinality(currWorkers)
  /\ UNCHANGED <<poolVars, tableVars, mRunning, mInited, mThread, mKill, phase,
                 processed, handled, death, clientVars>>

\* worker.stop() for the next worker.
HaltWorker ==
  /\ mpc = "halt"
  /\ ~IterationBroken /\ todo # {}
  /\ handled' = Min(todo)
  /\ todo' = todo \ {Min(todo)}
  /\ mpc' = "stop1"
  /\ UNCHANGED <<poolVars, tableVars, mRunning, mInited, mThread, mKill, phase,
                 processed, todoSize, death, clientVars>>

\* self._thread = None and the end of the thread.
ManagerEnd ==
  /\ mpc = "halt"
  /\ ~IterationBroken /\ todo = {}
  /\ mThread' = FALSE
  /\ mpc' = "ended"
  /\ UNCHANGED <<poolVars, tableVars, mRunning, mInited, mKill, phase,
                 processed, handled, todo, todoSize, death, clientVars>>

\* KillableThread: the pending SystemExit is raised between two bytecodes,
\* hence not before a join() that waits has returned.
ManagerKilled ==
  /\ mKill /\ ManagerAlive /\ mpc # "join"
  /\ mpc' = "killed"
  /\ UNCHANGED <<poolVars, tableVars, mRunning, mInited, mThread, mKill, phase,
                 processed, handled, todo, todoSize, death, clientVars>>

\* The same in the middle of _consume_response: the response is off the bus,
\* and its task is popped or not.
KilledConsuming ==
  /\ mKill /\ mpc = "receive" /\ responseBus # <<>>
  /\ responseBus' = Tail(responseBus)
  /\ currTasks' \in {currTasks, TasksAfter(Head(responseBus))}
  /\ mpc' = "killed"
  /\ UNCHANGED <<taskBus, requestBus, future, flagVars, currWorkers, nextWorker,
                 mRunning, mInited, mThread, mKill, phase, processed, handled,
                 todo, todoSize, death, clientVars>>

\* A step of the manager's thread other than giving up.
ManagerStep ==
  \/ ManagerBoot \/ ManagerCheck \/ BusDrained
  \/ ConsumeFails \/ ConsumeResponse \/ ManagerDown
  \/ StopFlag \/ StopAlive \/ StopJoin \/ StopJoined \/ StopDone
  \/ RestartWorker \/ RestartReturns
  \/ IterationFails \/ CloseWorker \/ CloseDone \/ HaltWorker \/ ManagerEnd

-----------------------------------------------------------------------------
(***************************************************************************)
(* The methods that clients call.                                          *)
(***************************************************************************)
CGoto(c, label) == cpc' = [cpc EXCEPT ![c] = label]

\* start(): the thread is created, and the caller waits for `inited`.  As
\* submit_task does, the owner starts a manager object once.
Start(c) ==
  /\ c = Owner /\ cpc[c] = "idle"
  /\ mpc = "unborn"
  /\ ~mRunning /\ ~mThread
  /\ mThread' = TRUE /\ mpc' = "boot"
  /\ CGoto(c, "starting")
  /\ UNCHANGED <<poolVars, tableVars, mRunning, mInited, mKill, phase,
                 processed, handled, todo, todoSize, death, cTask, cTasks,
                 cTodo, cSize, cIdle, cWorker, submitError, stopResult>>

StartReturns(c) ==
  /\ cpc[c] = "starting"
  /\ mInited
  /\ CGoto(c, "idle")
  /\ UNCHANGED <<poolVars, tableVars, managerVars, cTask, cTasks, cTodo, cSize,
                 cIdle, cWorker, submitError, stopResult>>

\* submit(): _ensure_running.  A client that calls it before start() has
\* returned is not modelled: the executor starts the manager first.
Submit(c, t) ==
  /\ cpc[c] = "idle" /\ mInited
  /\ future[t] = "unsubmitted" /\ \A d \in Clients : cTask[d] # t
  /\ IF mRunning
     THEN /\ CGoto(c, "queue")
          /\ cTask' = [cTask EXCEPT ![c] = t]
          /\ UNCHANGED future
     ELSE /\ future' = [future EXCEPT ![t] = "rejected"]
          /\ UNCHANGED <<cpc, cTask>>
  /\ UNCHANGED <<busVars, flagVars, tableVars, managerVars, cTasks, cTodo,
                 cSize, cIdle, cWorker, submitError, stopResult>>

\* The task enters _curr_tasks and the bus.
Queue(c) ==
  /\ cpc[c] = "queue"
  /\ future' = [future EXCEPT ![cTask[c]] = "pending"]
  /\ currTasks' = currTasks \cup {cTask[c]}
  /\ taskBus' = Append(taskBus, cTask[c])
  /\ CGoto(c, "adjust")
  /\ UNCHANGED <<responseBus, requestBus, flagVars, currWorkers, nextWorker,
                 managerVars, cTask, cTasks, cTodo, cSize, cIdle, cWorker,
                 submitError, stopResult>>

\* submit() returns or raises: the locals of the call are gone.
EndSubmit(c) ==
  /\ CGoto(c, "idle")
  /\ cTask' = [cTask EXCEPT ![c] = NoTask]
  /\ cTasks' = [cTasks EXCEPT ![c] = 0]
  /\ cTodo' = [cTodo EXCEPT ![c] = {}]
  /\ cSize' = [cSize EXCEPT ![c] = 0]
  /\ cIdle' = [cIdle EXCEPT ![c] = 0]
  /\ cWorker' = [cWorker EXCEPT ![c] = NoWorker]

\* _adjust_workers: `len(self._curr_workers) == num_workers`.
EnoughWorkers == Cardinality(currWorkers) = NumWorkers

AdjustWorkers(c) ==
  /\ cpc[c] = "adjust"
  /\ IF EnoughWorkers
     THEN EndSubmit(c)
     ELSE /\ CGoto(c, "count")
          /\ UNCHANGED <<cTask, cTasks, cTodo, cSize, cIdle, cWorker>>
  /\ UNCHANGED <<poolVars, tableVars, managerVars, submitError, stopResult>>

\* The arguments of adjust_worker_iterator: qsize() is read once, and the
\* iteration over the workers begins unless the pool has a static size.
CountsIdle == Incremental \/ NumWorkers < 0

CountTasks(c) ==
  /\ cpc[c] = "count"
  /\ CGoto(c, "scan")
  /\ cTasks' = [cTasks EXCEPT ![c] = Len(taskBus)]
  /\ cTodo' = [cTodo EXCEPT ![c] = IF CountsIdle THEN currWorkers ELSE {}]
  /\ cSize' = [cSize EXCEPT ![c] = Cardinality(currWorkers)]
  /\ UNCHANGED <<poolVars, tableVars, managerVars, cTask, cIdle, cWorker,
                 submitError, stopResult>>

\* The dictionary changed its size under the client's iteration: submit()
\* raises RuntimeError although its task is already on the bus.
ScanBroken(c) == CountsIdle /\ Cardinality(currWorkers) # cSize[c]

ScanFails(c) ==
  /\ cpc[c] = "scan" /\ ScanBroken(c)
  /\ submitError' = submitError \cup {cTask[c]}
  /\ EndSubmit(c)
  /\ UNCHANGED <<poolVars, tableVars, managerVars, stopResult>>

\* One is_idle() at a time: earlier answers may be stale at the end.
ScanWorker(c) ==
  /\ cpc[c] = "scan" /\ ~ScanBroken(c) /\ cTodo[c] # {}
  /\ LET w == Min(cTodo[c])
     IN  /\ cIdle' = [cIdle EXCEPT ![c] = IF IsIdle(w) THEN @ + 1 ELSE @]
         /\ cTodo' = [cTodo EXCEPT ![c] = @ \ {w}]
  /\ UNCHANGED <<poolVars, tableVars, managerVars, cpc, cTask, cTasks, cSize,
                 cWorker, submitError, stopResult>>

ScanDone(c) ==
  /\ cpc[c] = "scan" /\ ~ScanBroken(c) /\ cTodo[c] = {}
  /\ CGoto(c, "spawn")
  /\ cTasks' = [cTasks EXCEPT ![c] =
                  WorkersToAdd(NumWorkers, Incremental, Cardinality(currWorkers),
                               cIdle[c], @)]
  /\ UNCHANGED <<poolVars, tableVars, managerVars, cTask, cTodo, cSize, cIdle,
                 cWorker, submitError, stopResult>>

\* One iteration: a worker object enters _curr_workers and is started.
SpawnWorker(c) ==
  /\ cpc[c] = "spawn" /\ cTasks[c] > 0
  /\ nextWorker < MaxWorkers
  /\ currWorkers' = currWorkers \cup {nextWorker}
  /\ nextWorker' = nextWorker + 1
  /\ StartThread(nextWorker)
  /\ cWorker' = [cWorker EXCEPT ![c] = nextWorker]
  /\ cTasks' = [cTasks EXCEPT ![c] = @ - 1]
  /\ CGoto(c, "spin")
  /\ UNCHANGED <<busVars, future, running, idle, inited, currTasks,
                 managerVars, cTask, cTodo, cSize, cIdle, submitError,
                 stopResult>>

\* worker.start() returns once the worker has set `inited`.
SpawnReturns(c) ==
  /\ cpc[c] = "spin"
  /\ inited[cWorker[c]]
  /\ CGoto(c, "spawn")
  /\ UNCHANGED <<poolVars, tableVars, managerVars, cTask, cTasks, cTodo, cSize,
                 cIdle, cWorker, submitError, stopResult>>

SubmitReturns(c) ==
  /\ cpc[c] = "spawn" /\ cTasks[c] = 0
  /\ EndSubmit(c)
  /\ UNCHANGED <<poolVars, tableVars, managerVars, submitError, stopResult>>

\* A client cancels a future that submit() returned to it.
Cancel(t) ==
  /\ t \in Cancellable \ submitError
  /\ \A c \in Clients : cTask[c] # t
  /\ CancelFuture(t)
  /\ UNCHANGED <<busVars, flagVars, tableVars, managerVars, clientVars>>

(***************************************************************************)
(* stop(timeout) and terminate(): the same reads of self._thread, one      *)
(* after the other, as in worker.stop.                                     *)
(***************************************************************************)
StopCallUnchanged ==
  UNCHANGED <<poolVars, tableVars, mInited, managerCtl, cTask, cTasks, cTodo,
              cSize, cIdle, cWorker, submitError>>

EndStop(c, result) == CGoto(c, "idle") /\ stopResult' = result

\* Mutant of CallStop: the flag is left as it is.
CallStop_KeepsFlag(c, label) ==
  /\ c = Owner /\ cpc[c] = "idle"
  /\ mInited /\ stopResult = "none"
  /\ IF mThread THEN CGoto(c, label) /\ UNCHANGED stopResult
                ELSE EndStop(c, "stopped")
  /\ UNCHANGED <<mRunning, mThread, mKill>> /\ StopCallUnchanged

\* self._state.running = False; `if self._thread ...`
CallStop(c, label) ==
  /\ c = Owner /\ cpc[c] = "idle"
  /\ mInited /\ stopResult = "none"
  /\ mRunning' = FALSE
  /\ IF mThread THEN CGoto(c, label) /\ UNCHANGED stopResult
                ELSE EndStop(c, "stopped")
  /\ UNCHANGED <<mThread, mKill>> /\ StopCallUnchanged

Stop(c)      == "stop" \in OwnerMay /\ CallStop(c, "stop2")
Terminate(c) == "terminate" \in OwnerMay /\ CallStop(c, "kill2")

\* `... and self._thread.is_alive()`: if not, self._thread = None.
TestsAlive(c, from, to) ==
  /\ cpc[c] = from
  /\ IF ~mThread THEN EndStop(c, "AttributeError") /\ UNCHANGED mThread
     ELSE IF ManagerAlive
          THEN CGoto(c, to) /\ UNCHANGED <<mThread, stopResult>>
          ELSE EndStop(c, "stopped") /\ mThread' = FALSE
  /\ UNCHANGED <<mRunning, mKill>> /\ StopCallUnchanged

StopTestsAlive(c)      == TestsAlive(c, "stop2", "stop3")
TerminateTestsAlive(c) == TestsAlive(c, "kill2", "kill3")

StopCallsJoin(c) ==
  /\ cpc[c] = "stop3"
  /\ IF mThread THEN CGoto(c, "join") /\ UNCHANGED stopResult
                ELSE EndStop(c, "AttributeError")
  /\ UNCHANGED <<mRunning, mThread, mKill>> /\ StopCallUnchanged

\* join() returned because the thread has ended.
StopReturns(c) ==
  /\ cpc[c] = "join" /\ ~ManagerAlive
  /\ EndStop(c, "stopped")
  /\ mThread' = FALSE
  /\ UNCHANGED <<mRunning, mKill>> /\ StopCallUnchanged

\* join() gave up.
StopGivesUp(c) ==
  /\ cpc[c] = "join" /\ StopTimesOut /\ ManagerAlive
  /\ CGoto(c, "expired")
  /\ UNCHANGED <<mRunning, mThread, mKill, stopResult>> /\ StopCallUnchanged

\* `if self._thread ...`
StopExpired(c) ==
  /\ cpc[c] = "expired"
  /\ IF mThread THEN CGoto(c, "expired2") /\ UNCHANGED stopResult
                ELSE EndStop(c, "stopped")
  /\ UNCHANGED <<mRunning, mThread, mKill>> /\ StopCallUnchanged

\* `... and self._thread.is_alive()`: RuntimeError("Failed to stop ...").
StopRaises(c) ==
  /\ cpc[c] = "expired2"
  /\ EndStop(c, IF ~mThread THEN "AttributeError"
                ELSE IF ManagerAlive THEN "RuntimeError" ELSE "stopped")
  /\ mThread' = (mThread /\ ManagerAlive)
  /\ UNCHANGED <<mRunning, mKill>> /\ StopCallUnchanged

\* self._thread.terminate() sends SystemExit to the thread, which must still
\* exist (ValueError otherwise); nothing waits for its end.
TerminateKills(c) ==
  /\ cpc[c] = "kill3"
  /\ EndStop(c, IF ~mThread THEN "AttributeError"
                ELSE IF ManagerAlive THEN "terminated" ELSE "ValueError")
  /\ mKill' = (mThread /\ ManagerAlive)
  /\ mThread' = (mThread /\ ~ManagerAlive)
  /\ UNCHANGED mRunning /\ StopCallUnchanged

\* The rest of a call a client has begun.
ClientStep(c) ==
  \/ StartReturns(c) \/ Queue(c) \/ AdjustWorkers(c) \/ CountTasks(c)
  \/ ScanFails(c) \/ ScanWorker(c) \/ ScanDone(c) \/ SpawnWorker(c)
  \/ SpawnReturns(c) \/ SubmitReturns(c) \/ StopTestsAlive(c)
  \/ StopCallsJoin(c) \/ StopReturns(c) \/ StopExpired(c) \/ StopRaises(c)
  \/ TerminateTestsAlive(c) \/ TerminateKills(c)

\* The calls it may begin.
ClientCall(c) ==
  \/ Start(c) \/ Stop(c) \/ Terminate(c) \/ StopGivesUp(c)
  \/ \E t \in Tasks : Submit(c, t)

TableTypeOK ==
  /\ currTasks \in SUBSET Tasks
  /\ currWorkers \in SUBSET Workers
  /\ nextWorker \in 0 .. MaxWorkers

ManagerTypeOK ==
  /\ mRunning \in BOOLEAN /\ mInited \in BOOLEAN
  /\ mThread \in BOOLEAN /\ mKill \in BOOLEAN
  /\ mpc \in {"unborn", "boot", "top", "receive", "down", "stop1", "stop2",
              "stop3", "join", "stopped", "start", "spin", "close", "halt",
              "ended", "dead", "killed"}
  /\ phase \in {"loop", "drain", "halt"}
  /\ processed \in Nat
  /\ handled \in Workers \cup {NoWorker}
  /\ todo \in SUBSET Workers
  /\ todoSize \in Nat
  /\ death \in {"none", "AttributeError", "KeyError", "RuntimeError"}

ClientTypeOK ==
  /\ cpc \in [Clients -> {"idle", "starting", "queue", "adjust", "count",
                          "scan", "spawn", "spin", "stop2", "stop3", "join",
                          "expired", "expired2", "kill2", "kill3"}]
  /\ cTask \in [Clients -> Tasks \cup {NoTask}]
  /\ cTasks \in [Clients -> Nat]
  /\ cTodo \in [Clients -> SUBSET Workers]
  /\ cSize \in [Clients -> Nat]
  /\ cIdle \in [Clients -> Nat]
  /\ cWorker \in [Clients -> Workers \cup {NoWorker}]
  /\ \A c \in Clients : cpc[c] \in {"queue", "adjust", "count", "scan"}
                          => cTask[c] \in Tasks
  /\ submitError \in SUBSET Tasks
  /\ stopResult \in {"none", "stopped", "terminated", "AttributeError",
                     "RuntimeError", "ValueError"}

=============================================================================
