---------------------------- MODULE AsyncWorker -----------------------------
(***************************************************************************)
(* The thread of an AsyncWorker (workers/asyncio/worker.py): an event loop *)
(* that runs _async_run and one coroutine per task.  Within the loop only  *)
(* one of them runs at a time; they take turns where _async_run awaits,    *)
(* at "run" (asyncio.sleep(0)) and at "await" (a coroutine at the end).    *)
(***************************************************************************)
EXTENDS PoolState, SequencesExt

CONSTANTS
  Outcomes,             \* what a task's function may do, see RunCoroutine
  MaxTaskCount,         \* spec.max_task_count
  MaxErrCount,          \* spec.max_err_count
  MaxConsErrCount,      \* spec.max_cons_err_count
  WorkerTimesOut        \* idle_timeout >= 0: an idle worker may give up

ASSUME AsyncWorkerAssumption ==
  /\ Outcomes \subseteq {"result", "exception", "cancel", "exit"}
  /\ MaxTaskCount \in Int /\ MaxErrCount \in Int /\ MaxConsErrCount \in Int
  /\ WorkerTimesOut \in BOOLEAN

VARIABLES
  active,        \* coroutines that have not ended, oldest first
  finished,      \* async_response_bus: the answers of those that have
  raised,        \* tasks whose coroutine ended with an exception
  abandoned,     \* coroutines of an event loop that nobody runs any more
  awaited,       \* the coroutine the end of _async_run waits for
  response,      \* the local `response`
  taskCount, errCount, consErrCount

workerLocals == <<active, finished, raised, abandoned, awaited, response,
                  taskCount, errCount, consErrCount>>
counts       == <<taskCount, errCount, consErrCount>>
coroutines   == <<active, finished, raised, abandoned, awaited>>

Goto(w, label) == pc' = [pc EXCEPT ![w] = label]

AsyncWorkerInit ==
  /\ active = [w \in Workers |-> <<>>]
  /\ finished = [w \in Workers |-> <<>>]
  /\ raised = [w \in Workers |-> {}]
  /\ abandoned = [w \in Workers |-> {}]
  /\ awaited = [w \in Workers |-> NoTask]
  /\ response = [w \in Workers |-> None]
  /\ taskCount = [w \in Workers |-> 0]
  /\ errCount = [w \in Workers |-> 0]
  /\ consErrCount = [w \in Workers |-> 0]

\* curr_coroutines: incremented with every coroutine, decremented with every
\* answer that is collected.
CurrCoroutines(w) == Len(active[w]) + Len(finished[w])

ResetCounts(w) ==
  /\ taskCount' = [taskCount EXCEPT ![w] = 0]
  /\ errCount' = [errCount EXCEPT ![w] = 0]
  /\ consErrCount' = [consErrCount EXCEPT ![w] = 0]

\* _run and _async_run up to the loop.  _async_tasks survives a restart: what
\* an event loop that died has left in it belongs to no loop any more.
Boot(w) ==
  /\ pc[w] = "boot"
  /\ running' = [running EXCEPT ![w] = TRUE]
  /\ idle' = [idle EXCEPT ![w] = TRUE]
  /\ inited' = [inited EXCEPT ![w] = TRUE]
  /\ abandoned' = [abandoned EXCEPT ![w] = @ \cup ToSet(active[w])]
  /\ active' = [active EXCEPT ![w] = <<>>]
  /\ finished' = [finished EXCEPT ![w] = <<>>]
  /\ ResetCounts(w)
  /\ Goto(w, "top")
  /\ UNCHANGED <<busVars, future, thread, raised, awaited, response>>

\* Mutant of MarkIdle: the coroutines that still run are not counted.
MarkIdle_ForgetsRunning(w) ==
  /\ pc[w] = "top"
  /\ idle' = [idle EXCEPT ![w] = finished[w] = <<>>]
  /\ Goto(w, "requests")
  /\ UNCHANGED <<busVars, future, running, inited, thread, workerLocals>>

\* The head of the loop.
MarkIdle(w) ==
  /\ pc[w] = "top"
  /\ idle' = [idle EXCEPT ![w] = CurrCoroutines(w) = 0]
  /\ Goto(w, "requests")
  /\ UNCHANGED <<busVars, future, running, inited, thread, workerLocals>>

TimeOut(w) ==
  /\ pc[w] = "top"
  /\ WorkerTimesOut /\ CurrCoroutines(w) = 0
  /\ idle' = [idle EXCEPT ![w] = TRUE]
  /\ running' = [running EXCEPT ![w] = FALSE]
  /\ response' = [response EXCEPT ![w] = Action({"CLOSE"}, NoTask, w)]
  /\ Goto(w, "wait")
  /\ UNCHANGED <<busVars, future, inited, thread, coroutines, counts>>

\* One turn of `while not request_bus.empty()`.
HandleRequest(w) ==
  /\ pc[w] = "requests"
  /\ requestBus[w] # <<>>
  /\ LET request == Head(requestBus[w])
         leaves  == Match(request, {"CLOSE", "RESTART"})
     IN  /\ IF Match(request, {"RESET"}) THEN ResetCounts(w)
                                         ELSE UNCHANGED counts
         /\ response' = [response EXCEPT ![w] =
                           IF leaves THEN Action(request.flag, NoTask, w) ELSE @]
         /\ Goto(w, IF leaves THEN "check" ELSE "requests")
  /\ requestBus' = [requestBus EXCEPT ![w] = Tail(@)]
  /\ UNCHANGED <<taskBus, responseBus, future, running, idle, inited, thread,
                 coroutines>>

NoRequest(w) ==
  /\ pc[w] = "requests"
  /\ requestBus[w] = <<>>
  /\ Goto(w, "check")
  /\ UNCHANGED <<busVars, future, running, idle, inited, thread, workerLocals>>

\* A loop that is left finds `running` cleared already.
CheckRunning(w) ==
  /\ pc[w] = "check"
  /\ Goto(w, IF running[w] THEN "get" ELSE "wait")
  /\ UNCHANGED <<busVars, future, running, idle, inited, thread, workerLocals>>

\* Mutant of TakeTask: the task stays on the bus.
TakeTask_Peeks(w) ==
  /\ pc[w] = "get"
  /\ ~LimitReached(MaxTaskCount, taskCount[w])
  /\ taskBus # <<>>
  /\ active' = [active EXCEPT ![w] = Append(@, Head(taskBus))]
  /\ Goto(w, "begin")
  /\ UNCHANGED <<busVars, future, running, idle, inited, thread, finished,
                 raised, abandoned, awaited, response, counts>>

\* Mutant of TakeTask: the bus is a stack.
TakeTask_TakesNewest(w) ==
  /\ pc[w] = "get"
  /\ ~LimitReached(MaxTaskCount, taskCount[w])
  /\ taskBus # <<>>
  /\ active' = [active EXCEPT ![w] = Append(@, Last(taskBus))]
  /\ taskBus' = Front(taskBus)
  /\ Goto(w, "begin")
  /\ UNCHANGED <<responseBus, requestBus, future, running, idle, inited,
                 thread, finished, raised, abandoned, awaited, response, counts>>

\* Tasks are taken until the bus is empty or max_task_count is reached.  The
\* branch for task.cancelled is left out: no statement sets that field.
TakeTask(w) ==
  /\ pc[w] = "get"
  /\ ~LimitReached(MaxTaskCount, taskCount[w])
  /\ taskBus # <<>>
  /\ active' = [active EXCEPT ![w] = Append(@, Head(taskBus))]
  /\ taskBus' = Tail(taskBus)
  /\ Goto(w, "begin")
  /\ UNCHANGED <<responseBus, requestBus, future, running, idle, inited,
                 thread, finished, raised, abandoned, awaited, response, counts>>

\* The worker stops being idle only after it took the task.
CreateTask(w) ==
  /\ pc[w] = "begin"
  /\ idle' = [idle EXCEPT ![w] = FALSE]
  /\ taskCount' = [taskCount EXCEPT ![w] = @ + 1]
  /\ Goto(w, "get")
  /\ UNCHANGED <<busVars, future, running, inited, thread, coroutines,
                 response, errCount, consErrCount>>

\* Empty is raised, or the limit on tasks reached: on to asyncio.sleep(0).
StopTaking(w) ==
  /\ pc[w] = "get"
  /\ taskBus = <<>> \/ LimitReached(MaxTaskCount, taskCount[w])
  /\ Goto(w, "run")
  /\ UNCHANGED <<busVars, future, running, idle, inited, thread, workerLocals>>

(***************************************************************************)
(* The last step of a coroutine, while _async_run awaits.  Its function    *)
(* returns ("result"), raises an Exception ("exception") or asyncio's      *)
(* CancelledError ("cancel"), which the except clause does not catch.  A   *)
(* future that is no longer pending raises InvalidStateError out of the    *)
(* coroutine.  The finally clause puts the answer in every case; after     *)
(* CancelledError it is None.                                              *)
(***************************************************************************)
FlagOf(o) == IF o = "result" THEN "DONE" ELSE "EXCEPTION"

InLoop(w, t) == pc[w] \in {"run", "await"} /\ t \in ToSet(active[w])

RunCoroutine(w, t) ==
  /\ InLoop(w, t)
  /\ \E o \in Outcomes \ {"exit"} :
       LET sets == o # "cancel" /\ Settable(t)
       IN  /\ future' = IF sets THEN [future EXCEPT ![t] = o] ELSE future
           /\ raised' = [raised EXCEPT ![w] = IF sets THEN @ ELSE @ \cup {t}]
           /\ finished' = [finished EXCEPT ![w] =
                Append(@, IF o = "cancel" THEN None
                                          ELSE Action({FlagOf(o)}, t, w))]
  /\ active' = [active EXCEPT ![w] = RemoveFirst(@, t)]
  /\ UNCHANGED <<busVars, flagVars, abandoned, awaited, response, counts>>

\* The thread ends on the spot with an exception: its flags keep their values.
DieAsync(w) ==
  /\ Goto(w, "died")
  /\ awaited' = [awaited EXCEPT ![w] = NoTask]
  /\ response' = [response EXCEPT ![w] = None]

\* SystemExit or KeyboardInterrupt in a coroutine leaves the event loop.
ExitCoroutine(w, t) ==
  /\ InLoop(w, t) /\ "exit" \in Outcomes
  /\ active' = [active EXCEPT ![w] = RemoveFirst(@, t)]
  /\ DieAsync(w)
  /\ UNCHANGED <<busVars, future, running, idle, inited, thread, finished,
                 raised, abandoned, counts>>

\* sleep(0) is over.
EndTurn(w) ==
  /\ pc[w] = "run"
  /\ Goto(w, "collect")
  /\ UNCHANGED <<busVars, future, running, idle, inited, thread, workerLocals>>

-----------------------------------------------------------------------------
(***************************************************************************)
(* `while not async_response_bus.empty()`: none of its awaits suspends.    *)
(***************************************************************************)
Answer(w) == Head(finished[w])

\* None has no task_name; and awaiting a coroutine that raised raises again.
Broken(w, r) == r = None \/ r.task \in raised[w]

Collects(w) == pc[w] = "collect" /\ finished[w] # <<>>

CollectFails(w) ==
  /\ Collects(w) /\ Broken(w, Answer(w))
  /\ finished' = [finished EXCEPT ![w] = Tail(@)]
  /\ DieAsync(w)
  /\ UNCHANGED <<busVars, future, running, idle, inited, thread, active,
                 raised, abandoned, counts>>

\* err_count and cons_err_count with the answer r; cons_err_count is 0 when
\* is_prev_coro_err is not set.
ErrCountWith(w, r) ==
  errCount[w] + (IF Match(r, {"EXCEPTION"}) THEN 1 ELSE 0)
ConsErrCountWith(w, r) ==
  IF Match(r, {"EXCEPTION"}) THEN consErrCount[w] + 1 ELSE 0

LimitHit(w, r) ==
  \/ LimitReached(MaxTaskCount, taskCount[w])
  \/ LimitReached(MaxErrCount, ErrCountWith(w, r))
  \/ LimitReached(MaxConsErrCount, ConsErrCountWith(w, r))

CollectAnswer(w) ==
  /\ Collects(w) /\ ~Broken(w, Answer(w))
  /\ finished' = [finished EXCEPT ![w] = Tail(@)]
  /\ errCount' = [errCount EXCEPT ![w] = ErrCountWith(w, Answer(w))]
  /\ consErrCount' = [consErrCount EXCEPT ![w] = ConsErrCountWith(w, Answer(w))]
  /\ UNCHANGED <<taskBus, requestBus, future, idle, inited, thread, active,
                 raised, abandoned, awaited, taskCount>>

\* Mutant of CollectAndContinue: the answer is dropped.
CollectAndContinue_Silent(w) ==
  /\ CollectAnswer(w)
  /\ ~LimitHit(w, Answer(w))
  /\ response' = [response EXCEPT ![w] = None]
  /\ UNCHANGED <<responseBus, running, pc>>

CollectAndContinue(w) ==
  /\ CollectAnswer(w)
  /\ ~LimitHit(w, Answer(w))
  /\ responseBus' = Append(responseBus, Answer(w))
  /\ response' = [response EXCEPT ![w] = None]
  /\ UNCHANGED <<running, pc>>

\* A limit: the answer goes to the manager, and `response` keeps it.
CollectAndRestart(w) ==
  /\ CollectAnswer(w)
  /\ LimitHit(w, Answer(w))
  /\ LET r == AddFlag(Answer(w), "RESTART")
     IN  /\ responseBus' = Append(responseBus, r)
         /\ response' = [response EXCEPT ![w] = r]
  /\ running' = [running EXCEPT ![w] = FALSE]
  /\ Goto(w, "wait")

CollectDone(w) ==
  /\ pc[w] = "collect" /\ finished[w] = <<>>
  /\ Goto(w, IF running[w] THEN "top" ELSE "wait")
  /\ UNCHANGED <<busVars, future, running, idle, inited, thread, workerLocals>>

-----------------------------------------------------------------------------
(***************************************************************************)
(* The end of _async_run: `await async_task` for those not done, in the    *)
(* order of _async_tasks; a coroutine of another loop cannot be awaited.   *)
(***************************************************************************)
Await(w) ==
  /\ pc[w] = "wait" /\ abandoned[w] = {} /\ active[w] # <<>>
  /\ awaited' = [awaited EXCEPT ![w] = Head(active[w])]
  /\ Goto(w, "await")
  /\ UNCHANGED <<busVars, future, running, idle, inited, thread, active,
                 finished, raised, abandoned, response, counts>>

Awaited(w) == pc[w] = "await" /\ awaited[w] \notin ToSet(active[w])

AwaitReturns(w) ==
  /\ Awaited(w) /\ awaited[w] \notin raised[w]
  /\ awaited' = [awaited EXCEPT ![w] = NoTask]
  /\ Goto(w, "wait")
  /\ UNCHANGED <<busVars, future, running, idle, inited, thread, active,
                 finished, raised, abandoned, response, counts>>

\* Mutant of AwaitFails: the await of a coroutine of another loop never ends.
AwaitFails_Hangs(w) ==
  /\ Awaited(w) /\ awaited[w] \in raised[w]
  /\ DieAsync(w)
  /\ UNCHANGED <<busVars, future, running, idle, inited, thread, active,
                 finished, raised, abandoned, counts>>

AwaitFails(w) ==
  /\ \/ Awaited(w) /\ awaited[w] \in raised[w]
     \/ pc[w] = "wait" /\ abandoned[w] # {}
  /\ DieAsync(w)
  /\ UNCHANGED <<busVars, future, running, idle, inited, thread, active,
                 finished, raised, abandoned, counts>>

\* Mutant of Flush: the coroutines that still run are not waited for.
Flush_WaitsForNone(w) ==
  /\ pc[w] = "wait"
  /\ LET r == response[w]
     IN  finished' = [finished EXCEPT ![w] = IF r # None THEN Append(@, r) ELSE @]
  /\ response' = [response EXCEPT ![w] = None]
  /\ Goto(w, "flush")
  /\ UNCHANGED <<busVars, future, running, idle, inited, thread, active,
                 raised, abandoned, awaited, counts>>

\* The last response, which has the flag CLOSE or RESTART whenever the loop is
\* left with one, goes behind the answers that were not collected.
Flush(w) ==
  /\ pc[w] = "wait" /\ abandoned[w] = {} /\ active[w] = <<>>
  /\ LET r == response[w]
     IN  finished' = [finished EXCEPT ![w] = IF r # None THEN Append(@, r) ELSE @]
  /\ response' = [response EXCEPT ![w] = None]
  /\ Goto(w, "flush")
  /\ UNCHANGED <<busVars, future, running, idle, inited, thread, active,
                 raised, abandoned, awaited, counts>>

FlushAnswer(w) ==
  /\ pc[w] = "flush" /\ finished[w] # <<>>
  /\ responseBus' = Append(responseBus, Answer(w))
  /\ finished' = [finished EXCEPT ![w] = Tail(@)]
  /\ UNCHANGED <<taskBus, requestBus, future, flagVars, active, raised,
                 abandoned, awaited, response, counts>>

\* self._thread = None.
ClearThread(w) ==
  /\ pc[w] = "flush" /\ finished[w] = <<>>
  /\ thread' = [thread EXCEPT ![w] = FALSE]
  /\ Goto(w, "ended")
  /\ UNCHANGED <<busVars, future, running, idle, inited, workerLocals>>

\* A step of _async_run other than giving up.
WorkerStep(w) ==
  \/ Boot(w) \/ MarkIdle(w) \/ HandleRequest(w) \/ NoRequest(w)
  \/ CheckRunning(w) \/ TakeTask(w) \/ CreateTask(w) \/ StopTaking(w)
  \/ EndTurn(w) \/ CollectFails(w) \/ CollectAndContinue(w)
  \/ CollectAndRestart(w) \/ CollectDone(w)
  \/ Await(w) \/ AwaitReturns(w) \/ AwaitFails(w)
  \/ Flush(w) \/ FlushAnswer(w) \/ ClearThread(w)

AsyncWorkerTypeOK ==
  /\ active \in [Workers -> Seq(Tasks)]
  /\ finished \in [Workers -> Seq(Responses)]
  /\ raised \in [Workers -> SUBSET Tasks]
  /\ abandoned \in [Workers -> SUBSET Tasks]
  /\ awaited \in [Workers -> Tasks \cup {NoTask}]
  /\ response \in [Workers -> Responses]
  /\ taskCount \in [Workers -> Nat]
  /\ errCount \in [Workers -> Nat]
  /\ consErrCount \in [Workers -> Nat]

=============================================================================
