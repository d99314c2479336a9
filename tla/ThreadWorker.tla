---------------------------- MODULE ThreadWorker ----------------------------
(***************************************************************************)
(* The thread of a ThreadWorker (workers/thread/worker.py): _run and       *)
(* _run_core, one action per step that reads or writes something another   *)
(* thread can see.                                                         *)
(***************************************************************************)
EXTENDS PoolState

CONSTANTS
  Outcomes,             \* what a task's function may do, see RunTask
  MaxTaskCount,         \* spec.max_task_count
  MaxErrCount,          \* spec.max_err_count
  MaxConsErrCount,      \* spec.max_cons_err_count
  WorkerTimesOut        \* idle_timeout >= 0: an idle worker may give up

ASSUME ThreadWorkerAssumption ==
  /\ Outcomes \subseteq {"result", "exception", "exit"}
  /\ MaxTaskCount \in Int /\ MaxErrCount \in Int /\ MaxConsErrCount \in Int
  /\ WorkerTimesOut \in BOOLEAN

VARIABLES
  task,          \* the local `task`, NoTask before and after it
  outcome,       \* how the body of the try statement ended
  response,      \* the local `response`
  taskCount, errCount, consErrCount

workerLocals == <<task, outcome, response, taskCount, errCount, consErrCount>>

Goto(w, label) == pc' = [pc EXCEPT ![w] = label]

ThreadWorkerInit ==
  /\ task = [w \in Workers |-> NoTask]
  /\ outcome = [w \in Workers |-> "none"]
  /\ response = [w \in Workers |-> None]
  /\ taskCount = [w \in Workers |-> 0]
  /\ errCount = [w \in Workers |-> 0]
  /\ consErrCount = [w \in Workers |-> 0]

ResetCounts(w) ==
  /\ taskCount' = [taskCount EXCEPT ![w] = 0]
  /\ errCount' = [errCount EXCEPT ![w] = 0]
  /\ consErrCount' = [consErrCount EXCEPT ![w] = 0]

\* _run up to the loop of _run_core.  running, idle and inited are set one
\* after the other; only start() waits for the last of them.
Boot(w) ==
  /\ pc[w] = "boot"
  /\ running' = [running EXCEPT ![w] = TRUE]
  /\ idle' = [idle EXCEPT ![w] = TRUE]
  /\ inited' = [inited EXCEPT ![w] = TRUE]
  /\ response' = [response EXCEPT ![w] = None]
  /\ ResetCounts(w)
  /\ Goto(w, "top")
  /\ UNCHANGED <<busVars, future, thread, task, outcome>>

\* Mutant of TimeOut: the end is announced before the flags are cleared.
TimeOut_AnnouncesFirst(w) ==
  /\ pc[w] = "top"
  /\ WorkerTimesOut
  /\ responseBus' = Append(responseBus, Action({"CLOSE"}, NoTask, w))
  /\ Goto(w, "quit")
  /\ UNCHANGED <<taskBus, requestBus, future, running, idle, inited, thread,
                 workerLocals>>

\* The head of the loop: too long without a task.  The clock is abstracted:
\* the test may succeed whenever the thread gets there.
TimeOut(w) ==
  /\ pc[w] = "top"
  /\ WorkerTimesOut
  /\ response' = [response EXCEPT ![w] = Action({"CLOSE"}, NoTask, w)]
  /\ Goto(w, "quit")
  /\ UNCHANGED <<busVars, future, running, idle, inited, thread,
                 task, outcome, taskCount, errCount, consErrCount>>

\* One turn of `while not request_bus.empty()`.  CLOSE and RESTART leave the
\* inner loop only: whether the thread stops is decided by CheckRunning.
HandleRequest(w) ==
  /\ pc[w] \in {"top", "requests"}
  /\ requestBus[w] # <<>>
  /\ LET request == Head(requestBus[w])
         leaves  == Match(request, {"CLOSE", "RESTART"})
     IN  /\ IF Match(request, {"RESET"})
            THEN ResetCounts(w)
            ELSE UNCHANGED <<taskCount, errCount, consErrCount>>
         /\ response' = [response EXCEPT ![w] =
                           IF leaves THEN Action(request.flag, NoTask, w) ELSE @]
         /\ Goto(w, IF leaves THEN "check" ELSE "requests")
  /\ requestBus' = [requestBus EXCEPT ![w] = Tail(@)]
  /\ UNCHANGED <<taskBus, responseBus, future, running, idle, inited, thread,
                 task, outcome>>

NoRequest(w) ==
  /\ pc[w] \in {"top", "requests"}
  /\ requestBus[w] = <<>>
  /\ Goto(w, "check")
  /\ UNCHANGED <<busVars, future, running, idle, inited, thread, workerLocals>>

CheckRunning(w) ==
  /\ pc[w] = "check"
  /\ Goto(w, IF running[w] THEN "get" ELSE "quit")
  /\ UNCHANGED <<busVars, future, running, idle, inited, thread, workerLocals>>

\* Mutant of GetTask: the task stays on the bus.
GetTask_Peeks(w) ==
  /\ pc[w] = "get"
  /\ taskBus # <<>>
  /\ task' = [task EXCEPT ![w] = Head(taskBus)]
  /\ Goto(w, "begin")
  /\ UNCHANGED <<busVars, future, running, idle, inited, thread, outcome,
                 response, taskCount, errCount, consErrCount>>

\* Mutant of GetTask: the bus is a stack.
GetTask_TakesNewest(w) ==
  /\ pc[w] = "get"
  /\ taskBus # <<>>
  /\ task' = [task EXCEPT ![w] = taskBus[Len(taskBus)]]
  /\ taskBus' = SubSeq(taskBus, 1, Len(taskBus) - 1)
  /\ Goto(w, "begin")
  /\ UNCHANGED <<responseBus, requestBus, future, running, idle, inited,
                 thread, outcome, response, taskCount, errCount, consErrCount>>

\* task_bus.get(timeout=wait_interval) returns a task ...
GetTask(w) ==
  /\ pc[w] = "get"
  /\ taskBus # <<>>
  /\ task' = [task EXCEPT ![w] = Head(taskBus)]
  /\ taskBus' = Tail(taskBus)
  /\ Goto(w, "begin")
  /\ UNCHANGED <<responseBus, requestBus, future, running, idle, inited,
                 thread, outcome, response, taskCount, errCount, consErrCount>>

\* ... or raises Empty.
GetEmpty(w) ==
  /\ pc[w] = "get"
  /\ taskBus = <<>>
  /\ Goto(w, "top")
  /\ UNCHANGED <<busVars, future, running, idle, inited, thread, workerLocals>>

\* task.cancelled: a field of BaseTask that no statement of the code sets.
CancelledFlag(t) == FALSE

\* The worker stops being idle only here, after it took the task.
BeginTask(w) ==
  /\ pc[w] = "begin"
  /\ idle' = [idle EXCEPT ![w] = FALSE]
  /\ Goto(w, IF CancelledFlag(task[w]) THEN "refuse" ELSE "run")
  /\ UNCHANGED <<busVars, future, running, inited, thread, workerLocals>>

(***************************************************************************)
(* The function returns ("result"), raises an Exception ("exception") or a *)
(* BaseException such as SystemExit ("exit"), which the except clause does *)
(* not catch.  Setting a future that is no longer pending raises           *)
(* InvalidStateError out of the try statement; `response` then keeps its   *)
(* old value.                                                              *)
(***************************************************************************)
Conclude(w, o) ==
  LET t    == task[w]
      sets == o # "exit" /\ Settable(t)
      flag == IF o = "result" THEN "DONE" ELSE "EXCEPTION"
  IN  /\ errCount' = [errCount EXCEPT ![w] = IF o = "exception" THEN @ + 1 ELSE @]
      /\ consErrCount' = [consErrCount EXCEPT ![w] =
                            IF o = "exception" THEN @ + 1
                            ELSE IF o = "result" THEN 0 ELSE @]
      /\ IF sets
         THEN /\ future' = [future EXCEPT ![t] = o]
              /\ response' = [response EXCEPT ![w] = Action({flag}, t, w)]
         ELSE UNCHANGED <<future, response>>
      /\ outcome' = [outcome EXCEPT ![w] = IF sets THEN "settled"
                                           ELSE IF o = "exit" THEN "exit"
                                           ELSE "invalid"]

\* The call of the function; `del task` of the finally clause is done here.
RunTask(w) ==
  /\ pc[w] \in {"run", "refuse"}
  /\ \E o \in IF pc[w] = "refuse" THEN {"exception"} ELSE Outcomes : Conclude(w, o)
  /\ task' = [task EXCEPT ![w] = NoTask]
  /\ Goto(w, "finally")
  /\ UNCHANGED <<busVars, running, idle, inited, thread, taskCount>>

(***************************************************************************)
(* The finally clause.  It counts the task, makes the worker idle again    *)
(* and leaves the loop when a limit is reached; a `break` inside finally   *)
(* also drops an exception in flight.                                      *)
(***************************************************************************)
LimitHit(w) ==
  \/ LimitReached(MaxTaskCount, taskCount[w] + 1)
  \/ LimitReached(MaxErrCount, errCount[w])
  \/ LimitReached(MaxConsErrCount, consErrCount[w])

EnterFinally(w) ==
  /\ pc[w] = "finally"
  /\ taskCount' = [taskCount EXCEPT ![w] = @ + 1]
  /\ idle' = [idle EXCEPT ![w] = TRUE]
  /\ outcome' = [outcome EXCEPT ![w] = "none"]
  /\ UNCHANGED <<taskBus, requestBus, future, running, inited, thread, task,
                 errCount, consErrCount>>

\* Mutant of FinishAndRestart: the answer is put on the bus here, as in
\* FinishAndContinue, and once more at the end of _run.
FinishAndRestart_AnnouncesTwice(w) ==
  /\ EnterFinally(w)
  /\ LimitHit(w) /\ response[w] # None
  /\ response' = [response EXCEPT ![w] = AddFlag(@, "RESTART")]
  /\ responseBus' = Append(responseBus, AddFlag(response[w], "RESTART"))
  /\ Goto(w, "quit")

\* Mutant of FinishAndRestart: the thread ends without asking for a restart.
FinishAndRestart_Silent(w) ==
  /\ EnterFinally(w)
  /\ LimitHit(w) /\ response[w] # None
  /\ Goto(w, "quit")
  /\ UNCHANGED <<response, responseBus>>

FinishAndRestart(w) ==
  /\ EnterFinally(w)
  /\ LimitHit(w) /\ response[w] # None
  /\ response' = [response EXCEPT ![w] = AddFlag(@, "RESTART")]
  /\ Goto(w, "quit")
  /\ UNCHANGED responseBus

\* Mutant of FinishAndContinue: `response = None` before the put.
FinishAndContinue_PutsNone(w) ==
  /\ EnterFinally(w)
  /\ ~LimitHit(w) /\ outcome[w] = "settled"
  /\ responseBus' = Append(responseBus, None)
  /\ response' = [response EXCEPT ![w] = None]
  /\ Goto(w, "top")

FinishAndContinue(w) ==
  /\ EnterFinally(w)
  /\ ~LimitHit(w) /\ outcome[w] = "settled"
  /\ responseBus' = Append(responseBus, response[w])
  /\ response' = [response EXCEPT ![w] = None]
  /\ Goto(w, "top")

\* An Exception leaves _run_core: InvalidStateError after the old `response`
\* was put on the bus, or AttributeError of None.add_flag.
FinishAndFail(w) ==
  /\ EnterFinally(w)
  /\ \/ /\ LimitHit(w) /\ response[w] = None
        /\ UNCHANGED responseBus
     \/ /\ ~LimitHit(w) /\ outcome[w] = "invalid"
        /\ responseBus' = Append(responseBus, response[w])
  /\ response' = [response EXCEPT ![w] =
                    Action({"CLOSE", "FATAL_ERROR"}, NoTask, w)]
  /\ Goto(w, "quit")

\* A BaseException ends the thread on the spot: the flags keep their values.
FinishAndDie(w) ==
  /\ EnterFinally(w)
  /\ ~LimitHit(w) /\ outcome[w] = "exit"
  /\ responseBus' = Append(responseBus, response[w])
  /\ response' = [response EXCEPT ![w] = None]
  /\ Goto(w, "died")

\* The end of _run: first the flags and the last response
\* (a local that dies with the thread) ...
Quit(w) ==
  /\ pc[w] = "quit"
  /\ idle' = [idle EXCEPT ![w] = FALSE]
  /\ running' = [running EXCEPT ![w] = FALSE]
  /\ responseBus' = IF response[w] = None THEN responseBus
                    ELSE Append(responseBus, response[w])
  /\ response' = [response EXCEPT ![w] = None]
  /\ Goto(w, "clear")
  /\ UNCHANGED <<taskBus, requestBus, future, inited, thread, task, outcome,
                 taskCount, errCount, consErrCount>>

\* ... then self._thread = None.
ClearThread(w) ==
  /\ pc[w] = "clear"
  /\ thread' = [thread EXCEPT ![w] = FALSE]
  /\ Goto(w, "ended")
  /\ UNCHANGED <<busVars, future, running, idle, inited, workerLocals>>

\* A step of the thread other than giving up.
WorkerStep(w) ==
  \/ Boot(w) \/ HandleRequest(w) \/ NoRequest(w) \/ CheckRunning(w)
  \/ GetTask(w) \/ GetEmpty(w) \/ BeginTask(w) \/ RunTask(w)
  \/ FinishAndRestart(w) \/ FinishAndContinue(w) \/ FinishAndFail(w)
  \/ FinishAndDie(w) \/ Quit(w) \/ ClearThread(w)

ThreadWorkerTypeOK ==
  /\ task \in [Workers -> Tasks \cup {NoTask}]
  /\ outcome \in [Workers -> {"none", "settled", "exit", "invalid"}]
  /\ response \in [Workers -> Responses]
  /\ taskCount \in [Workers -> Nat]
  /\ errCount \in [Workers -> Nat]
  /\ consErrCount \in [Workers -> Nat]

=============================================================================
