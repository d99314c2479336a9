--------------------------- MODULE ProcessWorker ----------------------------
(***************************************************************************)
(* The process of a ProcessWorker (workers/process/worker.py): _run and    *)
(* _run_core.  The flags are events shared with the manager's process, and *)
(* thread[w] tells whether worker._process is not None.  What the process  *)
(* puts on the response bus stays in its own buffer until the feeder       *)
(* thread of the queue sends it; ProcessQueue models that queue.           *)
(***************************************************************************)
EXTENDS ProcessState

CONSTANTS
  Outcomes,             \* what a task's function may do, see RunTask
  MaxTaskCount,         \* spec.max_task_count
  MaxErrCount,          \* spec.max_err_count
  MaxConsErrCount,      \* spec.max_cons_err_count
  WorkerTimesOut,       \* idle_timeout >= 0: an idle worker may give up
  MayCrash,             \* workers whose process may be killed
  Unsendable            \* tasks whose result cannot be pickled

ASSUME ProcessWorkerAssumption ==
  /\ Outcomes \subseteq {"result", "exception", "exit"}
  /\ MaxTaskCount \in Int /\ MaxErrCount \in Int /\ MaxConsErrCount \in Int
  /\ WorkerTimesOut \in BOOLEAN
  /\ MayCrash \subseteq Workers /\ Unsendable \subseteq Tasks

VARIABLES
  task,          \* the local `task`, NoTask before and after it
  response,      \* the local `response`
  taskCount, errCount, consErrCount,
  seen,          \* value of the counter that `-= 1` has read
  outbox         \* _buffer of the response bus in this process

countVars    == <<taskCount, errCount, consErrCount>>
workerLocals == <<task, response, countVars, seen, outbox>>

Goto(w, label) == pc' = [pc EXCEPT ![w] = label]

ProcessWorkerInit ==
  /\ task = [w \in Workers |-> NoTask]
  /\ response = [w \in Workers |-> None]
  /\ taskCount = [w \in Workers |-> 0]
  /\ errCount = [w \in Workers |-> 0]
  /\ consErrCount = [w \in Workers |-> 0]
  /\ seen = [w \in Workers |-> 0]
  /\ outbox = [w \in Workers |-> <<>>]

ResetCounts(w) ==
  /\ taskCount' = [taskCount EXCEPT ![w] = 0]
  /\ errCount' = [errCount EXCEPT ![w] = 0]
  /\ consErrCount' = [consErrCount EXCEPT ![w] = 0]

\* _run up to the loop of _run_core.
Boot(w) ==
  /\ pc[w] = "boot"
  /\ running' = [running EXCEPT ![w] = TRUE]
  /\ idle' = [idle EXCEPT ![w] = TRUE]
  /\ inited' = [inited EXCEPT ![w] = TRUE]
  /\ response' = [response EXCEPT ![w] = None]
  /\ ResetCounts(w)
  /\ Goto(w, "top")
  /\ UNCHANGED <<busVars, future, thread, task, seen, outbox, counter>>

\* The head of the loop: too long without a task.
TimeOut(w) ==
  /\ pc[w] = "top"
  /\ WorkerTimesOut
  /\ response' = [response EXCEPT ![w] = Action({"CLOSE"}, NoTask, w)]
  /\ Goto(w, "quit")
  /\ UNCHANGED <<busVars, future, running, idle, inited, thread, task,
                 countVars, seen, outbox, counter>>

\* One turn of `while not request_bus.empty()`.  Unlike a thread, the process
\* leaves the outer loop too (should_exit).
HandleRequest(w) ==
  /\ pc[w] \in {"top", "requests"}
  /\ requestBus[w] # <<>>
  /\ LET request == Head(requestBus[w])
         leaves  == Match(request, {"CLOSE", "RESTART", "FATAL_ERROR"})
     IN  /\ IF Match(request, {"RESET"})
            THEN ResetCounts(w)
            ELSE UNCHANGED countVars
         /\ response' = [response EXCEPT ![w] =
                           IF leaves THEN Action(request.flag, NoTask, w) ELSE @]
         /\ Goto(w, IF leaves THEN "quit" ELSE "requests")
  /\ requestBus' = [requestBus EXCEPT ![w] = Tail(@)]
  /\ UNCHANGED <<taskBus, responseBus, future, running, idle, inited, thread,
                 task, seen, outbox, counter>>

\* A request may still be in the buffer of the manager's process.
NoRequest(w) ==
  /\ pc[w] \in {"top", "requests"}
  /\ Goto(w, "check")
  /\ UNCHANGED <<busVars, future, running, idle, inited, thread,
                 workerLocals, counter>>

CheckRunning(w) ==
  /\ pc[w] = "check"
  /\ Goto(w, IF running[w] THEN "get" ELSE "quit")
  /\ UNCHANGED <<busVars, future, running, idle, inited, thread,
                 workerLocals, counter>>

\* Mutant of GetTask: the task stays on the bus.
GetTask_Peeks(w) ==
  /\ pc[w] = "get"
  /\ taskBus # <<>>
  /\ task' = [task EXCEPT ![w] = Head(taskBus)]
  /\ Goto(w, "load")
  /\ UNCHANGED <<busVars, future, running, idle, inited, thread, response,
                 countVars, seen, outbox, counter>>

\* Mutant of GetTask: the bus is a stack.
GetTask_TakesNewest(w) ==
  /\ pc[w] = "get"
  /\ taskBus # <<>>
  /\ task' = [task EXCEPT ![w] = taskBus[Len(taskBus)]]
  /\ taskBus' = SubSeq(taskBus, 1, Len(taskBus) - 1)
  /\ Goto(w, "load")
  /\ UNCHANGED <<responseBus, requestBus, future, running, idle, inited,
                 thread, response, countVars, seen, outbox, counter>>

\* task_bus.get(timeout=wait_interval) returns a task ...
GetTask(w) ==
  /\ pc[w] = "get"
  /\ taskBus # <<>>
  /\ task' = [task EXCEPT ![w] = Head(taskBus)]
  /\ taskBus' = Tail(taskBus)
  /\ Goto(w, "load")
  /\ UNCHANGED <<responseBus, requestBus, future, running, idle, inited,
                 thread, response, countVars, seen, outbox, counter>>

\* ... or raises Empty, also when a task is still on its way through the
\* queue or another process holds the read lock for too long.
GetEmpty(w) ==
  /\ pc[w] = "get"
  /\ Goto(w, "top")
  /\ UNCHANGED <<busVars, future, running, idle, inited, thread,
                 workerLocals, counter>>

\* task_bus_qsize.value -= 1: a read and a write, each under the lock of the
\* counter, and nothing in between.
LoadCounter(w) ==
  /\ pc[w] = "load"
  /\ seen' = [seen EXCEPT ![w] = counter]
  /\ Goto(w, "store")
  /\ UNCHANGED <<busVars, future, running, idle, inited, thread, task,
                 response, countVars, outbox, counter>>

\* Below 0 the unsigned value starts again from the top.
StoreCounter(w) ==
  /\ pc[w] = "store"
  /\ counter' = Wrap(seen[w] - 1)
  /\ seen' = [seen EXCEPT ![w] = 0]
  /\ Goto(w, "begin")
  /\ UNCHANGED <<busVars, future, running, idle, inited, thread, task,
                 response, countVars, outbox>>

\* idle.clear()
BeginTask(w) ==
  /\ pc[w] = "begin"
  /\ idle' = [idle EXCEPT ![w] = FALSE]
  /\ Goto(w, "run")
  /\ UNCHANGED <<busVars, future, running, inited, thread, workerLocals,
                 counter>>

(***************************************************************************)
(* The call of the function and the finally clause.  It returns ("result"),*)
(* raises an Exception ("exception") or a BaseException such as SystemExit *)
(* ("exit"), for which there is no response.  The future is not here: the  *)
(* manager sets it when it receives the answer.                            *)
(***************************************************************************)
AnswerTo(t, w, o) ==
  CASE o = "result"    -> Action({"DONE"}, t, w)
    [] o = "exception" -> Action({"EXCEPTION"}, t, w)
    [] o = "exit"      -> None

ErrCountWith(w, o) ==
  IF o = "exception" THEN errCount[w] + 1 ELSE errCount[w]
ConsErrCountWith(w, o) ==
  IF o = "exception" THEN consErrCount[w] + 1
  ELSE IF o = "result" THEN 0 ELSE consErrCount[w]

LimitHit(w, o) ==
  \/ LimitReached(MaxTaskCount, taskCount[w] + 1)
  \/ LimitReached(MaxErrCount, ErrCountWith(w, o))
  \/ LimitReached(MaxConsErrCount, ConsErrCountWith(w, o))

RunTask(w, o) ==
  /\ pc[w] = "run"
  /\ task' = [task EXCEPT ![w] = NoTask]
  /\ taskCount' = [taskCount EXCEPT ![w] = @ + 1]
  /\ errCount' = [errCount EXCEPT ![w] = ErrCountWith(w, o)]
  /\ consErrCount' = [consErrCount EXCEPT ![w] = ConsErrCountWith(w, o)]
  /\ idle' = [idle EXCEPT ![w] = TRUE]
  /\ UNCHANGED <<busVars, future, running, inited, thread, seen, counter>>

FinishAndContinue(w, o) ==
  /\ RunTask(w, o) /\ ~LimitHit(w, o) /\ o # "exit"
  /\ outbox' = [outbox EXCEPT ![w] = Append(@, AnswerTo(task[w], w, o))]
  /\ response' = [response EXCEPT ![w] = None]
  /\ Goto(w, "top")

\* Mutant of FinishAndRestart: the loop is left without asking for a restart.
FinishAndRestart_Silent(w, o) ==
  /\ RunTask(w, o) /\ LimitHit(w, o) /\ o # "exit"
  /\ response' = [response EXCEPT ![w] = AnswerTo(task[w], w, o)]
  /\ Goto(w, "quit")
  /\ UNCHANGED outbox

\* Mutant of FinishAndRestart: the answer is put on the bus here as well, as in
\* FinishAndContinue.
FinishAndRestart_AnnouncesTwice(w, o) ==
  /\ RunTask(w, o) /\ LimitHit(w, o) /\ o # "exit"
  /\ response' = [response EXCEPT ![w] =
                    AddFlag(AnswerTo(task[w], w, o), "RESTART")]
  /\ outbox' = [outbox EXCEPT ![w] =
                  Append(@, AddFlag(AnswerTo(task[w], w, o), "RESTART"))]
  /\ Goto(w, "quit")

FinishAndRestart(w, o) ==
  /\ RunTask(w, o) /\ LimitHit(w, o) /\ o # "exit"
  /\ response' = [response EXCEPT ![w] =
                    AddFlag(AnswerTo(task[w], w, o), "RESTART")]
  /\ Goto(w, "quit")
  /\ UNCHANGED outbox

\* None.add_flag raises an AttributeError in the place of the SystemExit.
FinishAndFail(w, o) ==
  /\ RunTask(w, o) /\ LimitHit(w, o) /\ o = "exit"
  /\ response' = [response EXCEPT ![w] =
                    Action({"CLOSE", "FATAL_ERROR"}, NoTask, w)]
  /\ Goto(w, "quit")
  /\ UNCHANGED outbox

\* None is put on the bus and the process ends; both events stay set.
FinishAndExit(w, o) ==
  /\ RunTask(w, o) /\ ~LimitHit(w, o) /\ o = "exit"
  /\ outbox' = [outbox EXCEPT ![w] = Append(@, None)]
  /\ Goto(w, "flush")
  /\ UNCHANGED response

\* The end of _run: idle.clear(), running.clear(), the last response.
Quit(w) ==
  /\ pc[w] = "quit"
  /\ idle' = [idle EXCEPT ![w] = FALSE]
  /\ running' = [running EXCEPT ![w] = FALSE]
  /\ outbox' = [outbox EXCEPT ![w] =
                  IF response[w] = None THEN @ ELSE Append(@, response[w])]
  /\ response' = [response EXCEPT ![w] = None]
  /\ Goto(w, "flush")
  /\ UNCHANGED <<busVars, future, inited, thread, task, countVars, seen,
                 counter>>

-----------------------------------------------------------------------------
(***************************************************************************)
(* The feeder thread of the response bus, see ProcessQueue.                *)
(***************************************************************************)
CanBePickled(r) == ~(r.task \in Unsendable /\ Match(r, {"DONE"}))

Alive(w) == ThreadAlive(w)

SendAnswer(w) ==
  /\ Alive(w) /\ outbox[w] # <<>> /\ CanBePickled(Head(outbox[w]))
  /\ responseBus' = Append(responseBus, Head(outbox[w]))
  /\ outbox' = [outbox EXCEPT ![w] = Tail(@)]
  /\ UNCHANGED <<taskBus, requestBus, future, flagVars, task, response,
                 countVars, seen, counter>>

\* The answer is dropped; on the way out of the process, perhaps with all
\* that follow it.
DropAnswer(w) ==
  /\ Alive(w) /\ outbox[w] # <<>> /\ ~CanBePickled(Head(outbox[w]))
  /\ \/ outbox' = [outbox EXCEPT ![w] = Tail(@)]
     \/ pc[w] = "flush" /\ outbox' = [outbox EXCEPT ![w] = <<>>]
  /\ UNCHANGED <<busVars, future, flagVars, task, response, countVars, seen,
                 counter>>

\* Mutant of EndProcess: the process does not wait for its feeder.
EndProcess_NoFlush(w) ==
  /\ pc[w] = "flush"
  /\ Goto(w, "ended")
  /\ outbox' = [outbox EXCEPT ![w] = <<>>]
  /\ UNCHANGED <<busVars, future, running, idle, inited, thread, task,
                 response, countVars, seen, counter>>

\* The process ends once its feeder has seen everything.
EndProcess(w) ==
  /\ pc[w] = "flush" /\ outbox[w] = <<>>
  /\ Goto(w, "ended")
  /\ UNCHANGED <<busVars, future, running, idle, inited, thread,
                 workerLocals, counter>>

\* The process is killed, with no lock of a queue in its hands: events and
\* the counter stay as they are; its task and its answers are gone.
Crash(w) ==
  /\ w \in MayCrash /\ Alive(w)
  /\ Goto(w, "died")
  /\ task' = [task EXCEPT ![w] = NoTask]
  /\ response' = [response EXCEPT ![w] = None]
  /\ seen' = [seen EXCEPT ![w] = 0]
  /\ outbox' = [outbox EXCEPT ![w] = <<>>]
  /\ UNCHANGED <<busVars, future, running, idle, inited, thread, countVars,
                 counter>>

\* A step of the process other than taking a task, giving up or dying.
WorkerStep(w) ==
  \/ Boot(w) \/ HandleRequest(w) \/ NoRequest(w) \/ CheckRunning(w)
  \/ GetEmpty(w) \/ LoadCounter(w) \/ StoreCounter(w) \/ BeginTask(w)
  \/ \E o \in Outcomes : \/ FinishAndContinue(w, o) \/ FinishAndRestart(w, o)
                         \/ FinishAndFail(w, o) \/ FinishAndExit(w, o)
  \/ Quit(w) \/ EndProcess(w)

FeederStep(w) == SendAnswer(w) \/ DropAnswer(w)

ProcessWorkerTypeOK ==
  /\ task \in [Workers -> Tasks \cup {NoTask}]
  /\ response \in [Workers -> Responses]
  /\ taskCount \in [Workers -> Nat]
  /\ errCount \in [Workers -> Nat]
  /\ consErrCount \in [Workers -> Nat]
  /\ seen \in [Workers -> CounterValues]
  /\ outbox \in [Workers -> Seq(Responses)]

=============================================================================
