---------------------------- MODULE ProcessPool -----------------------------
(***************************************************************************)
(* A process pool: one ProcessManager, the processes of its workers and    *)
(* the client threads that call it, interleaved.                           *)
(***************************************************************************)
EXTENDS ProcessWorker, ProcessManager

vars == <<poolVars, workerLocals, tableVars, managerVars, clientVars,
          ownVars>>

Init == ProcessStateInit /\ ProcessWorkerInit /\ ProcessManagerInit

MainUnchanged == UNCHANGED <<tableVars, managerVars, clientVars, cSeen, received>>

RunWorker(w)     == WorkerStep(w) /\ MainUnchanged
TakeTask(w)      == GetTask(w) /\ MainUnchanged
RunFeeder(w)     == FeederStep(w) /\ MainUnchanged
WorkerGivesUp(w) == TimeOut(w) /\ MainUnchanged
WorkerCrashes(w) == Crash(w) /\ MainUnchanged

RunManager == ProcessManagerStep /\ UNCHANGED workerLocals

\* A thread that waits in get() is not killed before get() returns.
Draining == mpc = "receive" /\ phase = "drain" /\ responseBus = <<>>

ManagerGivesUp ==
  /\ ManagerIdleOut \/ (ManagerKilled /\ ~Draining)
  /\ UNCHANGED <<workerLocals, ownVars>>

RunClient(c)   == ProcessClientStep(c) /\ UNCHANGED workerLocals
ClientCalls(c) == ClientCall(c) /\ UNCHANGED <<workerLocals, ownVars>>
CancelTask     == /\ \E t \in Tasks : Cancel(t)
                  /\ UNCHANGED <<workerLocals, ownVars>>

Next ==
  \/ \E w \in Workers : \/ RunWorker(w) \/ TakeTask(w) \/ RunFeeder(w)
                        \/ WorkerGivesUp(w) \/ WorkerCrashes(w)
  \/ RunManager \/ ManagerGivesUp
  \/ \E c \in Clients : RunClient(c) \/ ClientCalls(c)
  \/ CancelTask

Spec == Init /\ [][Next]_vars

(***************************************************************************)
(* Every thread and process is run again and again; a worker that asks for *)
(* a task again and again gets one (ObjectsArrive of ProcessQueue).        *)
(***************************************************************************)
Fairness ==
  /\ \A w \in Workers : /\ WF_vars(RunWorker(w)) /\ SF_vars(TakeTask(w))
                        /\ WF_vars(RunFeeder(w))
  /\ WF_vars(RunManager)
  /\ \A c \in Clients : WF_vars(RunClient(c))

FairSpec == Spec /\ Fairness

-----------------------------------------------------------------------------
\* The type of every variable; the counter wraps and never leaves its range.
TypeOK ==
  ProcessStateTypeOK /\ ProcessWorkerTypeOK /\ ProcessManagerTypeOK

Reports(r, t) == EndsTask(r) /\ r.task = t
AtMostOne(S)  == \A x, y \in S : x = y

Waiting(t)   == {i \in DOMAIN taskBus : taskBus[i] = t}
BeingRun(t)  == {w \in Workers : task[w] = t}
Answering(t) == {w \in Workers : Reports(response[w], t)}
Leaving(t)   == UNION {{w} \X {i \in DOMAIN outbox[w] : Reports(outbox[w][i], t)}
                         : w \in Workers}
Reported(t)  == {i \in DOMAIN responseBus : Reports(responseBus[i], t)}

\* The manager has taken the answer to a task off the bus, and has not set the
\* future; a manager that is killed over it never will.
InHand(t) ==
  /\ mpc \in {"pop", "set", "killed"} /\ Reports(received, t)
  /\ future[t] \in {"pending", "cancelled"}
Taken(t) == {point \in {"pop", "set"} : mpc = point /\ InHand(t)}

\* The tasks in the manager's hands, and those it keeps account of.
Held  == {t \in Tasks : Taken(t) # {}}
Known == currTasks \cup Held

\* Where a task is: an answer of it is prepared, in a worker's buffer, on its
\* way to the manager, or in the manager's hands.
Places(t) == <<Waiting(t), BeingRun(t), Answering(t), Leaving(t), Reported(t),
               Taken(t)>>

\* No interleaving duplicates a task, whatever dies: it waits, is run, or its
\* end is reported, in one place (task_bus, _run_core, response_bus).
TaskInOnePlace ==
  \A t \in Tasks :
    \A i, j \in 1 .. 6 :
      /\ AtMostOne(Places(t)[i])
      /\ i # j => Places(t)[i] = {} \/ Places(t)[j] = {}

Somewhere(t) == \E i \in 1 .. 6 : Places(t)[i] # {}

\* The drain of _run waits for exactly the tasks that can still be answered:
\* wherever a task is, the manager has its entry or is about to set its future;
\* and a task that has left the table has a future that is resolved, or is the
\* one over which the manager was killed.
AccountsAgree ==
  \A t \in Tasks :
    /\ Somewhere(t) => t \in currTasks \/ (mpc = "set" /\ InHand(t))
    /\ Submitted(t) /\ t \notin currTasks => Resolved(t) \/ InHand(t)

\* The faults that may take the answer of a task away.  A result that cannot be
\* pickled may take along those behind it; terminate() may take the answer that
\* the manager has in its hands.
AnswerLost(t) ==
  \/ \E w \in Workers : pc[w] = "died"
  \/ Unsendable # {} \/ t \in Unloadable
  \/ "exit" \in Outcomes
  \/ mpc = "killed" /\ InHand(t)

\* A task that is not resolved is on the bus, in a worker, in an answer or in
\* the manager's hands: the wait of the drain is in vain only after a fault.
PendingIsSomewhere ==
  \A t \in Tasks : future[t] = "pending" => Somewhere(t) \/ AnswerLost(t)

(***************************************************************************)
(* Workers that end.                                                       *)
(***************************************************************************)
Exits(r)   == Closes(r) \/ Restarts(r)
Announces(bus, w) == {i \in DOMAIN bus : Exits(bus[i]) /\ bus[i].worker = w}

\* The end of a worker that the manager has taken off the bus, until it has
\* popped the worker or restarted it.
Handling   == mpc \in {"pop", "set", "handle"}
Restarting == phase # "halt" /\ mpc \in {"stop1", "join", "stopped", "start"}
Attended   == IF Handling THEN received.worker ELSE handled
Attending  == Restarting \/ (Handling /\ Exits(received))

\* Until the manager stops all workers, a worker announces its end once, past
\* its loop, and the manager knows it: neither the pop nor the lookup in
\* _curr_workers fails, and no answer from the past of a restarted worker is
\* left in the buffer of the process that has ended.
ExitsTracked ==
  phase # "halt" =>
    \A w \in Workers :
      LET announced == Announces(responseBus, w)
          prepared  == Announces(outbox[w], w)
          attended  == Attending /\ Attended = w
      IN  /\ AtMostOne(announced) /\ AtMostOne(prepared)
          /\ announced = {} \/ prepared = {}
          /\ announced \cup prepared # {} => ~attended
          /\ announced \cup prepared # {} \/ attended =>
               /\ w \in currWorkers
               /\ pc[w] \in {"flush", "ended", "died"} /\ ~running[w]

\* The manager's thread dies of what becomes of a task only: its future was
\* cancelled, its function raised SystemExit, its answer cannot be loaded.
\* Worker processes that are killed, restarted or late never make it raise.
\* With one client a submit() overlaps the end of the manager, and changes the
\* table it iterates over, only when the manager gave up for idleness.
DiesOfTasksOnly ==
  mpc = "dead" =>
    \/ death = "InvalidStateError" /\ \E t \in Tasks : future[t] = "cancelled"
    \/ death = "AttributeError" /\ "exit" \in Outcomes
    \/ death = "RuntimeError" /\ ManagerTimesOut /\ phase = "halt"
    \/ death = "TypeError" /\ \E t \in Unloadable : t \in currTasks

\* Whatever the counter says, num_workers is not exceeded (one client).
WorkerLimit == NumWorkers >= 0 => Cardinality(currWorkers) <= NumWorkers

\* manager.py:134, "to make sure all processes' result be captured": when
\* stop() has returned and the manager ended by itself, every accepted task is
\* resolved and no worker process is left but on its way out (one client, no
\* idle manager).
StopIsComplete ==
  stopResult = "stopped" /\ mpc = "ended" =>
    /\ \A t \in Tasks : future[t] # "pending"
    /\ \A w \in Workers : ThreadAlive(w) => pc[w] = "flush" /\ outbox[w] = <<>>

\* The pool implements TaskContract.  A task is being executed until the
\* manager sets its future, and known until then; terminate() may kill the
\* manager with the answer in its hands, and then the task is lost.
InProgress(t) == BeingRun(t) \cup Answering(t) \cup Leaving(t)
                   \cup Reported(t) \cup Taken(t) # {}
Contract == INSTANCE TaskContract WITH
              queue     <- taskBus,
              executing <- {t \in Tasks : InProgress(t)},
              known     <- Known,
              Aborts    <- \/ "exit" \in Outcomes \/ MayCrash # {}
                           \/ Unsendable \cup Unloadable # {},
              Losses    <- "terminate" \in OwnerMay
ImplementsContract == Contract!Spec

(***************************************************************************)
(* A process that comes and goes before start() looks at its event again:  *)
(* start() waits for ever.                                                 *)
(***************************************************************************)
Missed(w) == pc[w] \in {"flush", "ended", "died"} /\ ~running[w]
StartMissed ==
  \/ mpc = "spin" /\ Missed(handled)
  \/ \E c \in Clients : cpc[c] = "spin" /\ Missed(cWorker[c])

NoHope == mpc = "dead" \/ (\E t \in Tasks : AnswerLost(t)) \/ StartMissed

\* Every accepted task is resolved, through restarts of its workers and also
\* when stop() comes in between, unless one of the faults of the pool occurs.
AcceptedResolves ==
  \A t \in Tasks : (future[t] = "pending") ~> (Resolved(t) \/ NoHope)

\* stop() comes to its end, behind the drain and the joins of all workers.
StopCallEnds ==
  (cpc[Owner] = "stop2") ~> (cpc[Owner] = "idle" \/ NoHope)

=============================================================================
