----------------------------- MODULE ThreadPool -----------------------------
(***************************************************************************)
(* A thread pool: one ThreadManager, its workers and the client threads    *)
(* that call it, interleaved.                                              *)
(***************************************************************************)
EXTENDS ThreadWorker, ThreadManager

vars == <<poolVars, workerLocals, tableVars, managerVars, clientVars>>

Init == PoolStateInit /\ ThreadWorkerInit /\ ThreadManagerInit

RunWorker(w) ==
  /\ WorkerStep(w)
  /\ UNCHANGED <<tableVars, managerVars, clientVars>>

WorkerGivesUp(w) ==
  /\ TimeOut(w)
  /\ UNCHANGED <<tableVars, managerVars, clientVars>>

RunManager == ManagerStep /\ UNCHANGED workerLocals

ManagerGivesUp ==
  /\ ManagerIdleOut \/ ManagerKilled \/ KilledConsuming
  /\ UNCHANGED workerLocals

RunClient(c)  == ClientStep(c) /\ UNCHANGED workerLocals
ClientCalls(c) == ClientCall(c) /\ UNCHANGED workerLocals

CancelTask == (\E t \in Tasks : Cancel(t)) /\ UNCHANGED workerLocals

\* Every thread of the pool has ended and no call is in progress, but for a
\* submit() that the bound MaxWorkers holds up.
Terminated ==
  /\ mpc # "unborn" /\ ~ManagerAlive
  /\ \A w \in Workers : ~ThreadAlive(w)
  /\ \A c \in Clients : \/ cpc[c] = "idle"
                        \/ cpc[c] = "spawn" /\ nextWorker = MaxWorkers
  /\ UNCHANGED vars

Next ==
  \/ \E w \in Workers : RunWorker(w) \/ WorkerGivesUp(w)
  \/ RunManager \/ ManagerGivesUp
  \/ \E c \in Clients : RunClient(c) \/ ClientCalls(c)
  \/ CancelTask
  \/ Terminated

Spec == Init /\ [][Next]_vars

(***************************************************************************)
(* The scheduler runs every thread again and again, and a thread that is   *)
(* not blocked gets on.  Nothing forces a client to begin a call, a clock  *)
(* to expire or a future to be cancelled.                                  *)
(***************************************************************************)
Fairness ==
  /\ \A w \in Workers : WF_vars(RunWorker(w))
  /\ WF_vars(RunManager)
  /\ \A c \in Clients : WF_vars(RunClient(c))

FairSpec == Spec /\ Fairness

\* As FairSpec, and a worker that stays without a task gives up some time.
TimedSpec == FairSpec /\ \A w \in Workers : SF_vars(WorkerGivesUp(w))

-----------------------------------------------------------------------------
\* The type of every variable.
TypeOK ==
  /\ PoolStateTypeOK /\ ThreadWorkerTypeOK
  /\ TableTypeOK /\ ManagerTypeOK /\ ClientTypeOK

(***************************************************************************)
(* A task is in one place at a time: on the task bus, in the hands of a    *)
(* worker, in the answer a worker prepares, or in an answer on its way to  *)
(* the manager.                                                            *)
(***************************************************************************)
Reports(r, t) == EndsTask(r) /\ r.task = t

Waiting(t)   == {i \in DOMAIN taskBus : taskBus[i] = t}
BeingRun(t)  == {w \in Workers : task[w] = t}
Answering(t) == {w \in Workers : Reports(response[w], t)}
Reported(t)  == {i \in DOMAIN responseBus : Reports(responseBus[i], t)}

AtMostOne(S) == \A x, y \in S : x = y

\* No interleaving duplicates a task: it never waits twice, is never run by
\* two workers, and its end is reported once (task_bus, _run_core).
TaskInOnePlace ==
  \A t \in Tasks :
    /\ AtMostOne(Waiting(t)) /\ AtMostOne(BeingRun(t))
    /\ AtMostOne(Answering(t)) /\ AtMostOne(Reported(t))
    /\ Waiting(t) # {} => BeingRun(t) \cup Answering(t) \cup Reported(t) = {}
    /\ BeingRun(t) # {} => Answering(t) \cup Reported(t) = {}
    /\ Answering(t) # {} => Reported(t) = {}

\* Wherever a task is, the manager still has its entry, so that the pop of
\* _curr_tasks in _consume_response finds it.
TasksTracked ==
  \A t \in Tasks :
    Waiting(t) \cup BeingRun(t) \cup Answering(t) \cup Reported(t) # {}
      => t \in currTasks

\* The manager forgets a task only once its future is resolved: what the
\* idle test of _run (`not curr_tasks`) relies on.
ForgottenResolved ==
  \A t \in Tasks : Submitted(t) /\ t \notin currTasks => Resolved(t)

(***************************************************************************)
(* Workers that end.                                                       *)
(***************************************************************************)
Exits(r)     == Closes(r) \/ Restarts(r)
ExitsOf(w)   == {i \in DOMAIN responseBus :
                   Exits(responseBus[i]) /\ responseBus[i].worker = w}
Restarting   == phase # "halt" /\ mpc \in {"stop1", "stop2", "stop3", "join",
                                           "stopped", "start"}

\* Until the manager stops all workers: a worker announces its end once, when
\* it is about to end, and the manager still knows it.  The pop and the lookup
\* in _curr_workers find it, and the restarted worker is never taken for ended
\* because of an answer from its past.
ExitsTracked ==
  phase # "halt" =>
    /\ \A w \in Workers :
         /\ AtMostOne(ExitsOf(w))
         /\ ExitsOf(w) # {} => /\ w \in currWorkers
                               /\ pc[w] \in {"clear", "ended"} /\ ~running[w]
    /\ Restarting => /\ handled \in currWorkers /\ ExitsOf(handled) = {}
                     /\ pc[handled] \in {"clear", "ended"} /\ ~running[handled]

\* No answer makes the manager pop an entry it does not have: it never dies
\* of a KeyError.
PopsAreSafe == death # "KeyError"

\* worker.stop() of a restart leaves the worker in a state from which
\* worker.start() neither raises nor gives the object a second thread.
RestartNeverRaises ==
  mpc = "start" => ~running[handled] /\ ~thread[handled] /\ ~ThreadAlive(handled)

\* Every worker whose thread runs tasks is in _curr_workers, or its CLOSE is
\* on the way: _stop_all_workers misses none.
WorkersKnown ==
  \A w \in Workers : pc[w] \notin {"unborn", "clear", "ended", "died"}
                       => w \in currWorkers

\* A worker that has used up one of its limits takes no further task until
\* it is started anew (the finally clause of _run_core).
UsedUp(w) ==
  \/ MaxTaskCount > 0 /\ taskCount[w] >= MaxTaskCount
  \/ MaxErrCount > 0 /\ errCount[w] >= MaxErrCount
  \/ MaxConsErrCount > 0 /\ consErrCount[w] >= MaxConsErrCount
LimitsRespected ==
  \A w \in Workers : pc[w] \in {"top", "requests", "check", "get", "begin", "run"}
                       => ~UsedUp(w)

\* Only these two make an answer of a worker be None, and a task end without one.
MayFault == Cancellable # {} \/ "exit" \in Outcomes

\* The manager's thread dies in one way whatever happens: worker.stop() finds a
\* thread that the ending worker has just replaced by None.  An answer of None
\* needs a fault, and a dictionary that changes under its iteration needs a
\* submit() that is late: that of another client, or of one that met an idle
\* manager on its way out.
DiesOnlyInStop ==
  mpc = "dead" =>
    \/ /\ death = "AttributeError"
       /\ handled \in Workers /\ pc[handled] = "ended" /\ ~thread[handled]
    \/ death = "AttributeError" /\ MayFault
    \/ death = "RuntimeError" /\ (Clients # {Owner} \/ ManagerTimesOut)

\* When stop() has returned normally and the manager ended by itself, no
\* worker thread is left, but one that gave up, whose CLOSE the manager has
\* taken, may still be about to clear `_thread` (one client only, so that no
\* submit() overlaps).
MayGiveUp == WorkerTimesOut \/ MayFault
StopEndsWorkers ==
  stopResult = "stopped" /\ mpc = "ended" =>
    \A w \in Workers :
      ThreadAlive(w) => MayGiveUp /\ pc[w] = "clear" /\ w \notin currWorkers

\* The pool implements TaskContract: in particular no order of steps runs a
\* task twice, runs tasks out of order or resolves a future twice.
Contract == INSTANCE TaskContract WITH
              queue     <- taskBus,
              executing <- {task[w] : w \in Workers} \ {NoTask},
              known     <- currTasks,
              Aborts    <- "exit" \in Outcomes,
              Losses    <- FALSE
ImplementsContract == Contract!Spec

\* Every accepted task is eventually resolved, unless the manager's thread
\* ends, stopped or dead.
AcceptedResolves ==
  \A t \in Tasks : (future[t] = "pending") ~> (Resolved(t) \/ ~ManagerAlive)

\* stop() comes to its end, whatever the workers were doing.
StopCallEnds == (cpc[Owner] = "stop2") ~> (cpc[Owner] = "idle")

-----------------------------------------------------------------------------
(***************************************************************************)
(* What README.rst says and the code does not do: it is violated.          *)
(***************************************************************************)

\* README.rst: "all futures can be get either synchronously or
\* asynchronously".
AllFuturesResolve ==
  \A t \in Tasks : (future[t] = "pending") ~> Resolved(t)

=============================================================================
