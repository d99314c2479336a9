------------------------------ MODULE AsyncPool ------------------------------
(***************************************************************************)
(* An async pool: an AsyncManager, which is a ThreadManager with another   *)
(* worker class, its workers, the coroutines in their event loops and the  *)
(* client threads, interleaved.                                            *)
(***************************************************************************)
EXTENDS AsyncWorker, ThreadManager

vars == <<poolVars, workerLocals, tableVars, managerVars, clientVars>>

Init == PoolStateInit /\ AsyncWorkerInit /\ ThreadManagerInit

RunWorker(w) ==
  /\ WorkerStep(w)
  /\ UNCHANGED <<tableVars, managerVars, clientVars>>

WorkerGivesUp(w) ==
  /\ TimeOut(w)
  /\ UNCHANGED <<tableVars, managerVars, clientVars>>

EndCoroutine(w, t) ==
  /\ RunCoroutine(w, t) \/ ExitCoroutine(w, t)
  /\ UNCHANGED <<tableVars, managerVars, clientVars>>

RunManager == ManagerStep /\ UNCHANGED workerLocals

ManagerGivesUp ==
  /\ ManagerIdleOut \/ ManagerKilled \/ KilledConsuming
  /\ UNCHANGED workerLocals

RunClient(c)   == ClientStep(c) /\ UNCHANGED workerLocals
ClientCalls(c) == ClientCall(c) /\ UNCHANGED workerLocals

CancelTask == (\E t \in Tasks : Cancel(t)) /\ UNCHANGED workerLocals

\* Every thread of the pool has ended and no call is in progress, but for a
\* submit() that the bound MaxWorkers holds up.
Terminated ==
  /\ mpc # "unborn" /\ ~ManagerAlive
  /\ \A w \in Workers : ~ThreadAlive(w)
  /\ \A c \in Clients : \/ cpc[c] = "idle"
                        \/ cpc[c] = "spawn" /\ nextWorker = MaxWorkers
  /\ UNCHANGED vars

Next ==
  \/ \E w \in Workers : RunWorker(w) \/ WorkerGivesUp(w)
  \/ \E w \in Workers, t \in Tasks : EndCoroutine(w, t)
  \/ RunManager \/ ManagerGivesUp
  \/ \E c \in Clients : RunClient(c) \/ ClientCalls(c)
  \/ CancelTask
  \/ Terminated

Spec == Init /\ [][Next]_vars

(***************************************************************************)
(* The scheduler runs every thread, as in ThreadPool; the event loop       *)
(* resumes every coroutine again and again, each time _async_run awaits,   *)
(* and the functions of the tasks come to an end.                          *)
(***************************************************************************)
Fairness ==
  /\ \A w \in Workers : WF_vars(RunWorker(w))
  /\ \A w \in Workers, t \in Tasks : SF_vars(EndCoroutine(w, t))
  /\ WF_vars(RunManager)
  /\ \A c \in Clients : WF_vars(RunClient(c))

FairSpec == Spec /\ Fairness

\* As FairSpec, and a worker that stays without a task gives up some time.
TimedSpec == FairSpec /\ \A w \in Workers : SF_vars(WorkerGivesUp(w))

-----------------------------------------------------------------------------
\* The type of every variable.
TypeOK ==
  /\ PoolStateTypeOK /\ AsyncWorkerTypeOK
  /\ TableTypeOK /\ ManagerTypeOK /\ ClientTypeOK

(***************************************************************************)
(* Where a task is: on the task bus, in a coroutine, in an answer that the *)
(* worker has not collected, or in an answer on its way to the manager.    *)
(***************************************************************************)
Positions(s, Test(_)) == {i \in DOMAIN s : Test(s[i])}

Waiting(t)      == Positions(taskBus, LAMBDA u : u = t)
RunBy(w, t)     == Positions(active[w], LAMBDA u : u = t)
Answered(w, t)  == Positions(finished[w], LAMBDA r : EndsTask(r) /\ r.task = t)
Reported(t)     == Positions(responseBus, LAMBDA r : EndsTask(r) /\ r.task = t)

Places(t) ==
  ({"task_bus"} \X {NoWorker} \X Waiting(t))
    \cup ({"response_bus"} \X {NoWorker} \X Reported(t))
    \cup (UNION {{"coroutine"} \X {w} \X RunBy(w, t) : w \in Workers})
    \cup (UNION {{"answer"} \X {w} \X Answered(w, t) : w \in Workers})

AtMostOne(S) == \A x, y \in S : x = y

\* A task is in one place at a time, and the manager has its entry as long as
\* it is in one: no interleaving runs a task in two event loops, and without
\* limits no end is reported twice.
TaskInOnePlace ==
  \A t \in Tasks : AtMostOne(Places(t)) /\ (Places(t) # {} => t \in currTasks)

\* The manager keeps no entry for a task whose answer was lost: it could never
\* become idle.  It relies on _async_run: every answer is collected in the
\* loop or put on the bus behind it.  Only a manager that is killed drops one.
NoAnswerLost ==
  mpc # "killed" => \A t \in currTasks : Places(t) # {}

\* A task that was accepted and not resolved waits on the bus or runs in an
\* event loop that still turns: a worker that ends, for whichever reason, ends
\* after its coroutines.
PendingIsHeld ==
  \A t \in Tasks :
    future[t] = "pending" =>
      \/ Waiting(t) # {}
      \/ \E w \in Workers : RunBy(w, t) # {} /\ ThreadAlive(w)

\* A worker that counts as idle has nothing to run and nothing to answer,
\* except between the get and `state.idle = False`.
IdleIsFree ==
  \A w \in Workers : IsIdle(w) /\ pc[w] # "begin" => CurrCoroutines(w) = 0

\* When stop() has returned normally and the manager ended by itself, no event
\* loop is left but one whose CLOSE the manager has taken and that has nothing
\* to do any more (one client only, so that no submit() overlaps).
StopEndsWorkers ==
  stopResult = "stopped" /\ mpc = "ended" =>
    \A w \in Workers :
      ThreadAlive(w) => pc[w] = "flush" /\ CurrCoroutines(w) = 0

\* The async pool implements TaskContract: tasks are started in order, at most
\* once, and each future is resolved once.
Contract == INSTANCE TaskContract WITH
              queue     <- taskBus,
              executing <- UNION {ToSet(active[w]) \cup abandoned[w] :
                                    w \in Workers},
              known     <- currTasks,
              Aborts    <- Outcomes \cap {"exit", "cancel"} # {},
              Losses    <- FALSE
ImplementsContract == Contract!Spec

\* Every accepted task ends and its end reaches the manager, unless the
\* manager leaves its loop: it is stopped, or was idle for too long.
AcceptedIsForgotten ==
  \A t \in Tasks : (t \in currTasks) ~> (t \notin currTasks \/ ~mRunning)

\* stop() comes to its end, whatever the coroutines were doing.
StopCallEnds == (cpc[Owner] = "stop2") ~> (cpc[Owner] = "idle")

=============================================================================
