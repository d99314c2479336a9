----------------------------- MODULE PoolState ------------------------------
(***************************************************************************)
(* What the threads of one pool share: the three kinds of bus, the state   *)
(* flags of every worker (base.WorkerState) and the futures.  Each of the  *)
(* threads (clients, the manager's thread, one thread per worker) is       *)
(* modelled in a module of its own on top of this one.                     *)
(*                                                                         *)
(* The interpreter executes one bytecode at a time, so a read or a write   *)
(* of one attribute, and a call of a SimpleQueue method, is atomic.        *)
(***************************************************************************)
EXTENDS PoolBase, Sequences

CONSTANTS Tasks,       \* names of the tasks that are ever submitted
          NoTask,      \* None where a task or its name is expected
          MaxWorkers   \* bound: how many worker objects a behaviour creates

ASSUME PoolStateAssumption == NoTask \notin Tasks /\ MaxWorkers \in Nat

\* Workers are named by the manager's worker_seq.
Workers  == 0 .. (MaxWorkers - 1)
NoWorker == -1

VARIABLES
  taskBus,      \* manager._task_bus: tasks that no worker has taken
  responseBus,  \* manager._response_bus: actions for the manager
  requestBus,   \* worker.spec.request_bus: actions for one worker
  future,       \* state of the Future of each task
  running,      \* worker._state.running
  idle,         \* worker._state.idle
  inited,       \* worker._state.inited
  thread,       \* worker._thread is not None
  pc            \* control point of the worker's thread

busVars  == <<taskBus, responseBus, requestBus>>
flagVars == <<running, idle, inited, thread, pc>>
poolVars == <<busVars, future, flagVars>>

(***************************************************************************)
(* A base.Action without its payload.  None stands for Python's None: no   *)
(* action of the code has the empty flag.                                  *)
(***************************************************************************)
Action(flag, t, w) == [flag |-> flag, task |-> t, worker |-> w]
None      == Action({}, NoTask, NoWorker)
Responses == [flag : SUBSET Flags, task : Tasks \cup {NoTask},
              worker : Workers \cup {NoWorker}]

(***************************************************************************)
(* The states of a concurrent.futures.Future.  The code never calls        *)
(* set_running_or_notify_cancel, so a future stays "pending" while its     *)
(* task runs.  "rejected": submit() raised before it made a future.        *)
(***************************************************************************)
FutureStates == {"unsubmitted", "rejected", "pending",
                 "cancelled", "result", "exception"}
Resolved(t)  == future[t] \in {"cancelled", "result", "exception"}
Submitted(t) == future[t] \notin {"unsubmitted", "rejected"}

\* A future takes a result or an exception once, while it is pending; after
\* that set_result and set_exception raise InvalidStateError.
Settable(t) == future[t] = "pending"

\* Future.cancel(): takes effect only while the future is pending.
CancelFuture(t) ==
  /\ future[t] = "pending"
  /\ future' = [future EXCEPT ![t] = "cancelled"]

\* BaseWorker.is_idle of a worker object.
IsIdle(w) == running[w] /\ idle[w]

\* worker._thread.is_alive(): "died" is a thread ended by a BaseException.
ThreadAlive(w) == pc[w] \notin {"unborn", "ended", "died"}

\* worker.start(): the new thread begins at "boot"; the caller then waits
\* until `inited` is set, which nothing ever clears.
StartThread(w) ==
  /\ thread' = [thread EXCEPT ![w] = TRUE]
  /\ pc' = [pc EXCEPT ![w] = "boot"]

PoolStateInit ==
  /\ taskBus = <<>>
  /\ responseBus = <<>>
  /\ requestBus = [w \in Workers |-> <<>>]
  /\ future = [t \in Tasks |-> "unsubmitted"]
  /\ running = [w \in Workers |-> FALSE]
  /\ idle = [w \in Workers |-> FALSE]
  /\ inited = [w \in Workers |-> FALSE]
  /\ thread = [w \in Workers |-> FALSE]
  /\ pc = [w \in Workers |-> "unborn"]

PoolStateTypeOK ==
  /\ taskBus \in Seq(Tasks)
  /\ responseBus \in Seq(Responses)
  /\ requestBus \in [Workers -> Seq(Responses)]
  /\ future \in [Tasks -> FutureStates]
  /\ running \in [Workers -> BOOLEAN]
  /\ idle \in [Workers -> BOOLEAN]
  /\ inited \in [Workers -> BOOLEAN]
  /\ thread \in [Workers -> BOOLEAN]
  /\ pc \in [Workers -> {"unborn", "boot", "top", "requests", "check", "get",
                         "begin", "refuse", "run", "finally", "quit", "clear",
                         "collect", "wait", "await", "flush", "load", "store",
                         "ended", "died"}]

=============================================================================
