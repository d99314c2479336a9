----------------------------- MODULE ManagerInv ------------------------------
(***************************************************************************)
(* The parts of the inductive invariants that speak of ThreadManager only, *)
(* whatever its workers are made of: what it holds, and how it stops them. *)
(***************************************************************************)
EXTENDS ThreadManager

\* The manager asks a worker for nothing but to close.
RequestsClose ==
  \A w \in Workers : \A i \in DOMAIN requestBus[w] :
    requestBus[w][i].flag = {"CLOSE"}

\* A task a client is about to queue is new, and no other client's.
QueuedIsNew ==
  /\ \A t \in currTasks : Submitted(t)
  /\ \A c \in Clients : cpc[c] = "queue" => /\ cTask[c] \in Tasks
                                            /\ future[cTask[c]] = "unsubmitted"
  /\ \A c, d \in Clients : cTask[c] = cTask[d] => c = d \/ cTask[c] = NoTask

\* Worker objects are numbered in the order of their creation.
WorkersNumbered ==
  /\ \A w \in Workers : w >= nextWorker => pc[w] = "unborn"
  /\ \A w \in currWorkers \cup todo : w < nextWorker
  /\ handled < nextWorker
  /\ \A w \in Workers : w < nextWorker => pc[w] # "unborn"

\* A thread that runs is one that `_thread` holds.
ThreadsHeld == \A w \in Workers : ThreadAlive(w) => thread[w]

\* The manager has waited for the thread of the worker it is to start.
HandledOK ==
  /\ mpc \in {"stop1", "stop2", "stop3", "join", "stopped", "start", "spin"}
       => handled \in Workers
  /\ mpc \in {"stopped", "start"} => ~ThreadAlive(handled)
  /\ mpc = "start" => ~thread[handled]

ManagerOK ==
  RequestsClose /\ QueuedIsNew /\ WorkersNumbered /\ ThreadsHeld /\ HandledOK

\* The control points of the manager in each phase.
PhaseOK ==
  /\ phase = "halt" => mpc \in {"close", "halt", "stop1", "stop2", "stop3",
                                "join", "stopped", "ended", "dead", "killed"}
  /\ mpc \in {"close", "halt"} => phase = "halt"

-----------------------------------------------------------------------------
(***************************************************************************)
(* One client, and a manager that leaves its loop only when it is told to: *)
(* behind its loop nobody adds a task or a worker.                         *)
(***************************************************************************)
Submitting == {"queue", "adjust", "count", "scan", "spawn", "spin"}

Calm == Clients = {Owner} /\ ~ManagerTimesOut

\* The manager's calls of worker.stop() in _stop_all_workers.
Halting   == {"stop1", "stop2", "stop3", "join", "stopped", "halt", "ended"}
Halted(w) == w # handled \/ mpc \in {"stopped", "halt", "ended"}

QuietEnd ==
  /\ ~mRunning => cpc[Owner] \notin Submitting
  /\ mpc = "down" \/ phase # "loop" => ~mRunning
  /\ phase = "halt" =>
       /\ todo \subseteq currWorkers /\ todoSize = Cardinality(currWorkers)
       /\ mpc \in Halting =>
            \A w \in currWorkers \ todo : Halted(w) => ~ThreadAlive(w)
       /\ mpc = "ended" => todo = {}

\* The first control points of the manager, and its last.
EndsOK ==
  /\ mpc \in {"unborn", "boot"} => phase = "loop"
  /\ mpc = "ended" => phase = "halt"

=============================================================================
