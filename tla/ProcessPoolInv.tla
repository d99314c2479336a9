--------------------------- MODULE ProcessPoolInv ---------------------------
(***************************************************************************)
(* The inductive invariants of ProcessPool from which its safety           *)
(* properties follow: where each worker process is on its way out, where   *)
(* each task is, and what one client and a manager that does not give up   *)
(* may rely on.                                                            *)
(***************************************************************************)
EXTENDS ProcessPool

Past    == {"flush", "ended", "died"}
Working == {"load", "store", "begin", "run"}

\* The control points of the manager in each phase.
PhaseOK ==
  /\ mpc \in {"unborn", "boot"} => phase = "loop"
  /\ mpc \in {"top", "receive", "pop", "set", "handle", "down", "start", "spin"}
       => phase # "halt"
  /\ mpc \in {"close", "halt", "ended"} => phase = "halt"

\* A worker has something to say behind its loop only, in its own name.
AnswersOK ==
  \A w \in Workers :
    response[w] # None => pc[w] = "quit" /\ response[w].worker = w

\* Workers are numbered in the order of their creation; each client starts a
\* worker of its own, which has not run before.
WorkersNumbered ==
  /\ \A w \in Workers : w >= nextWorker => pc[w] = "unborn"
  /\ \A w \in currWorkers : w < nextWorker
  /\ \A c \in Clients : cpc[c] = "launch" =>
       /\ cWorker[c] \in currWorkers /\ pc[cWorker[c]] = "unborn"
       /\ \A d \in Clients : cpc[d] = "launch" /\ cWorker[d] = cWorker[c] => c = d

\* A worker that is not in _curr_workers has not begun, or has said its last.
OthersPast ==
  \A w \in Workers \ currWorkers :
    pc[w] = "unborn" \/ (pc[w] \in Past /\ outbox[w] = <<>>)

\* Until the manager stops all workers, worker._process is there while the
\* process is, and the manager has waited for the process it is to start again.
ProcessesOK ==
  /\ phase # "halt" => \A w \in Workers : ThreadAlive(w) => thread[w]
  /\ mpc \in {"stop1", "join", "stopped", "start", "spin"} => handled \in Workers
  /\ Restarting /\ mpc \in {"stopped", "start"} => ~ThreadAlive(handled)
  /\ mpc = "start" => ~thread[handled]

(***************************************************************************)
(* ExitsTracked, element by element: the end of a worker is the last that  *)
(* it says, and is on the response bus once its buffer is empty.           *)
(***************************************************************************)
Over == {w \in currWorkers : pc[w] \in Past /\ ~running[w]}

EndsListed(bus, boxes, workers) ==
  /\ \A i \in DOMAIN bus :
       Exits(bus[i]) => bus[i].worker \in workers /\ boxes[bus[i].worker] = <<>>
  /\ \A i, j \in DOMAIN bus :
       Exits(bus[i]) /\ Exits(bus[j]) /\ bus[i].worker = bus[j].worker => i = j
  /\ \A w \in Workers : \A i \in DOMAIN boxes[w] :
       Exits(boxes[w][i]) => /\ w \in workers /\ i = Len(boxes[w])
                             /\ boxes[w][i].worker = w

ExitsListed ==
  /\ phase # "halt" => EndsListed(responseBus, outbox, Over)
  /\ Attending => /\ Attended \in Over /\ outbox[Attended] = <<>>
                  /\ EndsListed(responseBus, outbox, Over \ {Attended})

ExitInv ==
  /\ PhaseOK /\ AnswersOK /\ WorkersNumbered /\ OthersPast /\ ProcessesOK
  /\ ExitsListed

-----------------------------------------------------------------------------
\* The task whose end a response reports.
Ended(r) == IF EndsTask(r) THEN r.task ELSE NoTask

(***************************************************************************)
(* TaskInOnePlace and the first part of AccountsAgree, element by element, *)
(* for any contents of the task bus, the hands, answers and buffers of the *)
(* workers, and the response bus.                                          *)
(***************************************************************************)
NoneTwice(bus, hand, answer, box, reply) ==
  /\ \A i, j \in DOMAIN bus : bus[i] = bus[j] => i = j
  /\ \A v, w \in Workers : hand[v] = hand[w] => v = w \/ hand[v] = NoTask
  /\ \A v, w \in Workers : Ended(answer[v]) = Ended(answer[w])
                             => v = w \/ Ended(answer[v]) = NoTask
  /\ \A v, w \in Workers : \A i \in DOMAIN box[v], j \in DOMAIN box[w] :
       Ended(box[v][i]) = Ended(box[w][j])
         => (v = w /\ i = j) \/ Ended(box[v][i]) = NoTask
  /\ \A i, j \in DOMAIN reply : Ended(reply[i]) = Ended(reply[j])
                                  => i = j \/ Ended(reply[i]) = NoTask

WaitsOnly(bus, hand, answer, box, reply) ==
  \A i \in DOMAIN bus :
    /\ \A w \in Workers : /\ bus[i] # hand[w] /\ bus[i] # Ended(answer[w])
                          /\ \A j \in DOMAIN box[w] : bus[i] # Ended(box[w][j])
    /\ \A j \in DOMAIN reply : bus[i] # Ended(reply[j])

RunsOnly(hand, answer, box, reply) ==
  \A v \in Workers : hand[v] # NoTask =>
    /\ \A w \in Workers :
         /\ hand[v] # Ended(answer[w])
         /\ \A j \in DOMAIN box[w] : hand[v] # Ended(box[w][j])
    /\ \A j \in DOMAIN reply : hand[v] # Ended(reply[j])

ReportedOnce(answer, box, reply) ==
  /\ \A v \in Workers : Ended(answer[v]) # NoTask =>
       /\ \A w \in Workers : \A j \in DOMAIN box[w] :
            Ended(answer[v]) # Ended(box[w][j])
       /\ \A j \in DOMAIN reply : Ended(answer[v]) # Ended(reply[j])
  /\ \A w \in Workers : \A i \in DOMAIN box[w], j \in DOMAIN reply :
       Ended(box[w][i]) = Ended(reply[j]) => Ended(reply[j]) = NoTask

OnePlace(bus, hand, answer, box, reply) ==
  /\ NoneTwice(bus, hand, answer, box, reply)
  /\ WaitsOnly(bus, hand, answer, box, reply)
  /\ RunsOnly(hand, answer, box, reply)
  /\ ReportedOnce(answer, box, reply)

Tracked(bus, hand, answer, box, reply, known) ==
  /\ \A i \in DOMAIN bus : bus[i] \in known
  /\ \A w \in Workers :
       /\ hand[w] \in known \cup {NoTask}
       /\ Ended(answer[w]) \in known \cup {NoTask}
       /\ \A i \in DOMAIN box[w] : Ended(box[w][i]) \in known \cup {NoTask}
  /\ \A j \in DOMAIN reply : Ended(reply[j]) \in known \cup {NoTask}

(***************************************************************************)
(* What the manager has in its hands goes as the head of the response bus, *)
(* and its task as known, until the future is set.                         *)
(***************************************************************************)
Replies == IF Held # {} THEN <<received>> \o responseBus ELSE responseBus

HandOK ==
  /\ mpc = "pop" => Ended(received) \in currTasks \cup {NoTask}
  /\ mpc = "set" => /\ EndsTask(received) /\ received.task \in Tasks \ currTasks
                    /\ future[received.task] \in {"pending", "cancelled"}
  /\ mpc = "handle" /\ Ended(received) # NoTask
       => future[received.task] \in {"result", "exception"}

\* A worker holds a task from the bus to the end of its run.
HandsOK == \A w \in Workers : task[w] # NoTask <=> pc[w] \in Working

\* The manager resolves a future behind the pop of the task, and never earlier.
FuturesOK ==
  \A t \in Tasks :
    /\ t \in currTasks => future[t] \in {"pending", "cancelled"}
    /\ Submitted(t) /\ t \notin currTasks => Resolved(t) \/ InHand(t)

\* A task a client is about to queue is new, and no other client's.
QueuedIsNew ==
  /\ \A c \in Clients : cpc[c] = "queue" => /\ cTask[c] \in Tasks
                                            /\ future[cTask[c]] = "unsubmitted"
  /\ \A c, d \in Clients : cTask[c] = cTask[d] => c = d \/ cTask[c] = NoTask

TaskInv ==
  /\ OnePlace(taskBus, task, response, outbox, Replies)
  /\ Tracked(taskBus, task, response, outbox, Replies, Known)
  /\ HandOK /\ HandsOK /\ FuturesOK /\ QueuedIsNew

\* A task is lost with a process that is never started again.
Buried(w) ==
  /\ pc[w] = "died"
  /\ ~(Attending /\ Attended = w)
  /\ phase # "halt" => \A i \in DOMAIN responseBus :
                         Exits(responseBus[i]) => responseBus[i].worker # w

PendingInv ==
  \A t \in Tasks :
    future[t] = "pending" =>
      \/ Somewhere(t) \/ \E w \in Workers : Buried(w)
      \/ Unsendable # {} \/ t \in Unloadable \/ "exit" \in Outcomes
      \/ mpc = "killed" /\ InHand(t)

-----------------------------------------------------------------------------
(***************************************************************************)
(* One client, and a manager that leaves its loop only when it is told to: *)
(* behind its loop nobody adds a task or a worker.                         *)
(***************************************************************************)
Submitting == {"queue", "load", "store", "adjust", "count", "scan", "spawn",
               "launch", "spin"}

Calm == Clients = {Owner} /\ ~ManagerTimesOut

\* The manager's calls of worker.stop() in _stop_all_workers.
Halting   == {"stop1", "join", "stopped", "halt", "ended"}
Halted(w) == w # handled \/ mpc \in {"stopped", "halt", "ended"}

QuietEnd ==
  /\ ~mRunning => cpc[Owner] \notin Submitting
  /\ mpc = "down" \/ phase # "loop" => ~mRunning
  /\ \A w \in Workers : ThreadAlive(w) => thread[w]
  /\ phase = "halt" =>
       /\ currTasks = {}
       /\ todo \subseteq currWorkers /\ todoSize = Cardinality(currWorkers)
       /\ mpc \in {"stop1", "join", "stopped"} => handled \in currWorkers \ todo
       /\ mpc \in Halting =>
            \A w \in currWorkers \ todo : Halted(w) => ~ThreadAlive(w)
       /\ mpc = "ended" => todo = {}

(***************************************************************************)
(* What the manager takes off the bus: None stems from a function that     *)
(* raised SystemExit, and the end of a task names the task.  A worker      *)
(* copies the flag of a request, which never is the end of a task.         *)
(***************************************************************************)
Sound(r) ==
  /\ r = None => "exit" \in Outcomes
  /\ EndsTask(r) => r.task # NoTask

AllSound(bus, boxes) ==
  /\ \A i \in DOMAIN bus : Sound(bus[i])
  /\ \A w \in Workers : \A i \in DOMAIN boxes[w] : Sound(boxes[w][i])

AnswersSound ==
  /\ AllSound(responseBus, outbox)
  /\ Handling => Sound(received)
  /\ \A w \in Workers : EndsTask(response[w]) => response[w].task # NoTask
  /\ \A w \in Workers : \A i \in DOMAIN requestBus[w] : ~EndsTask(requestBus[w][i])

\* A client adds no more workers than it has found missing.
RoomLeft ==
  NumWorkers >= 0 =>
    /\ Cardinality(currWorkers) <= NumWorkers
    /\ cpc[Owner] \in {"spawn", "launch", "spin"} =>
         Cardinality(currWorkers) + cTasks[Owner] <= NumWorkers

CalmInv  == Calm => QuietEnd
OneInv   == Clients = {Owner} => DiesOfTasksOnly /\ RoomLeft

\* The manager's thread is killed by terminate() only.
KillInv ==
  mKill \/ (\E c \in Clients : cpc[c] \in {"kill2", "kill3"})
    => "terminate" \in OwnerMay

IndInv ==
  TypeOK /\ ExitInv /\ TaskInv /\ PendingInv /\ KillInv /\ CalmInv /\ AnswersSound
    /\ OneInv

=============================================================================
