--------------------------- MODULE ThreadPoolInv ----------------------------
(***************************************************************************)
(* The inductive invariant of ThreadPool from which its safety properties  *)
(* follow.  The parts about tasks and about workers that end are separate. *)
(***************************************************************************)
EXTENDS ThreadPool, ManagerInv

\* The task whose end a response reports.
Ended(r) == IF EndsTask(r) THEN r.task ELSE NoTask

(***************************************************************************)
(* TaskInOnePlace and TasksTracked, element by element, for any contents   *)
(* of the task bus, the hands and answers of the workers and the replies   *)
(* on the response bus.                                                    *)
(***************************************************************************)
OnePlace(bus, hand, answer, reply) ==
  /\ \A i, j \in DOMAIN bus : bus[i] = bus[j] => i = j
  /\ \A v, w \in Workers : hand[v] = hand[w] => v = w \/ hand[v] = NoTask
  /\ \A v, w \in Workers : Ended(answer[v]) = Ended(answer[w])
                             => v = w \/ Ended(answer[v]) = NoTask
  /\ \A i, j \in DOMAIN reply : Ended(reply[i]) = Ended(reply[j])
                                  => i = j \/ Ended(reply[i]) = NoTask
  /\ \A i \in DOMAIN bus, w \in Workers :
       bus[i] # hand[w] /\ bus[i] # Ended(answer[w])
  /\ \A i \in DOMAIN bus, j \in DOMAIN reply : bus[i] # Ended(reply[j])
  /\ \A v, w \in Workers : hand[v] = Ended(answer[w]) => hand[v] = NoTask
  /\ \A v \in Workers, j \in DOMAIN reply :
       /\ hand[v] = Ended(reply[j]) => hand[v] = NoTask
       /\ Ended(answer[v]) = Ended(reply[j]) => Ended(answer[v]) = NoTask

Tracked(bus, hand, answer, reply, known) ==
  /\ \A i \in DOMAIN bus : bus[i] \in known
  /\ \A w \in Workers : hand[w] \in known \cup {NoTask}
  /\ \A w \in Workers : Ended(answer[w]) \in known \cup {NoTask}
  /\ \A j \in DOMAIN reply : Ended(reply[j]) \in known \cup {NoTask}

\* A reported end is that of a task whose future is resolved, in given states
\* of the futures.
ReportOK(r, states) ==
  EndsTask(r) => /\ r.task \in Tasks
                 /\ states[r.task] \in {"cancelled", "result", "exception"}
ReportsResolved ==
  /\ \A w \in Workers : ReportOK(response[w], future)
  /\ \A j \in DOMAIN responseBus : ReportOK(responseBus[j], future)

\* A worker about to run a task has one.
HandFull ==
  \A w \in Workers : pc[w] \in {"begin", "refuse", "run"} => task[w] \in Tasks

TaskInv ==
  /\ OnePlace(taskBus, task, response, responseBus)
  /\ Tracked(taskBus, task, response, responseBus, currTasks)
  /\ RequestsClose /\ ReportsResolved /\ QueuedIsNew /\ HandFull
  /\ ForgottenResolved

-----------------------------------------------------------------------------
\* A worker's answers bear its name; it announces its end only at its end.
AnswersOK ==
  \A w \in Workers :
    /\ response[w] # None => response[w].worker = w
    /\ phase # "halt" => /\ requestBus[w] = <<>>
                         /\ Exits(response[w]) => pc[w] = "quit"

(***************************************************************************)
(* ExitsTracked, element by element: the ends on the response bus are      *)
(* those of different workers, all known and past their loops, and none is *)
(* that of the worker being restarted.                                     *)
(***************************************************************************)
EndedWorkers == {w \in currWorkers : pc[w] \in {"clear", "ended"} /\ ~running[w]}

EndsListed(bus, workers) ==
  /\ \A i \in DOMAIN bus : Exits(bus[i]) => bus[i].worker \in workers
  /\ \A i, j \in DOMAIN bus :
       Exits(bus[i]) /\ Exits(bus[j]) /\ bus[i].worker = bus[j].worker => i = j

ExitsListed ==
  /\ phase # "halt" => EndsListed(responseBus, EndedWorkers)
  /\ Restarting => /\ handled \in EndedWorkers
                   /\ EndsListed(responseBus, EndedWorkers \ {handled})

\* What the flags and `_thread` say about the control point.
ThreadsOK ==
  /\ \A w \in Workers : ThreadAlive(w) => thread[w]
  /\ \A w \in Workers : pc[w] \in {"clear", "ended"} => ~running[w]

ExitInv ==
  /\ PhaseOK /\ AnswersOK /\ WorkersNumbered /\ ThreadsOK /\ HandledOK
  /\ WorkersKnown /\ ExitsListed /\ PopsAreSafe

IndInv == TypeOK /\ TaskInv /\ ExitInv

-----------------------------------------------------------------------------
\* A worker holds a task only while it is about to run it.
HandEmpty ==
  \A w \in Workers : pc[w] \notin {"begin", "refuse", "run"} => task[w] = NoTask

\* Nothing but the run of a task gives its future a result: until then the
\* future is pending, or was cancelled.
Unsettled(t) == future[t] \in {"pending", "cancelled"}
WorkUnsettled ==
  /\ \A i \in DOMAIN taskBus : Unsettled(taskBus[i])
  /\ \A w \in Workers : task[w] # NoTask => Unsettled(task[w])

ContractInv == HandEmpty /\ WorkUnsettled

-----------------------------------------------------------------------------
\* worker.stop() has found a thread, which only its end takes away.
StopsOK == mpc \in {"stop2", "stop3"} => thread[handled] \/ pc[handled] = "ended"

\* Without faults every task is answered.
AnswersSound ==
  /\ \A t \in Tasks : future[t] # "cancelled"
  /\ \A i \in DOMAIN responseBus : responseBus[i] # None
  /\ \A w \in Workers :
       pc[w] = "finally" => outcome[w] = "settled" /\ response[w] # None

\* Workers that do not give up stay in _curr_workers.
NobodyLeaves ==
  /\ \A w \in Workers : w < nextWorker => w \in currWorkers
  /\ phase # "halt" => /\ \A i \in DOMAIN responseBus : ~Closes(responseBus[i])
                       /\ \A w \in Workers : ~Closes(response[w])

StopInv ==
  /\ EndsOK /\ StopsOK
  /\ Calm => QuietEnd
  /\ ~MayFault => AnswersSound
  /\ ~MayGiveUp => NobodyLeaves
  /\ DiesOnlyInStop

=============================================================================
