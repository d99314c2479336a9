---------------------------- MODULE AsyncPoolInv -----------------------------
(***************************************************************************)
(* The inductive invariants of AsyncPool from which its safety properties  *)
(* follow: where tasks are, what is without faults, what idle means, and   *)
(* how event loops end.                                                    *)
(***************************************************************************)
EXTENDS AsyncPool, ManagerInv

Distinct(s) == \A i, j \in DOMAIN s : s[i] = s[j] => i = j

\* The coroutines of a worker, those of a loop nobody turns any more included.
HeldBy(w) == ToSet(active[w]) \cup abandoned[w]

\* A task whose run has not come to an answer: on the bus, or in a coroutine.
Held(t) == t \in ToSet(taskBus) \/ \E w \in Workers : t \in HeldBy(w)

\* No task is held twice.
HeldOnce ==
  /\ Distinct(taskBus)
  /\ \A w \in Workers :
       /\ Distinct(active[w]) /\ ToSet(active[w]) \cap abandoned[w] = {}
       /\ ToSet(taskBus) \cap HeldBy(w) = {}
  /\ \A v, w \in Workers : v # w => HeldBy(v) \cap HeldBy(w) = {}

\* Nothing but the run of a task gives its future a result: until then the
\* future is pending, or was cancelled, and the pool has its entry.
HeldOpen ==
  \A t \in Tasks :
    Held(t) => future[t] \in {"pending", "cancelled"} /\ t \in currTasks

\* The tasks whose end a response, or the responses on a bus, report.
EndOf(r)  == IF EndsTask(r) THEN {r.task} ELSE {}
EndsOn(s) == UNION {EndOf(s[i]) : i \in DOMAIN s}

\* An end that is reported is that of a task that is held no more, and whose
\* future is resolved.
Over(t) == t \in Tasks /\ Resolved(t) /\ ~Held(t)
ReportsOK ==
  /\ \A w \in Workers : \A t \in EndOf(response[w]) \cup EndsOn(finished[w]) : Over(t)
  /\ \A t \in EndsOn(responseBus) : Over(t)

HoldInv == HeldOnce /\ HeldOpen /\ ReportsOK

-----------------------------------------------------------------------------
(***************************************************************************)
(* Without limits the answer of a task is put once: TaskInOnePlace, answer *)
(* by answer.                                                              *)
(***************************************************************************)
NoLimits == MaxTaskCount < 0 /\ MaxErrCount < 0 /\ MaxConsErrCount < 0

DistinctEnds(s) ==
  \A i, j \in DOMAIN s : EndOf(s[i]) \cap EndOf(s[j]) # {} => i = j

AnsweredOnce ==
  /\ DistinctEnds(responseBus) /\ EndsOn(responseBus) \subseteq currTasks
  /\ \A w \in Workers :
       /\ EndOf(response[w]) = {} /\ DistinctEnds(finished[w])
       /\ EndsOn(finished[w]) \subseteq currTasks \ EndsOn(responseBus)
  /\ \A v, w \in Workers :
       v # w => EndsOn(finished[v]) \cap EndsOn(finished[w]) = {}

-----------------------------------------------------------------------------
(***************************************************************************)
(* Futures that are cancelled, and functions that raise what no except     *)
(* clause catches, are all that can end an event loop halfway.             *)
(***************************************************************************)
Faultless == Cancellable = {} /\ Outcomes \cap {"cancel", "exit"} = {}

LoopsSound ==
  /\ \A t \in Tasks : future[t] # "cancelled"
  /\ \A w \in Workers :
       /\ raised[w] = {} /\ abandoned[w] = {} /\ pc[w] # "died"
       /\ \A i \in DOMAIN finished[w] : finished[w][i] # None
       /\ pc[w] \in {"unborn", "boot", "flush", "ended"} => active[w] = <<>>
       /\ pc[w] \in {"unborn", "boot", "ended"} => finished[w] = <<>>

\* Every entry of the manager is that of a task that is held or whose end is
\* on its way, unless it was killed with that end in its hand; and every
\* pending task is held.
OnTheWay(t) ==
  t \in EndsOn(responseBus) \/ \E w \in Workers : t \in EndsOn(finished[w])
NothingLost ==
  /\ mpc # "killed" => \A t \in currTasks : Held(t) \/ OnTheWay(t)
  /\ \A t \in Tasks : future[t] = "pending" => Held(t)

-----------------------------------------------------------------------------
\* A loop that was left has cleared `running`; one that turns with the flag
\* `idle` has nothing to do.
IdleInv ==
  /\ \A w \in Workers : pc[w] \in {"wait", "await", "flush", "ended"} => ~running[w]
  /\ IdleIsFree

-----------------------------------------------------------------------------
(***************************************************************************)
(* Workers that end.  At a limit a worker announces its end twice, with    *)
(* the answer in the loop and with `response` behind it; the second comes  *)
(* when the entry of the task is gone or about to go, so that the manager  *)
(* raises before it looks at the worker.                                   *)
(***************************************************************************)
Exits(r) == Closes(r) \/ Restarts(r)
Gone(t)  == t \notin currTasks \/ t \in EndsOn(responseBus)
Spent(r) == EndsTask(r) /\ Gone(r.task)

\* The responses of a worker: those its coroutines gave, and its last.
Plain(w, r)   == r = None \/ (r.worker = w /\ EndsTask(r) /\ ~Exits(r))
Parting(w, r) ==
  /\ r.worker = w
  /\ (Closes(r) /\ ~EndsTask(r)) \/ (Restarts(r) /\ Spent(r))

Free(w) == active[w] = <<>> /\ finished[w] = <<>>
PartsOK(w) ==
  /\ requestBus[w] = <<>>
  /\ \A i \in DOMAIN finished[w] :
       \/ Plain(w, finished[w][i])
       \/ /\ pc[w] = "flush" /\ i = Len(finished[w])
          /\ Parting(w, finished[w][i])
          /\ Closes(finished[w][i]) => i = 1
  /\ response[w] # None => /\ pc[w] \in {"wait", "await"} /\ Parting(w, response[w])
                           /\ Closes(response[w]) => Free(w)

\* A loop that is left answers behind its coroutines, and ends behind its
\* answers; a worker that the manager has popped has neither.
Emptied(w) == pc[w] \in {"flush", "ended"} /\ Free(w)
EndsClean(w) ==
  /\ pc[w] \in {"flush", "ended"} => active[w] = <<>>
  /\ pc[w] = "ended" => finished[w] = <<>>
  /\ w < nextWorker /\ w \notin currWorkers => Emptied(w)

(***************************************************************************)
(* The ends on the response bus that the manager will act on are those of  *)
(* different workers, all known, past their loops and with no other end to *)
(* announce; and none is that of the worker being restarted.               *)
(***************************************************************************)
Counts(bus, known, i) ==
  /\ Exits(bus[i])
  /\ EndsTask(bus[i]) =>
       /\ bus[i].task \in known
       /\ \A k \in DOMAIN bus :
            k < i /\ EndsTask(bus[k]) => bus[k].task # bus[i].task

EndsListed(bus, known, silent, empty) ==
  /\ \A i \in DOMAIN bus :
       Counts(bus, known, i) =>
         bus[i].worker \in silent /\ (Closes(bus[i]) => bus[i].worker \in empty)
  /\ \A i, j \in DOMAIN bus :
       Counts(bus, known, i) /\ Counts(bus, known, j) /\ bus[i].worker = bus[j].worker
         => i = j

IsSilent(w) ==
  /\ pc[w] \in {"wait", "await", "flush", "ended", "died"} /\ ~running[w]
  /\ ~Closes(response[w])
  /\ \A i \in DOMAIN finished[w] : ~Closes(finished[w][i])

Silent     == {w \in currWorkers : IsSilent(w)}
Empties    == {w \in Workers : Emptied(w)}
Restarting == phase # "halt" /\ mpc \in {"stop1", "stop2", "stop3", "join",
                                         "stopped", "start"}
Listed     == IF Restarting THEN Silent \ {handled} ELSE Silent

ExitsListed ==
  /\ Restarting => handled \in Silent
  /\ EndsListed(responseBus, currTasks, Listed, Empties)

\* Nobody acts on the ends once the manager goes over its workers, or is killed.
Listens == phase # "halt" /\ mpc # "killed"
Leaving ==
  /\ \A w \in Workers : EndsClean(w)
  /\ Listens => (\A w \in Workers : PartsOK(w)) /\ ExitsListed

LeaveInv == PhaseOK /\ EndsOK /\ Leaving /\ (Calm => QuietEnd)

AsyncInv ==
  /\ TypeOK /\ ManagerOK /\ HoldInv /\ IdleInv /\ LeaveInv
  /\ NoLimits => AnsweredOnce
  /\ Faultless => LoopsSound /\ NothingLost

=============================================================================
