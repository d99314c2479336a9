---------------------------- MODULE ExecutorInv -----------------------------
(***************************************************************************)
(* The inductive invariant of Executor from which the safety of its        *)
(* managers follows: the types, the numbers of the managers and, as long   *)
(* as calls do not overlap, where the threads of each manager and the only *)
(* call are.                                                               *)
(***************************************************************************)
EXTENDS Executor

Labels == {"idle", "choice", "create", "mark", "start", "launch", "spin", "clear",
           "scan", "pop", "submit", "queue", "visit", "stop", "found", "join", "retest"}

ThreadStates == {"new", "boot", "loop", "down", "drain", "ended", "killed"}

ManagerRecords ==
  [running : BOOLEAN, inited : BOOLEAN, threads : Seq(ThreadStates),
   thread : Nat, doomed : SUBSET Nat, held : SUBSET Tasks]

ManagersTyped ==
  /\ obj \in [Managers -> ManagerRecords]
  /\ \A m \in Managers : /\ obj[m].thread \in 0 .. Len(obj[m].threads)
                         /\ obj[m].doomed \subseteq DOMAIN obj[m].threads

\* The managers in _managers, and those in the hands of calls, were created;
\* nobody has started one that was not.
TablesTyped ==
  /\ created \in Nat
  /\ \A mode \in DOMAIN managers : managers[mode] \in 1 .. created
  /\ \A m \in Managers : m > created => obj[m] = NewManager
  /\ alive \in BOOLEAN /\ overlapped \in BOOLEAN
  /\ future \in [Tasks -> FutureStates]

HasManager == {"mark", "start", "launch", "spin", "clear", "scan", "pop", "submit",
               "queue", "stop", "found", "join", "retest"}

\* Where a call of submit_task() is.
Submitting == {"choice", "create", "mark", "start", "launch", "spin", "clear", "scan", "pop",
               "submit", "queue"}

CallFields == {"pc", "task", "ask", "modes", "mode", "mgr", "wait", "seen", "todo", "size",
               "cleared"}

CallsTyped ==
  /\ DOMAIN call = Clients
  /\ \A c \in Clients :
       /\ DOMAIN call[c] = CallFields
       /\ call[c].pc \in Labels /\ call[c].task \in 0 .. MaxTasks
       /\ call[c].pc \in HasManager => call[c].mgr \in 1 .. created
       /\ call[c].pc \in Submitting => call[c].task \in Tasks

(***************************************************************************)
(* Each call of submit_task() creates one manager at most: those that may  *)
(* still create one are not counted yet.                                   *)
(***************************************************************************)
Deciding(c) == call[c].pc \in {"choice", "create"}
Called      == {t \in Tasks : future[t] # "unsubmitted"}
Undecided   == {t \in Tasks : \E c \in Clients : Deciding(c) /\ call[c].task = t}

ManagersCounted ==
  /\ created + Cardinality(Undecided) <= Cardinality(Called)
  /\ Undecided \subseteq Called
  /\ \A c, d \in Clients :
       Deciding(c) /\ Deciding(d) /\ call[c].task = call[d].task => c = d

Typed == ManagersTyped /\ TablesTyped /\ CallsTyped /\ ManagersCounted

-----------------------------------------------------------------------------
(***************************************************************************)
(* As long as calls do not overlap.                                        *)
(***************************************************************************)
Alone == \A c, d \in Clients : At(c, "idle") \/ At(d, "idle") \/ c = d

\* All threads of a manager that go on are about to be killed.
Halted(m) == LiveThreads(m) \subseteq obj[m].doomed

\* No thread has left its loop with `running` set.
SoundlyLeaving(m) ==
  \A k \in LiveThreads(m) : obj[m].threads[k] \in {"down", "drain"} => ~obj[m].running

\* A manager that serves tasks and was started once.
Steady(m) == obj[m].running /\ LiveThreads(m) = {1} /\ Len(obj[m].threads) = 1

(***************************************************************************)
(* A thread that goes on is the one in `_thread`, or terminate() has hit   *)
(* it; then it is on its way out of the loop only if `running` is cleared. *)
(* A thread that was not started yet, and the first thread before it sets  *)
(* `inited`, are waited for by the call that starts them.                  *)
(***************************************************************************)
ThreadsOK(m) ==
  /\ \A j, k \in LiveThreads(m) : j = k
  /\ \A k \in LiveThreads(m) : k \in obj[m].doomed \/ obj[m].thread = k
  /\ \A k \in LiveThreads(m) \cap obj[m].doomed :
       obj[m].threads[k] \in {"down", "drain"} => ~obj[m].running
  /\ \A k \in DOMAIN obj[m].threads : obj[m].threads[k] = "new" =>
       /\ LiveThreads(m) = {} /\ obj[m].thread = k
       /\ \E c \in Clients : At(c, "launch") /\ call[c].mgr = m
  /\ Len(obj[m].threads) = 1 /\ obj[m].threads[1] = "boot" =>
       \E c \in Clients : At(c, "spin") /\ call[c].mgr = m
  /\ obj[m].inited => /\ obj[m].threads # <<>>
                      /\ obj[m].threads[1] \notin {"new", "boot"}

\* submit_task starts a manager that has no thread, and does not put the
\* manager aside that serves tasks.
SubmitOK(c) ==
  /\ call[c].pc \in {"mark", "start", "launch", "spin"} => call[c].mgr \in Listed
  /\ call[c].pc \in {"start", "launch", "spin", "clear", "scan", "pop", "submit", "queue"}
       => alive
  /\ At(c, "mark") =>
       LiveThreads(call[c].mgr) \cap obj[call[c].mgr].doomed = {} \/ obj[call[c].mgr].running
  /\ At(c, "start") => LiveThreads(call[c].mgr) \cap obj[call[c].mgr].doomed = {}
  /\ At(c, "create") /\ call[c].mode \in DOMAIN managers => ~Steady(managers[call[c].mode])
  /\ call[c].pc \in {"scan", "pop"} =>
       \A mode \in call[c].cleared \cap DOMAIN managers : ~Steady(managers[mode])
  /\ call[c].pc \notin {"scan", "pop"} => call[c].cleared = {}

\* A call of shutdown() that has come to a manager.
Halting == {"stop", "found", "join", "retest"}

\* The managers that shutdown() has been to have stopped, or are about to; and a
\* thread that terminate() is going to hit does not leave its loop with
\* `running` set.
ShutdownOK(c) ==
  /\ call[c].pc \in Halting \cup {"visit"} =>
       \A mode \in DOMAIN managers \ call[c].todo :
         \/ ~At(c, "visit") /\ managers[mode] = call[c].mgr
         \/ Halted(managers[mode])
  /\ Testing(c) /\ call[c].seen = NoThread => Halted(call[c].mgr)
  /\ call[c].pc \in {"stop", "found"} /\ ~call[c].wait => SoundlyLeaving(call[c].mgr)

CalmInv ==
  /\ Alone
  /\ \A m \in Managers : ThreadsOK(m)
  /\ \A c \in Clients : SubmitOK(c) /\ ShutdownOK(c)
  /\ \A m \in Managers : Steady(m) => m \in Listed
  /\ ~alive => \A m \in Listed : Halted(m)

ExecutorInv == Typed /\ (~overlapped => CalmInv)

-----------------------------------------------------------------------------
\* The modes that a call chooses from are those of _guess_mode, for as long as
\* it has not chosen: the repository stays as it is.
ChoiceInv ==
  \A c \in Clients : At(c, "choice") =>
    /\ call[c].ask \in Asks
    /\ call[c].modes = GuessMode(repo, call[c].ask) /\ call[c].modes # {}

=============================================================================
