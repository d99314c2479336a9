------------------------------ MODULE Executor ------------------------------
(***************************************************************************)
(* HybridPoolExecutor: client threads submit tasks, each to the manager of *)
(* one mode, which is created and started on demand, and the owner shuts   *)
(* the executor down.  No lock protects any of it.                         *)
(*                                                                         *)
(* The managers are those of the pools, reduced to what the executor sees: *)
(* their flags, their threads from start() to the end, and the tasks they  *)
(* hold (ThreadManager has the rest).                                      *)
(***************************************************************************)
EXTENDS SpecRepo, Integers, FiniteSets

CONSTANTS Clients,       \* threads that call the executor
          Submitters,    \* those that submit tasks
          Owner,         \* the one that calls shutdown()
          Asks,          \* what these calls may ask for
          ExtraLists,    \* the values of `extra_specs`
          ClearLimit,    \* the 256 of _clear_manager_if_needed
          MaxTasks,      \* bound: calls of submit_task()
          MaxShutdowns   \* bound: calls of shutdown()

ASSUME ExecutorAssumption ==
  /\ Submitters \subseteq Clients /\ Owner \in Clients
  /\ Asks \subseteq [async : BOOLEAN, mode : STRING, tags : Seq(STRING)]
  /\ ClearLimit \in Nat /\ MaxTasks \in Nat /\ MaxShutdowns \in Nat

\* The calls of submit_task() are numbered; each creates one manager at most.
Tasks     == 1 .. MaxTasks
Managers  == 1 .. MaxTasks
NoTask    == 0
NoManager == 0
NoThread  == 0

VARIABLES
  repo,       \* _spec_repo
  managers,   \* _managers: a function from modes to managers
  created,    \* the number of managers so far
  alive,      \* _is_alive
  counter,    \* _clear_counter
  obj,        \* each manager object and its threads
  future,     \* how each call of submit_task() ended, and its future
  call,       \* the call in which each client is
  shutdowns,  \* the number of calls of shutdown() so far
  overlapped  \* history: two calls have overlapped

tableVars == <<repo, managers, created>>
execVars  == <<tableVars, alive, counter>>
history   == <<shutdowns, overlapped>>
vars      == <<execVars, obj, future, call, history>>

None == "none"

NoAsk == [async |-> FALSE, mode |-> AnyMode, tags |-> <<>>]

\* A client outside of the executor, with its local variables.
NoCall == [pc      |-> "idle",
           task    |-> NoTask,     \* of submit_task
           ask     |-> NoAsk,      \* arguments that bear on the mode
           modes   |-> {},
           mode    |-> None,
           mgr     |-> NoManager,
           wait    |-> TRUE,       \* of shutdown
           seen    |-> NoThread,       \* the thread that stop() has seen
           todo    |-> {},         \* what an iteration over _managers has left
           size    |-> 0,          \* the size of _managers when it began
           cleared |-> {}]

\* A manager that was just created (ThreadManager.__init__).
NewManager == [running |-> FALSE, inited |-> FALSE,
               threads |-> <<>>,      \* the threads that start() has made
               thread  |-> NoThread,  \* _thread: one of these
               doomed  |-> {},        \* threads that terminate() has hit
               held    |-> {}]        \* _curr_tasks

\* thread.is_alive(): "new" is a thread that was not started yet.
Alive(m, k) == obj[m].threads[k] \in {"boot", "loop", "down", "drain"}

Init ==
  /\ \E extra \in ExtraLists : repo = ImportAll(DefaultRepo, extra)
  /\ managers = <<>> /\ created = 0
  /\ alive = TRUE /\ counter = 0
  /\ obj = [m \in Managers |-> NewManager]
  /\ future = [t \in Tasks |-> "unsubmitted"]
  /\ call = [c \in Clients |-> NoCall]
  /\ shutdowns = 0 /\ overlapped = FALSE

-----------------------------------------------------------------------------
(***************************************************************************)
(* The threads of a manager (ThreadManager._run).                          *)
(***************************************************************************)
Goes(m, k, from, to) ==
  /\ obj[m].threads[k] = from
  /\ obj' = [obj EXCEPT ![m].threads[k] = to]

\* Mutant of Boot: nobody learns that the manager has started.
Boot_Silent(m, k) ==
  /\ obj[m].threads[k] = "boot"
  /\ obj' = [obj EXCEPT ![m].threads[k] = "loop", ![m].running = TRUE]
  /\ UNCHANGED future

\* The thread begins: `running`, then `inited`, are set.
Boot(m, k) ==
  /\ obj[m].threads[k] = "boot"
  /\ obj' = [obj EXCEPT ![m].threads[k] = "loop", ![m].running = TRUE,
                        ![m].inited = TRUE]
  /\ UNCHANGED future

\* terminate() of the manager has begun and has not hit its thread yet.
Terminating(m) ==
  \E c \in Clients : /\ call[c].pc \in {"stop", "found"} /\ ~call[c].wait
                     /\ call[c].mgr = m

\* The manager has been idle for too long; `running` stays set for a moment.
\* A thread that terminate() has hit raises at its next bytecode, before it
\* can have been idle for so long; and one that has set `running` behind the
\* beginning of terminate() is hit before.
IdleOut(m, k) ==
  /\ obj[m].held = {} /\ k \notin obj[m].doomed
  /\ obj[m].running => ~Terminating(m)
  /\ Goes(m, k, "loop", "down")
  /\ UNCHANGED future

SeesStop(m, k) ==
  /\ ~obj[m].running
  /\ Goes(m, k, "loop", "down")
  /\ UNCHANGED future

\* `state.running = False` behind the loop.
Down(m, k) ==
  /\ obj[m].threads[k] = "down"
  /\ obj' = [obj EXCEPT ![m].threads[k] = "drain", ![m].running = FALSE]
  /\ UNCHANGED future

\* The workers have been stopped: a task that is left was on the bus, and stays
\* in _curr_tasks for ever.  `self._thread = None`.
End(m, k) ==
  /\ obj[m].threads[k] = "drain"
  /\ obj' = [obj EXCEPT ![m].threads[k] = "ended", ![m].thread = NoThread]
  /\ UNCHANGED future

\* The exception that terminate() has raised in the thread ends it anywhere.
Killed(m, k) ==
  /\ k \in obj[m].doomed /\ Alive(m, k)
  /\ obj' = [obj EXCEPT ![m].threads[k] = "killed"]
  /\ UNCHANGED future

\* A worker ends a task and the manager forgets it; the workers go on for a
\* while when the manager was killed.
Complete(m, t) ==
  /\ t \in obj[m].held
  /\ \E k \in DOMAIN obj[m].threads :
       Alive(m, k) \/ obj[m].threads[k] = "killed"
  /\ future' = [future EXCEPT ![t] = "resolved"]
  /\ obj' = [obj EXCEPT ![m].held = @ \ {t}]

ManagerStep(m, k) ==
  Boot(m, k) \/ SeesStop(m, k) \/ Down(m, k) \/ End(m, k) \/ Killed(m, k)

RunManager(m) ==
  /\ \E k \in DOMAIN obj[m].threads : ManagerStep(m, k)
  /\ UNCHANGED <<execVars, call, history>>

ManagerGivesUp(m) ==
  /\ \E k \in DOMAIN obj[m].threads : IdleOut(m, k)
  /\ UNCHANGED <<execVars, call, history>>

RunWorkers(m) ==
  /\ \E t \in Tasks : Complete(m, t)
  /\ UNCHANGED <<execVars, call, history>>

-----------------------------------------------------------------------------
(***************************************************************************)
(* submit_task: the mode, the manager of the mode, its start, the clearing *)
(* of old managers, and the task itself.                                   *)
(***************************************************************************)
At(c, pc) == call[c].pc = pc
Goto(c, pc) == call' = [call EXCEPT ![c].pc = pc]
Leave(c)    == call' = [call EXCEPT ![c] = NoCall]

\* The call raises.
Raise(c) ==
  /\ Leave(c)
  /\ future' = IF call[c].task = NoTask THEN future
               ELSE [future EXCEPT ![call[c].task] = "raised"]

Overlap(c) ==
  overlapped' = (overlapped \/ \E d \in Clients \ {c} : ~At(d, "idle"))

\* _guess_mode; NotSupportedError when there is no mode.
SubmitTask(c, t) ==
  /\ At(c, "idle")
  /\ {u \in Tasks : future[u] = "unsubmitted"} = t .. MaxTasks
  /\ Overlap(c)
  /\ \E ask \in Asks :
       LET modes == GuessMode(repo, ask)
       IN  IF modes = {}
           THEN future' = [future EXCEPT ![t] = "raised"] /\ UNCHANGED call
           ELSE /\ future' = [future EXCEPT ![t] = "called"]
                /\ call' = [call EXCEPT ![c] =
                              [NoCall EXCEPT !.pc = "choice", !.task = t,
                                             !.ask = ask, !.modes = modes]]
  /\ UNCHANGED <<execVars, obj, shutdowns>>

\* The manager of the mode, when it has one that is alive.
Found(mode) == mode \in DOMAIN managers /\ obj[managers[mode]].running

\* mode = choice(list(modes)), and its manager is looked up.
Choose(c) ==
  /\ At(c, "choice")
  /\ \E mode \in call[c].modes :
       call' = [call EXCEPT ![c] =
                  IF Found(mode)
                  THEN [NoCall EXCEPT !.pc = "mark", !.task = call[c].task,
                                      !.mgr = managers[mode]]
                  ELSE [NoCall EXCEPT !.pc = "create", !.task = call[c].task,
                                      !.mode = mode]]
  /\ UNCHANGED <<execVars, obj, future, history>>

\* _spec_repo[mode] raises KeyError for a mode that is not there.
UnknownMode(c) ==
  /\ At(c, "create") /\ call[c].mode \notin Names(repo)
  /\ Raise(c)
  /\ UNCHANGED <<execVars, obj, history>>

\* A new manager takes the place of the one in _managers, if there is one.
Create(c) ==
  /\ At(c, "create") /\ call[c].mode \in Names(repo)
  /\ created' = created + 1
  /\ managers' = [mode \in DOMAIN managers \cup {call[c].mode} |->
                    IF mode = call[c].mode THEN created' ELSE managers[mode]]
  /\ call' = [call EXCEPT ![c].pc = "mark", ![c].mgr = created',
                            ![c].mode = None]
  /\ UNCHANGED <<repo, alive, counter, obj, future, history>>

\* `self._is_alive = True`, and the second test of is_alive().
Mark(c) ==
  /\ At(c, "mark")
  /\ alive' = TRUE
  /\ Goto(c, IF obj[call[c].mgr].running THEN "clear" ELSE "start")
  /\ UNCHANGED <<tableVars, counter, obj, future, history>>

\* Mutant of Startable: only `running` is looked at.
Startable_RunningOnly(m) == ~obj[m].running

\* A manager that start() takes for one that is not started.
Startable(m) == ~obj[m].running /\ obj[m].thread = NoThread

\* start() of a manager that runs, or whose thread has not ended yet.
StartRaises(c) ==
  /\ At(c, "start") /\ ~Startable(call[c].mgr)
  /\ Raise(c)
  /\ UNCHANGED <<execVars, obj, history>>

\* start(): `_thread` is a new thread, which does not run yet.
StartAssigns(c) ==
  /\ At(c, "start") /\ Startable(call[c].mgr)
  /\ LET m == call[c].mgr
     IN  obj' = [obj EXCEPT ![m].threads = Append(@, "new"),
                            ![m].thread = Len(obj[m].threads) + 1]
  /\ Goto(c, "launch")
  /\ UNCHANGED <<execVars, future, history>>

\* `self._thread.start()`, of whatever is in `_thread` by now.
Launchable(m) ==
  obj[m].thread # NoThread /\ obj[m].threads[obj[m].thread] = "new"

LaunchRaises(c) ==
  /\ At(c, "launch") /\ ~Launchable(call[c].mgr)
  /\ Raise(c)
  /\ UNCHANGED <<execVars, obj, history>>

Launch(c) ==
  /\ At(c, "launch") /\ Launchable(call[c].mgr)
  /\ LET m == call[c].mgr
     IN  obj' = [obj EXCEPT ![m].threads[obj[m].thread] = "boot"]
  /\ Goto(c, "spin")
  /\ UNCHANGED <<execVars, future, history>>

\* `while not state.inited`: nothing clears it, so that the start of a manager
\* that ran before returns at once.
StartReturns(c) ==
  /\ At(c, "spin") /\ obj[call[c].mgr].inited
  /\ Goto(c, "clear")
  /\ UNCHANGED <<execVars, obj, future, history>>

\* _clear_manager_if_needed: after ClearLimit calls, or when the last call was
\* long ago, it walks through _managers.
NoClear(c) ==
  /\ At(c, "clear") /\ counter + 1 <= ClearLimit
  /\ counter' = counter + 1
  /\ Goto(c, "submit")
  /\ UNCHANGED <<tableVars, alive, obj, future, history>>

BeginClear(c) ==
  /\ At(c, "clear")
  /\ counter' = 0
  /\ call' = [call EXCEPT ![c].pc = "scan", ![c].todo = DOMAIN managers,
                          ![c].size = Cardinality(DOMAIN managers)]
  /\ UNCHANGED <<tableVars, alive, obj, future, history>>

\* An iterator over a dict whose size has changed raises RuntimeError.
IterationBroken(c) == Cardinality(DOMAIN managers) # call[c].size

IterationFails(c) ==
  /\ call[c].pc \in {"scan", "visit"} /\ IterationBroken(c)
  /\ Raise(c)
  /\ UNCHANGED <<execVars, obj, history>>

\* Mutant of ClearScan: the managers that are alive are cleared.
ClearScan_Alive(c) ==
  /\ At(c, "scan") /\ ~IterationBroken(c)
  /\ \E mode \in call[c].todo \cap DOMAIN managers :
       call' = [call EXCEPT ![c].todo = @ \ {mode},
                            ![c].cleared = IF obj[managers[mode]].running
                                           THEN @ \cup {mode} ELSE @]
  /\ UNCHANGED <<execVars, obj, future, history>>

ClearScan(c) ==
  /\ At(c, "scan") /\ ~IterationBroken(c)
  /\ \E mode \in call[c].todo \cap DOMAIN managers :
       call' = [call EXCEPT ![c].todo = @ \ {mode},
                            ![c].cleared = IF obj[managers[mode]].running
                                           THEN @ ELSE @ \cup {mode}]
  /\ UNCHANGED <<execVars, obj, future, history>>

ClearScanned(c) ==
  /\ At(c, "scan") /\ ~IterationBroken(c)
  /\ call[c].todo \cap DOMAIN managers = {}
  /\ call' = [call EXCEPT ![c].pc = "pop", ![c].todo = {}, ![c].size = 0]
  /\ UNCHANGED <<execVars, obj, future, history>>

\* _managers.pop(name): whatever manager has the name by now; KeyError when
\* another client has popped it.
ClearPop(c) ==
  /\ At(c, "pop")
  /\ \E mode \in call[c].cleared :
       IF mode \in DOMAIN managers
       THEN /\ managers' = [other \in DOMAIN managers \ {mode} |->
                               managers[other]]
            /\ call' = [call EXCEPT ![c].cleared = @ \ {mode}]
            /\ UNCHANGED future
       ELSE Raise(c) /\ UNCHANGED managers
  /\ UNCHANGED <<repo, created, alive, counter, obj, history>>

ClearEnds(c) ==
  /\ At(c, "pop") /\ call[c].cleared = {}
  /\ Goto(c, "submit")
  /\ UNCHANGED <<execVars, obj, future, history>>

\* manager.submit(): _ensure_running, and the task is queued.
SubmitRaises(c) ==
  /\ At(c, "submit") /\ ~obj[call[c].mgr].running
  /\ Raise(c)
  /\ UNCHANGED <<execVars, obj, history>>

Submit(c) ==
  /\ At(c, "submit") /\ obj[call[c].mgr].running
  /\ Goto(c, "queue")
  /\ UNCHANGED <<execVars, obj, future, history>>

Queue(c) ==
  /\ At(c, "queue")
  /\ obj' = [obj EXCEPT ![call[c].mgr].held = @ \cup {call[c].task}]
  /\ future' = [future EXCEPT ![call[c].task] = "pending"]
  /\ Leave(c)
  /\ UNCHANGED <<execVars, history>>

-----------------------------------------------------------------------------
(***************************************************************************)
(* shutdown(wait): stop() or terminate() of one manager after the other.   *)
(***************************************************************************)
Shutdown(c, wait) ==
  /\ At(c, "idle") /\ shutdowns < MaxShutdowns
  /\ Overlap(c)
  /\ shutdowns' = shutdowns + 1
  /\ call' = [call EXCEPT ![c] =
                [NoCall EXCEPT !.pc = "visit", !.wait = wait,
                               !.todo = DOMAIN managers,
                               !.size = Cardinality(DOMAIN managers)]]
  /\ UNCHANGED <<execVars, obj, future>>

\* stop() or terminate(): `running` is cleared, `_thread` read once.
Visit(c) ==
  /\ At(c, "visit") /\ ~IterationBroken(c)
  /\ \E mode \in call[c].todo \cap DOMAIN managers :
       LET m == managers[mode]
       IN  /\ obj' = [obj EXCEPT ![m].running = FALSE]
           /\ call' = [call EXCEPT ![c].pc = "stop", ![c].todo = @ \ {mode},
                                   ![c].mgr = m, ![c].seen = obj[m].thread]
  /\ UNCHANGED <<execVars, future, history>>

Visited(c) == call' = [call EXCEPT ![c].pc = "visit", ![c].mgr = NoManager,
                                   ![c].seen = NoThread]

\* `if self._thread and self._thread.is_alive()`: the second read of `_thread`,
\* the first time and behind the join.
Testing(c) == call[c].pc \in {"stop", "retest"}
Thread(c)  == obj[call[c].mgr].thread
Living(c)  == Thread(c) # NoThread /\ Alive(call[c].mgr, Thread(c))

\* A thread that can be joined was started.
Joinable(c) == Thread(c) # NoThread /\ obj[call[c].mgr].threads[Thread(c)] # "new"

\* There is no thread (any more), or it is not alive.
StopDone(c) ==
  /\ Testing(c)
  /\ call[c].seen = NoThread \/ (Thread(c) # NoThread /\ ~Living(c))
  /\ obj' = [obj EXCEPT ![call[c].mgr].thread = NoThread]
  /\ Visited(c)
  /\ UNCHANGED <<execVars, future, history>>

\* The thread has ended since `_thread` was read: is_alive(), join() or
\* terminate() of None is an AttributeError; join() of a thread that is not
\* started is a RuntimeError, and terminate() of one that does not live is a
\* ValueError.
StopRaises(c) ==
  /\ \/ Testing(c) /\ call[c].seen # NoThread /\ Thread(c) = NoThread
     \/ At(c, "found") /\ call[c].wait /\ ~Joinable(c)
     \/ At(c, "found") /\ ~call[c].wait /\ ~Living(c)
  /\ Raise(c)
  /\ UNCHANGED <<execVars, obj, history>>

\* The thread is alive.
StopFinds(c) ==
  /\ At(c, "stop") /\ call[c].seen # NoThread /\ Living(c)
  /\ Goto(c, "found")
  /\ UNCHANGED <<execVars, obj, future, history>>

\* Mutant of StopJoins: nobody waits for the thread.
StopJoins_NoWait(c) ==
  /\ At(c, "found") /\ call[c].wait /\ Joinable(c)
  /\ Visited(c)
  /\ UNCHANGED <<execVars, obj, future, history>>

\* stop(): join(), of whatever is in `_thread` by now.
StopJoins(c) ==
  /\ At(c, "found") /\ call[c].wait /\ Joinable(c)
  /\ call' = [call EXCEPT ![c].pc = "join", ![c].seen = Thread(c)]
  /\ UNCHANGED <<execVars, obj, future, history>>

\* join() returns: the thread has ended, or the 60 seconds of stop() are over.
\* `_thread` is read again.
JoinReturns(c) ==
  /\ At(c, "join")
  /\ call' = [call EXCEPT ![c].pc = "retest", ![c].seen = Thread(c)]
  /\ UNCHANGED <<execVars, obj, future, history>>

\* The thread is still alive: RuntimeError, with the managers behind this one
\* still running.
StopExpires(c) ==
  /\ At(c, "retest") /\ call[c].seen # NoThread /\ Living(c)
  /\ Raise(c)
  /\ UNCHANGED <<execVars, obj, history>>

\* terminate(): SystemExit is raised in the thread, and nobody waits for it.
Terminate(c) ==
  /\ At(c, "found") /\ ~call[c].wait /\ Living(c)
  /\ obj' = [obj EXCEPT ![call[c].mgr].doomed = @ \cup {Thread(c)},
                        ![call[c].mgr].thread = NoThread]
  /\ Visited(c)
  /\ UNCHANGED <<execVars, future, history>>

ShutdownEnds(c) ==
  /\ At(c, "visit") /\ ~IterationBroken(c)
  /\ call[c].todo \cap DOMAIN managers = {}
  /\ alive' = FALSE
  /\ Leave(c)
  /\ UNCHANGED <<tableVars, counter, obj, future, history>>

-----------------------------------------------------------------------------
SubmitStep(c) ==
  \/ Choose(c) \/ UnknownMode(c) \/ Create(c) \/ Mark(c)
  \/ StartRaises(c) \/ StartAssigns(c) \/ LaunchRaises(c) \/ Launch(c)
  \/ StartReturns(c) \/ NoClear(c) \/ BeginClear(c) \/ ClearScan(c)
  \/ ClearScanned(c) \/ ClearPop(c) \/ ClearEnds(c)
  \/ SubmitRaises(c) \/ Submit(c) \/ Queue(c)

ShutdownStep(c) ==
  \/ Visit(c) \/ StopDone(c) \/ StopRaises(c) \/ StopFinds(c) \/ StopJoins(c)
  \/ JoinReturns(c) \/ StopExpires(c) \/ Terminate(c) \/ ShutdownEnds(c)

ClientStep(c) == SubmitStep(c) \/ ShutdownStep(c) \/ IterationFails(c)

\* Nothing goes on but a start() that spins for a thread that was killed.
Finished ==
  /\ \A c \in Clients : At(c, "idle") \/ At(c, "spin")
  /\ UNCHANGED vars

Next ==
  \/ \E c \in Clients : ClientStep(c)
  \/ \E c \in Submitters, t \in Tasks : SubmitTask(c, t)
  \/ \E wait \in BOOLEAN : Shutdown(Owner, wait)
  \/ \E m \in Managers : RunManager(m) \/ ManagerGivesUp(m) \/ RunWorkers(m)
  \/ Finished

Spec == Init /\ [][Next]_vars

\* The clients and the threads of the managers get on; stop() gives up after
\* its 60 seconds, and terminated threads end.  Nothing makes a client call or
\* an idle manager leave.
Fairness ==
  /\ \A c \in Clients : WF_vars(ClientStep(c))
  /\ \A m \in Managers : WF_vars(RunManager(m))

FairSpec == Spec /\ Fairness

-----------------------------------------------------------------------------
FutureStates == {"unsubmitted", "called", "raised", "pending", "resolved"}

ManagerTypeOK(o) ==
  /\ o.running \in BOOLEAN /\ o.inited \in BOOLEAN
  /\ o.threads \in Seq({"new", "boot", "loop", "down", "drain", "ended",
                        "killed"})
  /\ o.thread \in 0 .. Len(o.threads)
  /\ o.doomed \subseteq DOMAIN o.threads
  /\ o.held \subseteq Tasks

\* The type of every variable.
TypeOK ==
  /\ DOMAIN managers \subseteq Names(repo)
  /\ created \in 0 .. MaxTasks
  /\ \A mode \in DOMAIN managers : managers[mode] \in 1 .. created
  /\ alive \in BOOLEAN /\ overlapped \in BOOLEAN
  /\ counter \in 0 .. ClearLimit
  /\ \A m \in Managers : ManagerTypeOK(obj[m])
  /\ future \in [Tasks -> FutureStates]
  /\ shutdowns \in 0 .. MaxShutdowns
  /\ \A c \in Clients :
       /\ call[c].mode \in Names(repo) \cup {None} \cup {asked.mode : asked \in Asks}
       /\ call[c].mgr \in 0 .. created

(***************************************************************************)
(* The choice of a mode.                                                   *)
(***************************************************************************)
\* All tags under which a specification is found.
FoundBy(name) == {tag \in DOMAIN repo.index : name \in repo.index[tag]}

Wanted(c) == ToSet(call[c].ask.tags)

\* If any specification has all the tags of a call, only specifications that
\* have them all are chosen from, however the tags are ordered; a mode that
\* the caller names is the one it gets; and a plain function never ends up
\* with asynchronous workers as its only choice (_guess_mode, filter_by_tags).
ChoiceFits ==
  \A c \in Clients : At(c, "choice") =>
    /\ call[c].ask.mode # AnyMode => call[c].modes = {call[c].ask.mode}
    /\ (\E name \in Names(repo) : Wanted(c) \subseteq FoundBy(name))
         => \A name \in call[c].modes \cap Names(repo) :
              Wanted(c) \subseteq FoundBy(name)
    /\ call[c].modes = {"async"} => call[c].ask.async

(***************************************************************************)
(* The managers.                                                           *)
(***************************************************************************)
LiveThreads(m) == {k \in DOMAIN obj[m].threads : Alive(m, k)}
Listed == {managers[mode] : mode \in DOMAIN managers}

\* As long as calls do not overlap, no manager has two threads: start() is
\* only ever successful when the manager's thread has ended.
OneThread ==
  ~overlapped => \A m \in Managers : Cardinality(LiveThreads(m)) <= 1

\* As long as calls do not overlap, a manager whose thread serves tasks unknown
\* to _managers, where shutdown() would find it, is one that was started a
\* second time: submit_task may clear the manager it has just started again,
\* whose new thread has not set `running` yet.
OrphansWereRestarted ==
  ~overlapped =>
    \A m \in Managers \ Listed :
      obj[m].running /\ LiveThreads(m) # {} => Len(obj[m].threads) > 1

\* As long as calls do not overlap, an executor that says that it is not
\* alive has no manager in _managers whose thread goes on: shutdown() waited
\* for each, or has raised SystemExit in it.
DeadIsStopped ==
  ~overlapped /\ ~alive =>
    \A m \in Listed : LiveThreads(m) \subseteq obj[m].doomed

\* Every call of submit_task() and of shutdown() comes to its end, overlapping
\* or not, except for a start() whose thread was killed before it began.
CallsEnd ==
  \A c \in Clients :
    ~At(c, "idle") ~>
      \/ At(c, "idle")
      \/ At(c, "spin") /\ LiveThreads(call[c].mgr) = {}

=============================================================================
