# Verification of hybrid-pool-executor

TLA+ models of the pools of this repository, TLC configurations that check them
on small instances, and proofs, checked by TLAPS, of what holds for instances of
every size.

## The system

`HybridPoolExecutor` runs functions and coroutines in threads, event loops or
processes.  `submit_task` picks a *mode*, and each mode has a *manager* with
*workers*.

| component | state it keeps | operations | interacts through |
|---|---|---|---|
| executor (`executor.py`) | `_managers` (mode to manager), `_is_alive`, `_clear_counter` | `submit_task`, `map_tasks`, `_clear_manager_if_needed`, `shutdown` | calls managers from any client thread, without a lock |
| specifications (`spec.py`) | `ModuleSpecRepo`, `_tag_index` | `import_spec`, `filter_by_tags`; `_guess_mode` | read by the executor |
| thread manager (`workers/thread/manager.py`) | `_state`, `_thread`, `_curr_workers`, `_curr_tasks`, `_task_bus`, `_response_bus` | `start`, `submit`, `_adjust_workers`, `stop`, `terminate` in client threads; `_run`, `_consume_response`, `_stop_all_workers` in its own thread | buses to and from its workers; joins and restarts their threads; shares `_state`, `_thread` and the two tables with the clients, without a lock |
| thread worker (`workers/thread/worker.py`) | `_state` (running, idle, inited), `_thread`, the counters of `_run_core` | `start`, `stop` called by clients and the manager; `_run` in its own thread | takes tasks from the task bus, resolves futures, answers on the response bus, takes requests from its request bus |
| async worker, manager (`workers/asyncio`) | as above, and an event loop with a task per coroutine | as above; `AsyncManager` is `ThreadManager` with another worker class | as above |
| process worker, manager (`workers/process`) | `_running`, `_idle`, `_inited` (events shared by the processes), `_process`; the manager as above and `_task_bus_qsize`, a shared counter of waiting tasks | as above; the manager's thread resolves the futures and waits for all tasks before it ends | `Queue` between processes, events, the counter |
| process queue (`workers/process/queue.py`) | `_buffer` and a feeder thread in each process; pipe, `_rlock`, `_wlock`, `_sem` shared | `put`, `get`, `_feed`, `_finalize_close`, `_finalize_join` | a pipe between the processes |
| shared helpers (`base.py`, `constants.py`, `utils.py`) | | `Action`, `adjust_worker_iterator`, `rectify`, `Future` | |

What is hard in it: no lock protects anything but the queues.  Client threads,
the manager's thread and the threads of the workers read and write flags, thread
references and dictionaries of one another between any two bytecodes; workers
end and are restarted while tasks wait; idle workers and idle managers give up
by timeout while tasks arrive; `stop()` runs against all of it.

What makes each component correct:

* thread worker: each task it takes is run once, its future resolved and its end
  announced once; the limits on tasks and errors hold; it announces its own end
  once, as the last thing it does.
* thread manager: the tables agree with where tasks and workers are; a restart
  finds an ended thread; no answer makes it raise; it ends all workers; accepted
  tasks are resolved.
* async pool: the same promises (`TaskContract`) with many tasks in one worker;
  an event loop ends only after its coroutines, and every answer reaches the
  manager.
* process pool: the same promises, with answers that travel through a second
  buffer and with processes that die; the drain at the end waits for exactly the
  tasks that can still be answered; whatever the counter of waiting tasks says,
  tasks are served and `num_workers` is respected.
* process queue: what one process puts arrives once and in order (`Channel`), the
  slots are accounted for, and nobody but a killed process keeps a lock.
* executor: the mode fits the request; one live manager per mode, in the table;
  a shutdown ends all of them; every call comes to its end.
* specifications: `filter_by_tags` returns the specs that have all the tags.

## Modules

| module | what it is | code |
|---|---|---|
| `PoolBase` | pure helpers: flags, limits, `WorkersToAdd`, `Rectify` | `base.py`, `constants.py`, `utils.py` |
| `PoolState` | what the threads of a pool share: buses, worker flags, futures | `base.py` |
| `ThreadWorker` | one action per visible step of a worker's thread | `workers/thread/worker.py` |
| `ThreadManager` | the manager's thread and the methods called by clients | `workers/thread/manager.py` |
| `ThreadPool` | composition of the two, fairness, and the properties | |
| `AsyncWorker` | one action per visible step of an event loop, and the last step of a coroutine | `workers/asyncio/worker.py` |
| `AsyncPool` | `AsyncWorker` composed with `ThreadManager`, fairness, and the properties | `workers/asyncio/manager.py` |
| `ProcessQueue` | the queue between processes: one action per step of `put`, of the feeder thread and of `get` that another process can see | `workers/process/queue.py` |
| `ProcessState` | `PoolState` and the shared counter | `workers/process/worker.py` |
| `ProcessWorker` | the process of a worker and the feeder of its answers | `workers/process/worker.py` |
| `ProcessManager` | what the manager of processes does differently from `ThreadManager`, which it extends | `workers/process/manager.py` |
| `ProcessPool` | composition of the two, fairness, and the properties | |
| `SpecRepo` | the repository of specifications and the choice of a mode, as operators | `spec.py`, `executor.py` |
| `Executor` | clients that submit and shut down, the table of managers, and managers reduced to their flags and threads | `executor.py`, `workers/thread/manager.py` |
| `TaskContract` | abstract: what a pool promises about tasks and futures | |
| `Channel` | abstract: what a queue between processes promises | |
| `ManagerInv` | the parts of inductive invariants that speak of `ThreadManager` only | |
| `ThreadPoolInv`, `AsyncPoolInv`, `ProcessPoolInv`, `ExecutorInv` | inductive invariants (that of the queue is in its proofs) | |
| `MCThreadPool`, `MCAsyncPool`, `MCProcessQueue`, `MCProcessPool`, `MCExecutor` | constants for TLC, symmetry | |
| `ManagerProofs` | lemmas about sequences and the actions of `ThreadManager`, for both pools that extend it | |
| `ThreadPoolProofs`, `ContractProofs` | theorems about `ThreadPool` | |
| `AsyncProofs` | theorems about `AsyncPool` | |
| `QueueProofs` | theorems about `ProcessQueue` | |
| `ProcessProofs`, `ProcessTaskProofs` | theorems about `ProcessPool` | |
| `ExecutorProofs` | theorems about `Executor` | |

`ThreadWorker`, `AsyncWorker` and `ThreadManager` extend `PoolState` and know
nothing of each other; `ThreadPool` and `AsyncPool` extend a worker and the manager
and interleave them.  `ProcessPool` does the same over `ProcessState`;
`ProcessManager` takes from `ThreadManager` the actions of the code that
`process/manager.py` has in common with `thread/manager.py`, line by line.
`ProcessQueue` stands alone: `ProcessPool` uses what it promises, not its steps.
`Executor` stands alone as well, since a pool in full behind each of its managers
would be out of TLC's reach; its managers have the flags, threads and control
points of `ThreadManager` that `start`, `stop`, `terminate` and `submit` look at.

Names whose suffix tells a mistake (`GetTask_Peeks`, `StopJoined_NoWait`, ...) are mutants: wrong
forms of the definition that follows them, there to show that a property notices.

### How the state corresponds to the code

`taskBus`, `responseBus`, `requestBus[w]` are the queues; `running`, `idle`,
`inited` the fields of `WorkerState`; `thread[w]` and `mThread` say whether
`_thread` is not None; `currTasks`, `currWorkers` are the keys of the two
dictionaries.  `pc[w]`, `mpc` and `cpc[c]` are the control points of worker `w`,
of the manager's thread and of client `c`; the other variables are locals.

| code | actions |
|---|---|
| `ThreadWorker._run` up to the loop, its end | `Boot`; `Quit`, `ClearThread` |
| `_run_core`: timeout, requests, flag | `TimeOut`, `HandleRequest`, `NoRequest`, `CheckRunning` |
| `_run_core`: `task_bus.get` | `GetTask`, `GetEmpty` |
| `_run_core`: try, finally | `BeginTask`, `RunTask`; `FinishAndContinue`, `FinishAndRestart`, `FinishAndFail`, `FinishAndDie` |
| `_async_run`: up to the loop, its head, timeout, requests, flag | `Boot`, `MarkIdle`, `TimeOut`, `HandleRequest`, `NoRequest`, `CheckRunning` |
| `_async_run`: taking tasks, `sleep(0)` | `TakeTask`, `CreateTask`, `StopTaking`, `EndTurn` |
| `_async_run.coroutine` | `RunCoroutine`, `ExitCoroutine` |
| `_async_run`: collecting answers | `CollectAndContinue`, `CollectAndRestart`, `CollectFails`, `CollectDone` |
| `_async_run` behind the loop | `Await`, `AwaitReturns`, `AwaitFails`, `Flush`, `FlushAnswer`, `ClearThread` |
| `ThreadManager._run` | `ManagerBoot`, `ManagerIdleOut`, `ManagerCheck`, `BusDrained`, `ManagerDown`, `ManagerEnd` |
| `_consume_response` | `ConsumeResponse`, `ConsumeFails`, `KilledConsuming`; then `StopFlag` ... `StopDone`, `RestartWorker`, `RestartReturns` |
| `_stop_all_workers` | `CloseWorker`, `CloseDone`, `HaltWorker`, `IterationFails`, and `StopFlag` ... `StopDone` |
| `ThreadManager.start` | `Start`, `StartReturns` |
| `submit` and `_adjust_workers` | `Submit`, `Queue`, `AdjustWorkers`, `CountTasks`, `ScanWorker`, `ScanFails`, `ScanDone`, `SpawnWorker`, `SpawnReturns`, `SubmitReturns` |
| `stop`, `terminate` | `Stop`, `StopTestsAlive`, `StopCallsJoin`, `StopReturns`, `StopGivesUp`, `StopExpired`, `StopRaises`; `Terminate`, `TerminateTestsAlive`, `TerminateKills`, `ManagerKilled` |
| `Future.cancel` | `Cancel` |
| `ProcessWorker._run`, `_run_core` | `Boot`, `TimeOut`, `HandleRequest`, `NoRequest`, `CheckRunning`, `GetTask`, `GetEmpty`, `LoadCounter`, `StoreCounter`, `BeginTask`, `RunTask`, `Finish...`, `Quit` |
| a worker's feeder, its process ending or killed | `SendAnswer`, `DropAnswer`; `EndProcess`, `Crash` |
| `ProcessManager._run` | as `ThreadManager._run`; `BusEmpty`, `Drained` |
| `ProcessManager._consume_response` | `GetAnswer`, `PopTask`, `SetFuture`, `HandleAnswer`; then `ClearRunning`, `JoinProcess`, `ForgetProcess`, `RestartProcess`, `RestartSeen` |
| `ProcessManager.submit`, `_adjust_workers` | `PutTask`, `LoadCount`, `StoreCount`, `ReadCount`, `ScanProcess`, `EnterWorker`, `LaunchWorker`, `LaunchSeen` |
| `Queue.put`, `_feed`, `get` | `Admit`, `Fill`; `Pop`, `Pickle`, `PickleFails`, `PickleFailsLate`, `LockPipe`, `Send`, `UnlockPipe`, `MeetSentinel`; `LockReader`, `PollFails`, `Receive`, `ReleaseSlot`, `UnlockReader` |
| `submit_task` | `SubmitTask`, `Choose`, `UnknownMode`, `Create`, `Mark`; `Start...`, `Launch...`; `NoClear`, `BeginClear`, `ClearScan`, `ClearScanned`, `ClearPop`, `ClearEnds`; `SubmitRaises`, `Submit`, `Queue` |
| `shutdown` | `Shutdown`, `Visit`, `StopFinds`, `StopJoins`, `JoinReturns`, `StopExpires`, `StopDone`, `StopRaises`, `Terminate`, `ShutdownEnds` |
| iterations over `_managers` | `IterationFails` |
| a manager's thread, seen by the executor | `Boot`, `IdleOut`, `SeesStop`, `Down`, `End`, `Killed`, `Complete` |

In `AsyncWorker`, `active[w]` holds the coroutines of `_async_tasks` that have not
ended, in the order of that dictionary; `finished[w]` is `async_response_bus`;
`raised[w]` are the tasks whose coroutine ended with an exception, so that awaiting
it raises; `curr_coroutines` is the sum of the two lengths.  `is_prev_coro_err` is
left out: while it is not set, `cons_err_count` is 0.

In `ProcessPool`, `running`, `idle`, `inited` are the events, `thread[w]` says
whether `_process` is not None, `outbox[w]` is the buffer of the response bus in
process `w`, `counter` the shared counter, and `seen[w]`, `cSeen[c]` what a
`-= 1` and a `+= 1` in progress have read.  `pc[w] = "flush"` is a process that
has left `_run` and joins its feeder, `"died"` one that was killed.  `received` is
the `response` that `_consume_response` has in its hands.

In `Executor`, `obj[m]` is a manager object: `running`, `inited`, `_thread`,
every thread that `start()` ever gave it, the threads that `terminate()` has hit,
and `_curr_tasks` (`held`).  `call[c]` is the call in which client `c` is, with
its locals; `repo`, `managers`, `alive` and `counter` are the executor's fields.

### What is atomic

The interpreter lock makes one read or write of an attribute, one dictionary
operation and one call of a `SimpleQueue` method atomic.  Steps are merged
only where no other thread can tell the difference, or where the intermediate
state equals one that is reachable anyway:

* the three flags written at the start of a worker's `_run`; the two flags and
  the `put` at its end; `idle = True` and the `put` after a task;
* the insertion into `_curr_tasks` and the `put` in `submit`;
* in `ThreadManager`, the `get` and the pops of `_consume_response`, except when
  `terminate()` lands between them (`KilledConsuming`);
* `_curr_workers[...] = worker` and `worker.start()` in `ThreadManager._adjust_workers`:
  in between, the worker is in the dictionary without a thread, and the only other
  thread that could look at it there is a manager that is stopping all workers while a
  client is still inside `submit`.  The dictionary has then changed under its
  iteration, or `worker.stop()` finds no thread and the client starts it afterwards:
  a worker left behind by an overlapping `submit`, which other orders reach as well.
  Processes keep the two apart (`EnterWorker`, `LaunchWorker`);
* `qsize()` and the start of the iteration in `_adjust_workers`;
* a write of `running` and the first read of `_thread` in a `stop`;
* in an event loop, leaving the loop with `running = False`; a coroutine's
  outcome, its future and its answer, since no other coroutine runs in between;
* in a process, the three events set at the start of `_run` (nobody reads them
  before `running`) and those cleared at its end; the end of a function, its
  counters, `idle.set()` and the `put` into the process's own buffer;
* in the manager of processes, the pop of a worker and the end of
  `_consume_response`.

Between processes, a queue of `ProcessPool` is one sequence: an object is in it
once the feeder has sent it.  Therefore a worker may always find its task bus or
its request bus empty (`GetEmpty`, `NoRequest`), whatever the sequence holds:
what was put may still be in a buffer or behind a lock.  That the objects
come through is what `Queue` checks.

Kept apart, because the difference matters: in the manager of processes, the `get`
of an answer, the pop of its task, `set_result` and the lookup of its worker, between
which `terminate()` may kill the manager; in the queue, each acquiring and releasing of
a lock or a slot; the read and the write of
`task_bus_qsize.value += 1` and `-= 1`; the task on the bus and the counter; the
process launched and its event seen; in `submit_task`, every look at the manager
and at the table; `task_bus.get` and `idle = False`;
the end of a worker's loop and `_thread = None`; each read of `_thread` in
`stop` and `terminate`, by the executor as well; the empty request bus and the test of `running`; the
`is_idle` of one worker after the other; the idle manager leaving its loop and
`running = False`.

### Other abstractions

* The clock: a test for a timeout may succeed whenever the thread gets to it,
  for an idle worker, an idle manager and `join(timeout)` alike; the one exception is
  the idle manager of `Executor`, below.
* A function returns, raises an `Exception`, or raises a `BaseException` such as
  `SystemExit` (`Outcomes`).  Payloads, results and names are left out; task
  names are distinct, as automatic names are.
* The owner starts a manager once, as `submit_task` does, and calls `stop` or
  `terminate` once.  `submit` comes after `start`.  Futures are cancelled by
  whoever got them from `submit`.
* `KillableThread.terminate` delivers `SystemExit` between two bytecodes, hence
  not while the thread waits in `join`.
* A dictionary whose size differs from the size at the start of an iteration
  makes the next step of the iteration raise `RuntimeError`.
* No code in the repository sends `ACT_RESET` or `ACT_RESTART` to a worker; the
  manager sends `ACT_CLOSE` only.  `HandleRequest` has the code's branches for
  all of them.

* In an event loop, coroutines end only where `_async_run` awaits something that
  suspends: `sleep(0)` and the coroutines it waits for at the end.  They end in
  any order.  A function may also raise asyncio's `CancelledError`, a
  `BaseException` that ends its coroutine but not the loop.
* A process is killed at any step (`MayCrash`), in `ProcessPool` with no lock of a
  queue in its hands; with locks in its hands in `ProcessQueue`.  Results may fail
  to be pickled (`Unsendable`), exceptions to be loaded (`Unloadable`); a task that
  cannot be pickled is replaced by one that raises (`queue.py:294`), which is the
  outcome `"exception"`.
* The unsigned counter has `CounterModulus` values instead of 2^64, more than
  there are tasks, so that every wrap below 0 happens as it does in the code.
* In `Executor`, the number 256 of `_clear_manager_if_needed` is `ClearLimit`, and
  its 300 seconds may always be over.  A task ends whenever a thread of its manager is
  alive or was killed; a manager that ends by itself drops what is left.  A manager does not leave for
  idleness while `terminate()` is on its way to hit its thread, unless it was stopped:
  its idle time is longer than that (`IdleOut`, `Terminating`).  What the
  specification of a manager is filled with (`_get_manager`) is left out.
* `task.cancelled` is set nowhere, so `AsyncWorker` and `ProcessWorker` leave out its branch, and
  `ThreadWorker` has it behind a definition that is FALSE.

## Runs

`Restarts`, `Faults`, `Timeouts` and `IdleRace` are of `MCThreadPool`, the runs whose
names begin with `Async` of `MCAsyncPool`, those with `Process` of `MCProcessPool`,
`Queue` of `MCProcessQueue`, and `Executor` of `MCExecutor`.  `Tasks` are
interchangeable, so that safety runs of threads and coroutines use symmetry; runs
that check liveness do not.

Each module that composes a component states the types of its variables as `TypeOK`.
`Restarts` checks that of threads; those of the others hold on the instances of
`AsyncEnds`, `Queue`, `ProcessStop` and `Executor` (add `TypeOK` to their INVARIANTS).

Each row names what the run lets happen; everything not named is off (no timeout,
no cancellation, no stop, negative limits).

| run | instance | properties | states |
|---|---|---|---|
| `Restarts` | 1 client, 2 tasks, `num_workers` 2, incremental, functions may raise, restart after one error, `stop()` at any moment; `FairSpec` | `TypeOK`, `RestartNeverRaises`, `LimitsRespected`, `DiesOnlyInStop`, `StopEndsWorkers`, `AcceptedResolves` | 261 000 |
| `Faults` | 2 clients, 2 tasks, static size 1, restart after each task, every future may be cancelled, functions may raise `SystemExit` | `TaskInOnePlace`, `TasksTracked`, `PopsAreSafe`, `ImplementsContract` | 98 000 |
| `Timeouts` | 1 client, 2 tasks, `num_workers` 1, restart after each task; worker, manager and `join` may time out, `stop()` or `terminate()` at any moment; `TimedSpec` | `WorkersKnown`, `ExitsTracked`, `StopCallEnds` | 119 000 |
| `AsyncEnds` | 1 client, 2 tasks, 2 event loops that may time out, functions may raise, restart after one error, `stop()` at any moment | `NoAnswerLost`, `PendingIsHeld`, `StopEndsWorkers` | 1 108 000 |
| `AsyncFaults` | 1 client, 2 tasks, 2 event loops, every future may be cancelled, functions may raise `CancelledError`, `stop()` at any moment | `TaskInOnePlace`, `IdleIsFree`, `ImplementsContract` | 681 000 |
| `AsyncProgress` | 1 client, 2 tasks, 1 event loop, functions may raise, the idle manager may time out, `stop()`; `FairSpec` | `AcceptedIsForgotten` | 122 000 |
| `AsyncStopping` | 1 client, 3 tasks, 1 event loop that may time out, restart after three tasks, functions may raise `SystemExit`, `stop()`; `TimedSpec` | `StopCallEnds` | 167 000 |
| `Queue` | 4 objects of 2 processes, 2 getters (one without a timeout), 2 slots, a pipe of one object; one object cannot be pickled; one putter and one getter may be killed, either putter may exit; `FairSpec` | `SlotsAccounted`, `ExitLosesNothing`, `ImplementsChannel`, `ObjectsArrive` | 87 000 |
| `ProcessStop` | 1 client, 2 tasks, `num_workers` 2, restart after each task, `stop()` at any moment, `CounterModulus` 4; `FairSpec` | `TaskInOnePlace`, `PendingIsSomewhere`, `WorkerLimit`, `StopIsComplete`, `AcceptedResolves`, `StopCallEnds` | 86 000 |
| `ProcessFaults` | 1 client, 2 tasks, `num_workers` 1, restart after two tasks; functions raise `Exception` or `SystemExit`, one future may be cancelled, the answers to one task can be neither pickled nor loaded, the first worker may be killed, worker and manager may time out, `terminate()` at any moment | `AccountsAgree`, `ExitsTracked`, `DiesOfTasksOnly`, `ImplementsContract` | 268 000 |
| `Executor` | 2 clients, one submits twice, the other shuts down once, with or without waiting; 5 kinds of requests, an extra mode and an overwritten specification; managers may leave for idleness; `ClearLimit` 1; `FairSpec` | `ChoiceFits`, `OneThread`, `OrphansWereRestarted`, `DeadIsStopped`, `CallsEnd` | 319 000 |

What they show:

* `Restarts`: a restart never meets a live thread or one of its own old answers;
  the limits hold over every restart; the one way in which the manager's thread
  can die here is the race inside `worker.stop()` between its test of
  `self._thread` and the worker's `self._thread = None`; a `stop()` that returns
  leaves no worker; accepted tasks are resolved through restarts of both workers,
  or the manager's thread is dead, stopped or killed by that race.  `StopEndsWorkers`
  is about one client: a `submit` during `stop` may create a worker that nobody stops.
  What both properties allow beyond that needs what this run excludes: `MayFault`
  (an answer of None after a cancelled future or a `SystemExit`), `MayGiveUp` (a worker
  that announced its end and is at its last statement), another client, or a manager
  that leaves for idleness.
* `Faults`: no order of steps duplicates, loses from the tables, or runs twice a
  task, although futures are cancelled under the worker's hands and threads die
  with their flags set.  The pool implements `TaskContract`: an abstract queue from
  which tasks are taken in order, each run at most once, each future resolved at
  most once, and forgotten afterwards.
* `Timeouts`: no worker that may run a task is missing from `_curr_workers`, however
  timeouts, restarts, `stop` and `terminate` interleave; and `stop()` returns, even
  when its `join` has no timeout.
* `AsyncEnds`: an event loop that ends, by timeout, by a limit or by `stop()`, ends
  after its coroutines, so that an unresolved task waits on the bus or runs in a
  live loop; no answer is lost on the way, whether collected in the loop or put on
  the bus behind it.  (`NoAnswerLost` excepts a manager that `terminate()` killed,
  which may have an answer in its hands; this run has `stop()` only, the theorem both.)
* `AsyncFaults`: though event loops die in the middle, no task is in two places or
  unknown to the manager, and the pool implements `TaskContract`, which is
  instantiated here with all coroutines as `executing`.
* `AsyncProgress`: every accepted task is resolved and its end reaches the manager,
  unless the manager leaves its loop, stopped or idle for too long.
* `AsyncStopping`: `stop()` returns even when an event loop died of `SystemExit`
  with a restart announced, so that the next one finds coroutines it cannot await
  (three tasks are needed: one to reach the limit, one to raise, one to be left).
* `Queue`: the queue implements `Channel`: per putting process a line, taken from its
  head, from which only an object that cannot be pickled is dropped, and of which
  only the tail is lost with its process.  Every other object arrives, unless a
  process was killed with a lock in its hands, in which case the queue is locked for
  everybody else (a lock of `multiprocessing` is not robust).  No slot is ever
  given back twice, and one leaks only with a killed process or with a pickling
  error of a process on its way out.
* `ProcessStop`: `stop()` is what the comment above the drain says: when it returns,
  every accepted task is resolved and every worker process has left or is about to.
  It needs no truth of the counter: the run passes through states in which the
  counter has lost updates, and even wrapped; `num_workers` is respected all the same
  (`WorkerLimit`; with one client: two concurrent calls of `submit` may exceed it, since
  both count the workers before either adds one).  `AcceptedResolves` and `StopCallEnds`
  except the one way in which a pool without faults hangs, a `start()` that misses
  the life of its process (`StartMissed`).
* `ProcessFaults`: whatever dies, a task that is anywhere has its entry in
  `_curr_tasks`, so that the drain never ends too early, until the manager pops it to
  set its future; and one that has left the table is resolved, or its answer is in the
  hands of the manager.  A `terminate()` that kills the manager there leaves the task
  out of the table with its future pending: `AccountsAgree`, `PendingIsSomewhere` and
  the contract allow it for a killed manager and the one answer in its hands, and the
  contract only where the owner may call `terminate()` (`Losses`).  The manager's thread
  dies of what becomes of a task, never of a
  worker that crashed, was restarted or was late.  `TaskContract` is instantiated
  with a task in progress until the manager has its answer, and with `Aborts`, which
  lets runs end without one.
* `Executor`: as long as calls do not overlap, no manager has two threads; one that
  serves without being in the table is one that was started again
  (`OrphansWereRestarted`, see "Where the code does not do what it says"); and an
  executor that says that it is not alive has stopped its managers.  Overlapping or not, every call comes to its end, which
  includes the calls that raise.  `ChoiceFits` covers a mode that is unknown, tags in
  an order that empties the intersection, and an overwritten specification.

`IdleRace` finds a statement of the repository violated; see "Where the code does not
do what it says".

### Bounds

`MaxWorkers` bounds how many worker objects a behaviour creates, and is the only
bound on the model itself: `SpawnWorker` waits when it is reached (`Terminated`
lets such a behaviour end).  In every passing run but those of async pools with
timeouts it is at least the number of workers the code can want to create; the properties are
about workers that exist, and each hazard needs at most two.
Two tasks are enough for every pairwise race (the two orders on the bus, one task
running while the other arrives); a restart after each task, with two tasks and one worker, lets a task wait through a
restart.  In `Queue`, two objects per process are what order and loss of a tail need,
two slots and a pipe of one object make puts wait for a slot and feeders for the pipe,
and two processes on each side contend for each lock.  In `Executor`, the second call
of `submit_task` finds whatever the first and a shutdown have left, and `ClearLimit` 1
makes the clearing happen in either of the two.  Counters (`taskCount`, `errCount`) are bounded by
the number of tasks.

### Fairness

`FairSpec` has weak fairness of each thread: the operating system and the
interpreter run every thread again and again, and none of the steps can be
disabled by others for ever once its thread can take it.  Nothing forces a
client to begin a call, a timeout to expire, or a future to be cancelled.
In `AsyncPool` there is also strong fairness of each coroutine: the event loop
resumes it again and again, but only while `_async_run` awaits, and the functions
of the tasks come to an end.
`TimedSpec` adds strong fairness of `TimeOut`: the test of the idle time is
at the head of the loop, and a worker that receives no task passes it with a
growing idle time.  `Timeouts` needs it: `RestartReturns` may come before the
restarted thread has set `running`, so that the flag cleared by `stop()` is set
again and only the timeout ends the worker.

In `ProcessPool`, `FairSpec` has weak fairness of each process, each feeder and each
thread, and strong fairness of `TakeTask`: a worker asks for a task again and again,
and may find the bus empty while a task is on its way, but `ObjectsArrive` of `Queue`
says that the object comes through.  In `ProcessQueue`, put, feeder and getter threads
have weak fairness; a lock is released by its holder, dead ones excepted, and the
`get` of each process is called again and again.  In `Executor`, the clients and the
managers' threads have weak fairness; `join` gives up after its timeout, and nothing
makes a client call or a manager leave.

`Restarts`, `Faults`, `Timeouts`, the `Async` runs and `Executor` check for deadlocks;
`Terminated` and `Finished` say where the system may stop.  `Queue`, `ProcessStop` and
`ProcessFaults` do not: a killed process leaves the queue locked, and a `start()` that
missed its process spins without a step, so that the system really stops.

## Proofs

| safety property of a run | theorem | for |
|---|---|---|
| `TypeOK` of threads | `ThreadPoolProofs!TypeCorrect` | all constants |
| `LimitsRespected` | `ThreadPoolProofs!LimitsAreRespected` | all constants |
| `TaskInOnePlace`, `TasksTracked` of threads | `ThreadPoolProofs!TasksInOnePlace`, `TasksAreTracked` | all constants |
| `PopsAreSafe`, `RestartNeverRaises`, `ExitsTracked`, `WorkersKnown` of threads | `ThreadPoolProofs!PopsSafe`, `RestartsNeverRaise`, `ExitsAreTracked`, `WorkersAreKnown` | all constants |
| `ImplementsContract` of threads | `ContractProofs!PoolImplementsContract` | all constants |
| `DiesOnlyInStop` of threads | `ContractProofs!ManagerDiesOnlyInStop` | all constants |
| `StopEndsWorkers` of threads | `ContractProofs!StopsEndWorkers` | one client, no idle manager |
| `IdleIsFree`, `ImplementsContract` of event loops | `AsyncProofs!IdleWorkersAreFree`, `PoolImplementsContract` | all constants |
| `TaskInOnePlace` of event loops | `AsyncProofs!TasksInOnePlace` | no limits |
| `NoAnswerLost`, `PendingIsHeld` of event loops | `AsyncProofs!NoAnswersLost`, `PendingTasksAreHeld` | no cancelled future, no uncaught exception; an answer in the hands of a killed manager excepted |
| `StopEndsWorkers` of event loops | `AsyncProofs!StopsEndWorkers` | one client, no idle manager |
| `SlotsAccounted`, `ExitLosesNothing` | `QueueProofs!SlotsAreAccounted`, `ExitsLoseNothing` | all constants |
| `ImplementsChannel` | `QueueProofs!QueueImplementsChannel` | all constants |
| `ExitsTracked` of processes | `ProcessProofs!ExitsAreTracked` | all constants |
| `TaskInOnePlace`, `AccountsAgree`, `PendingIsSomewhere`, `ImplementsContract` of processes | `ProcessTaskProofs!TasksInOnePlace`, `AccountsAlwaysAgree`, `PendingTasksAreSomewhere`, `ProcessPoolImplementsContract` | all constants |
| `WorkerLimit`, `DiesOfTasksOnly` | `ProcessTaskProofs!WorkersAreLimited`, `ManagerDiesOfTasksOnly` | one client |
| `StopIsComplete` | `ProcessTaskProofs!StopsAreComplete` | one client, no idle manager |
| `OneThread`, `OrphansWereRestarted`, `DeadIsStopped` | `ExecutorProofs!NoManagerHasTwoThreads`, `OnlyRestartedManagersAreOrphaned`, `DeadExecutorsAreStopped` | all constants |
| `ChoiceFits` | `ExecutorProofs!ChoicesFit` | all constants, overlapping calls too |
| `TypeOK` of the executor; all liveness | none: see below | |

`TypeCorrect` of `QueueProofs`, `ProcessProofs` and `AsyncProofs` and
`ForgottenAreResolved` of `ThreadPoolProofs` state what no run lists.  The assumptions are those of the modules on
their constants (types, and values such as `NoTask` outside their sets); nothing else
is assumed.  "All constants" means any number of clients, tasks, workers, processes
and objects, limits of any sign, cancellation, `SystemExit`, crashes and every timeout.
The hypotheses of the last theorems are there because the properties are false
without them, and the code is why:

* `Clients = {Owner}`: two calls of `submit` that overlap both count the workers before
  either adds one, and then exceed `num_workers`; and a late `submit` changes the
  dictionary over which the manager iterates, which raises `RuntimeError`.
* `~ManagerTimesOut`: a manager that leaves for idleness does so while a `submit` may
  have passed its test of `running`, whose task nobody then takes.
* `NoLimits`: at a limit an event loop puts the last answer on the bus in the loop and
  once more behind it (`CollectAndRestart`, `FlushAnswer`), so that the end of a task
  is reported twice.
* `Faultless`, `Cancellable = {}` and no outcome "cancel" or "exit": the error of such a
  coroutine is raised again where the loop awaits it, and what the loop has not
  collected by then is lost with it.

Each inductive invariant was checked by TLC on the instances of the runs of its
module, as an INVARIANT, before it was proved.

### Threads

`TypeCorrect`: the types matter to the later
proofs and are not all obvious: `Min` of a non-empty set of workers is a worker
(a proof from well-foundedness), cardinalities of the tables are numbers, and
`WorkersToAdd` never yields a negative number of iterations, for any sign of
`num_workers` and any stale count of idle workers.

The first part of `ThreadPoolProofs` proves that a task is in one place, is tracked, and is forgotten only
when its future is resolved.  The invariant is `TaskInv` of `ThreadPoolInv`.  None
of the three properties is inductive alone:

* `OnePlace` and `Tracked` restate the first two element by element, over the
  bus, the hands of workers, the answers they prepare and the response bus.
  Each step of the code that moves a task is one of six moves (queue, take,
  answer, release, send, receive); a lemma for each shows that it keeps both, for
  any contents (`QueuePlaced` ... `ReceivePlaced`).
* `QueuedIsNew`: the task a client is about to queue is in no place yet, because
  all tracked tasks have a future that was submitted, and no two clients hold one
  task.
* `ReportsResolved`: an answer with DONE or EXCEPTION names a task whose future
  is resolved, so that the pop forgets no pending task.
* `RequestsClose`: otherwise a request with DONE, copied into an answer, would
  be taken for the end of a task.
* `HandFull`: a worker at the start of the try statement has a task.

Its second part proves the rest of the inductive invariant, `ExitInv`, and from it that
the manager never dies of a `KeyError` (`PopsSafe`), that a restart never raises
(`RestartsNeverRaise`), that ends are announced once and tracked
(`ExitsAreTracked`) and that every worker that may run a task is known
(`WorkersAreKnown`).  The argument:

* a worker holds an answer with CLOSE or RESTART only on its way out
  (`AnswersOK`), because before the manager stops all workers nobody puts a request
  on a request bus; so it puts at most one end on the response bus, in the step
  that clears `running`, and it had none there before;
* the ends on the response bus are therefore those of different workers, known and
  past their loops (`EndsListed`).  Putting one and taking one keep this for any
  contents of the bus (`EndAppended`, `EndTaken`).  When the manager drops or
  restarts a worker, none of its ends is left, so the restarted worker is never
  taken for ended because of its past;
* `HandledOK` and `ThreadsOK` carry the wait of `join` to the `start` that follows:
  only `start()` revives a thread, clients start only fresh workers
  (`WorkersNumbered`), and the manager only the one it has waited for.

The pop of `_curr_tasks` is safe by `TasksTracked`, hence `ExitInv` is inductive only
together with `TaskInv`; `IndInv` is their conjunction with `TypeOK`.  The three
parts hold as invariants on the instances of `Restarts`, `Faults` and `Timeouts`
too (put `IndInv` in the place of their INVARIANTS).  `LimitsRespected` is inductive
with the types alone: the finally clause compares before the worker goes on.

`ContractProofs` proves that each step of a pool is a step of `TaskContract` or leaves
its variables alone.  Under the mapping, what a pool holds is `currTasks`, and what it
executes are the tasks in the hands of workers.  Beyond `IndInv` the simulation needs
`ContractInv`: a worker without work holds no task (otherwise restarting it would
drop one), and a task on the bus or in a hand has a future without a result
(otherwise running it would resolve the future twice).

Its second half is `StopInv`: of what the manager's thread dies, and what `stop()`
leaves behind.  Around `IndInv` it says

* where the manager's loops begin and end (`EndsOK`), and that `worker.stop()` has
  found a thread which only the end of that worker takes away (`StopsOK`), so that
  None in its place means a worker that just ended;
* that without a cancellation and a `BaseException` no answer is None
  (`AnswersSound`): what remains of `AttributeError` is that race;
* that with one client and a manager that leaves its loop when told to, nobody adds
  a worker behind the loop (`QuietEnd`): the dictionary keeps its size under the
  iteration, and the workers already passed by it, whose `join` has returned, have
  no thread any more;
* that workers which cannot give up stay in `_curr_workers` until then
  (`NobodyLeaves`), so that the iteration over it meets them all.

### Event loops

`AsyncInv` of `AsyncPoolInv` shares `ManagerOK` with `ThreadPoolInv`, because an async
manager is the same code; `ManagerProofs` states once what each action of
`ThreadManager` does to it.  The rest is about coroutines:

* `HoldInv`: until its run comes to an answer, a task is held once, on the bus, in the
  list of coroutines of one worker, or in the list of a loop that died; nothing but
  that run resolves its future; and an end that is reported, anywhere, is that of
  a task that is held no more.  Four steps change what is held: `submit`, the `get` of
  a worker, the end of a coroutine, and the boot of a worker whose last loop died.  From
  it follows that each step is one of `TaskContract` or a stutter, limits and
  faults included: what doubles or loses an answer comes after the future is resolved.
* `RemoveFirst`, the end of a coroutine anywhere in the list, leaves all the others:
  proved from the definitions of `SelectInSeq` and `RemoveAt`.
* `AnsweredOnce`: the answers between the coroutine and the manager are those of
  different tasks, in the list of one worker, of two, and on the bus.
* `LoopsSound`: without faults no answer is None and no loop dies; a loop that is being
  left flushes its answers only behind its coroutines, and ends with both lists empty.
* `NothingLost`: every entry of `_curr_tasks` is that of a task that is held or whose
  end is on its way, which each collection and each flush keeps; a manager that is killed
  with an answer in its hands drops that one.
* `IdleInv`: the counter behind the idle flag is raised and lowered in the loop only, so
  the flag needs to be right where the loop turns.

`LeaveInv` is about how event loops end, and `StopsEndWorkers` follows from it.  Its last
part is `QuietEnd`, the same formula as for threads and the same code; `ManagerProofs`
proves once, for both, what the manager's actions do to it.  To get there, `stop()` must
have waited for each loop that it drops or restarts, and a loop must be unable to come
back; which the doubled RESTART of a limit makes the hard part:

* `PartsOK`: a worker's responses are those of its coroutines and, as the last, the one
  it ends with.  A CLOSE comes from a worker that has nothing else to say.  The second
  copy of a RESTART is *spent* (`Spent`): the task it names has left `_curr_tasks`, or
  its first copy is still on the bus ahead of it.
* Hence the manager raises `KeyError` at the pop of `_curr_tasks` before it looks at
  the worker that a spent response names.  `Counts` says which responses the manager will
  act on, in terms of the bus and of the table alone, so that one lemma about each of
  an append and a `get` serves all actions.
* `EndsListed`: ends that count are of different workers, and each of a worker that is
  `Silent`: known, behind its loop, with no CLOSE left to announce.  `Listed` leaves out
  the worker that the manager is restarting, which by then has no other end on the bus.
  It holds while the manager `Listens`: a killed one acts on no end any more.
* `Emptied`: a worker that the manager has popped is at its last statement or has ended,
  with neither coroutines nor answers.  That is what `StopEndsWorkers` allows.

### The queue between processes

`PlaceInv` says that an object is in one place: waiting, in a buffer, with a feeder, in
the pipe, or received; and that feeders and getters hold something exactly at the
control points between taking and giving.  `SlotInv` counts: `Occupying` is finite, and
each action either keeps it, or moves one object out of it and gives one slot back, or
the reverse; the slots of a killed process leak.  `LossInv` follows each object that
was put: it is kept, delivered, or its process was killed or put something that cannot
be pickled.

`QueueImplementsChannel` rests on `PlaceInv` and on nothing else.  `Channel` knows no
sequences: it has the set of objects on their way, and for each of them the set of those
of the same producer that are ahead of it; an object is taken only when none is ahead,
and what leaves is ahead of nothing any more.  For the queue, "ahead" compares places:
the pipe comes before the hands of the feeder, these before the buffer, and within
the pipe and each buffer the positions count.  `Put` adds an object behind all others of
its process (`Fill`, the `append` of `put`); `Receive` is `Take`, because the head of the
pipe has nobody before it; an object that the feeder cannot pickle is a `Drop`; the end
of a process (its sentinel, a late pickling error, a kill) is an `End`, which loses a
tail of its objects and nothing that was ahead of what stays.  Every other step (locks,
the feeder's `Pop` and `Send`, the end of a getter) at most moves an object from one place
to the next without changing who is before whom: a stutter.  An earlier mapping filtered buffer and pipe by producer with
`SelectSeq`, whose values only induction over data yields; the order says the same.

### Processes

`ExitInv`, `TaskInv` and `PendingInv` of `ProcessPoolInv` correspond to those of threads,
with one more place on the way: an answer is in the buffer of its process before it is
on the bus, and a process that is killed takes its buffer along.

* `EndsListed`: the end of a worker is the last that its process says, and is on the bus
  only when the buffer is empty, because the process joins its feeder before it ends.
  Hence a restarted worker has nothing of its past life on its way.
* `Replies`: an answer in the manager's hands counts as the head of the response bus,
  and its task as `Known`, until the future is set; the invariants about the bus are
  stated for `Replies`, so that the `get` changes nothing and `set_result` is what takes
  an answer away.  `HandOK` says of each step of `_consume_response` whether the task
  of the answer is in the table and whether its future is set; `Attended` is the worker
  whose end is being handled, from the `get` of its announcement on.
* `KillInv`: only `terminate()` kills the manager, so that `Losses` of the contract is
  needed where the owner may call it and nowhere else.
* `AnswersSound`: the manager meets None only where functions raise `SystemExit`, and an
  answer with DONE or EXCEPTION names a task: a worker copies flags from requests, and
  no request carries one of these.
* `Buried`: a process that died and that no announcement will restart; tasks in its
  hands are the ones that `PendingIsSomewhere` gives up.
* `QuietEnd`: behind the manager's loop nobody submits, the table is empty once the
  drain is over, and each worker that `_stop_all_workers` has been to has no live
  process.  The counter of waiting tasks occurs nowhere in it: that `stop()` is
  complete does not depend on the counter.
* `RoomLeft`: workers in the table and workers still to be added do not exceed
  `num_workers`, since the number to add was computed from the table, to which nobody
  else adds.

When the proof of `PendingIsSomewhere` was attempted it turned out that an answer that
cannot be pickled may take along answers of *other* tasks: the feeder of a process on
its way out ends at the first error (`queue.py:318`).  `AnswerLost` therefore lets any
task be lost where some answer is `Unsendable`; an answer that cannot be loaded
costs only its own task.

### The executor

`Typed` holds in every state: besides the types it counts managers.  A call of
`submit_task` creates at most one, and the calls that may still create one are not
counted (`ManagersCounted`), so that `MaxTasks` managers are enough.  `CalmInv` holds as
long as calls do not overlap (`~overlapped`) and describes the one call in progress
together with the threads of all managers:

* `ThreadsOK`: of the threads a manager was ever given at most one goes on; it is the
  one in `_thread`, or `terminate()` has hit it; a thread that has not begun is waited
  for by the call that made it.
* `SubmitOK`: between `is_alive()` and `start()` the manager may leave for idleness, so
  the call may find it alive and start it nevertheless, but only when its thread has
  ended; and what `_clear_manager_if_needed` has put aside is not serving.
* `ShutdownOK`: every manager that `shutdown()` has been to has stopped, or
  `terminate()` has hit its only thread, or it is the one that the call is at; between
  the reads of `_thread` in `stop()`, no thread seen means none that goes on; and a
  thread that `terminate()` is about to hit has not left its loop with `running` set
  (`SoundlyLeaving`).

Both halves of a manager's record change in one step of a call and one of a thread, and
the proof goes action by action, first for the threads and then for the calls.  The
attempt showed that `OneThread` fails on larger instances if a thread that
`terminate()` has hit may still leave for idleness, and the model was corrected:
`PyThreadState_SetAsyncExc` raises at the next bytecode of the thread, before the
test of its idle time can come out true (`IdleOut`).  Between `running = False` and the
hit, `terminate()` takes less than the idle time, too (`Terminating`): a thread that sets
`running` in between, because its `start()` returned before it began, is hit before it
has been idle for so long.  These are the two places where a timeout is not free to
expire.  The invariant was checked with three tasks and
two shutdowns of one client, too, where the run `Executor` has two and one.

`ChoicesFit` needs no calm: `ChoiceInv` says that a call that has chosen, and has not yet
created anything, holds a specification that suits its request, and no step of another
call changes the repository.  What remains is a lemma about `_guess_mode` for every
repository and every sequence of tags (`GuessFits`), and in it the loop of
`filter_by_tags`.  `NamesLeft` is that loop as a recursive function over the positions in the
sequence; that such a function exists (`NarrowedExists`) and that a name with all the tags
is never lost (`LeftNarrows`) is proved with a least counterexample (`WFMin` of the
library), which takes a set where an induction theorem takes an operator.

### Only model-checked

* Liveness (`AcceptedResolves`, `StopCallEnds`, `AcceptedIsForgotten`, `ObjectsArrive`,
  `CallsEnd`): the prover handles neither fairness nor ENABLED in a useful way.
* `TypeOK` of `Executor`, in the part about modes: that the default modes and the names
  in the index are those of specifications is a fact about the fold in `ImportAll`, hence
  an induction over the lists imported.  The rest is part of `Typed`.

## Where the code does not do what it says

The run `IdleRace` states, as `AllFuturesResolve`, what `README.rst:63` says: "all
futures can be get either synchronously or asynchronously".  It is violated: a worker
whose idle time is over leaves without another look at the bus, after `submit`
counted it as idle, and nobody takes the task.

Other disagreements that the models contain, without a run of their own.  In the
thread and async pools:

* `thread/worker.py:114`, "Block method until self._run actually starts": `inited` is
  never reset, so that `start()` of a restarted worker returns at once
  (`RestartReturns`).
* `base.py:134`, a refused `submit` means that the manager is "either stopped or not
  started yet and not able to accept tasks": the answer to a cancelled running task is
  None, which kills the manager's thread with `running` still set, and `submit` goes
  on accepting (`ConsumeFails`, `Submit`).
* `asyncio/worker.py:190`: at a limit the answer with RESTART is put on the bus in the
  loop and again behind it; the manager dies of `KeyError`, and the next limit ends
  the worker for good (`CollectAndRestart`, `FlushAnswer`).
* `thread/worker.py:166`, "check if order is cancelled": the field it tests is set
  nowhere, so that a task whose future was cancelled while it waited is run.
* `thread/manager.py:43`, "-1: unlimited": `num_processed >= -1` holds after one
  response, which ends the inner loop (`LimitBreaks`).
* `tests/test_executor.py:95` reads all results after the `with` block: `stop()` ends
  the workers with tasks on the bus, and their futures stay pending.
* `thread/manager.py:261`, "if more workers are needed, create them": a worker counts
  as idle between taking a task and clearing its flag, so that too few are created
  (the exception in `IdleIsFree`).
* `asyncio/worker.py:172`: a future cancelled while its coroutine runs ends the event
  loop with `running` still set, and no worker takes the next task
  (`CollectFails`).

In the process pool:

* The counter of waiting tasks loses updates, because `value += 1` is a read and a
  write under two locks.  Below 0 it becomes 2^64 - 1; a pool with a negative
  `num_workers` then creates as many processes as `range` yields
  (`worker.py:177`, `manager.py:253`, `base.py:249`).
* `start()` spins for ever when its process is killed, or comes and goes, before the
  event is seen (`worker.py:113`).
* `manager.py:134`, "to make sure all processes' result be captured": not after a
  fault. A killed worker, an answer that cannot be pickled or an answer of None leave
  a task in the table or end the manager's thread, and `stop()` raises or the tasks
  stay pending.
* A future that was cancelled, or an exception that cannot be loaded, ends the
  manager's thread; `submit` goes on accepting.

In the executor:

* Two threads that submit to a mode without manager create two; the one that is
  overwritten serves its task and is never stopped.  Two threads may also start one
  manager twice, or pop the same name when they clear, which raises `KeyError`.
* One thread is enough for the following: the manager found alive at
  `executor.py:233` leaves for idleness and is started again at `:245`; `inited` is
  still set, so that `start()` returns before the new thread runs; if clearing is due,
  the manager is not alive yet and is removed from the table, after which it runs
  unknown to `shutdown()`.  `OrphansWereRestarted` says that this is the only way: a
  manager that serves outside of the table was started more than once.
* A `shutdown(wait=False)` between the launch and the first step of a manager's thread
  leaves the client that started it spinning (the exception in `CallsEnd`).
* A shutdown that overlaps a submit may leave `is_alive()` false with a manager that
  runs, or raise because the table changed under its iteration.

## Not modelled

* `ProcessFuture` (`process/future.py`): no other module of the repository uses it.
* `terminate()` of a worker: nothing calls it.
* A task whose `loads()` raises in the worker (`queue.py:181` below
  `process/worker.py:160`): `_run` catches the error and the worker ends with `CLOSE`
  and `FATAL_ERROR`; the task is gone from the pipe and stays in `_curr_tasks`.
  `ProcessPool` has the same loss with a worker that is killed.
* The counter behind `Queue.qsize()`: nothing reads it, and `put`, `get` and the feeder
  change it with the same `+= 1` that loses updates.  `Queue.close` of the base class:
  nothing calls it, so that `_closed` stays false.
* The branch for `win32`, which writes to the pipe without a lock; the choice of a
  pickler; `__getstate__`, `__setstate__` and the copies made by `fork`.
* A task whose pickling raises another error than `TypeError` is dropped by the feeder:
  in `ProcessQueue` it is a member of `Unsendable`, in `ProcessPool` it does not occur.
* `submit`, `apply`, `apply_async` and `map_tasks` of the executor: loops over
  `submit_task`.  Options that only fill specifications, and `redirect_*`.
* Task names given by callers, which may collide with automatic ones (`manager.py:209`).
* `AsyncToSync` and `Future.__await__` (asyncio itself), `Singleton`, `WeakClassMethod`,
  process titles, the documentation.

## Plan

Every safety property that a run checks is now a theorem, with the hypotheses listed
under "Proofs".  What would extend the project from here: the loops of the executor over
`submit_task` (`map_tasks`), with names that callers choose; and liveness, if a prover
for it becomes available.
