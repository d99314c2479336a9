\* A process is killed; a future is cancelled; a function raises SystemExit; a
\* result cannot be pickled, an exception cannot be loaded; workers
\* and manager give up; terminate() at any moment.  After a fault nothing may
\* be left to do.
SPECIFICATION Spec
CONSTANTS
  t1 = t1
  t2 = t2
  NoTask = NoTask
  a = a
  Tasks = {t1, t2}
  Clients = {a}
  Owner = a
  MaxWorkers = 2
  Outcomes = {"result", "exception", "exit"}
  MaxTaskCount = 2
  MaxErrCount <- Unlimited
  MaxConsErrCount <- Unlimited
  WorkerTimesOut = TRUE
  NumWorkers = 1
  Incremental = TRUE
  MaxResponses <- Unlimited
  ManagerTimesOut = TRUE
  StopTimesOut = FALSE
  OwnerMay = {"terminate"}
  Cancellable = {t1}
  MayCrash = {0}
  Unsendable = {t2}
  Unloadable = {t2}
  CounterModulus = 4
INVARIANTS
  AccountsAgree
  ExitsTracked
  DiesOfTasksOnly
PROPERTIES
  ImplementsContract
CHECK_DEADLOCK FALSE
