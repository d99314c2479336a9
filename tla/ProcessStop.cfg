\* Two worker processes that are restarted after each task; stop() at any
\* moment.  A start() that missed its process waits for ever.
SPECIFICATION FairSpec
CONSTANTS
  t1 = t1
  t2 = t2
  NoTask = NoTask
  a = a
  Tasks = {t1, t2}
  Clients = {a}
  Owner = a
  MaxWorkers = 3
  Outcomes = {"result"}
  MaxTaskCount = 1
  MaxErrCount <- Unlimited
  MaxConsErrCount <- Unlimited
  WorkerTimesOut = FALSE
  NumWorkers = 2
  Incremental = TRUE
  MaxResponses <- Unlimited
  ManagerTimesOut = FALSE
  StopTimesOut = FALSE
  OwnerMay = {"stop"}
  Cancellable = {}
  MayCrash = {}
  Unsendable = {}
  Unloadable = {}
  CounterModulus = 4
INVARIANTS
  TaskInOnePlace
  PendingIsSomewhere
  WorkerLimit
  StopIsComplete
PROPERTIES
  AcceptedResolves
  StopCallEnds
CHECK_DEADLOCK FALSE
