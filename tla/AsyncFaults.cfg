\* Two event loops; futures are cancelled, functions raise CancelledError;
\* stop() at any moment.
SPECIFICATION Spec
CONSTANTS
  t1 = t1
  t2 = t2
  NoTask = NoTask
  a = a
  Tasks = {t1, t2}
  Clients = {a}
  Owner = a
  MaxWorkers = 2
  Outcomes = {"result", "cancel"}
  MaxTaskCount <- Unlimited
  MaxErrCount <- Unlimited
  MaxConsErrCount <- Unlimited
  WorkerTimesOut = FALSE
  NumWorkers = 2
  Incremental = TRUE
  MaxResponses <- Unlimited
  ManagerTimesOut = FALSE
  StopTimesOut = FALSE
  OwnerMay = {"stop"}
  Cancellable = {t1, t2}
SYMMETRY Symmetry
INVARIANTS
  TaskInOnePlace
  IdleIsFree
PROPERTIES
  ImplementsContract
