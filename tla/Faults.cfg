\* Two clients race; futures are cancelled and functions raise SystemExit;
\* workers are restarted after every task.
SPECIFICATION Spec
CONSTANTS
  t1 = t1
  t2 = t2
  NoTask = NoTask
  a = a
  b = b
  Tasks = {t1, t2}
  Clients = {a, b}
  Owner = a
  MaxWorkers = 2
  Outcomes = {"result", "exit"}
  MaxTaskCount = 1
  MaxErrCount <- Unlimited
  MaxConsErrCount <- Unlimited
  WorkerTimesOut = FALSE
  NumWorkers = 1
  Incremental = FALSE
  MaxResponses <- Unlimited
  ManagerTimesOut = FALSE
  StopTimesOut = FALSE
  OwnerMay = {}
  Cancellable = {t1, t2}
SYMMETRY Symmetry
INVARIANTS
  TaskInOnePlace
  TasksTracked
  PopsAreSafe
PROPERTIES
  ImplementsContract
