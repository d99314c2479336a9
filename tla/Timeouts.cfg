\* Everything that gives up does: idle workers, the idle manager, join() in
\* stop(); terminate() too; workers are restarted after each task.
SPECIFICATION TimedSpec
CONSTANTS
  t1 = t1
  t2 = t2
  NoTask = NoTask
  a = a
  Tasks = {t1, t2}
  Clients = {a}
  Owner = a
  MaxWorkers = 2
  Outcomes = {"result"}
  MaxTaskCount = 1
  MaxErrCount <- Unlimited
  MaxConsErrCount <- Unlimited
  WorkerTimesOut = TRUE
  NumWorkers = 1
  Incremental = TRUE
  MaxResponses <- Unlimited
  ManagerTimesOut = TRUE
  StopTimesOut = TRUE
  OwnerMay = {"stop", "terminate"}
  Cancellable = {}
INVARIANTS
  WorkersKnown
  ExitsTracked
PROPERTIES
  StopCallEnds
