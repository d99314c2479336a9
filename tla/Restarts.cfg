\* Two workers that are restarted after one error, and stop(); one client.
SPECIFICATION FairSpec
CONSTANTS
  t1 = t1
  t2 = t2
  NoTask = NoTask
  a = a
  Tasks = {t1, t2}
  Clients = {a}
  Owner = a
  MaxWorkers = 3
  Outcomes = {"result", "exception"}
  MaxTaskCount <- Unlimited
  MaxErrCount = 1
  MaxConsErrCount <- Unlimited
  WorkerTimesOut = FALSE
  NumWorkers = 2
  Incremental = TRUE
  MaxResponses <- Unlimited
  ManagerTimesOut = FALSE
  StopTimesOut = FALSE
  OwnerMay = {"stop"}
  Cancellable = {}
INVARIANTS
  TypeOK
  RestartNeverRaises
  LimitsRespected
  DiesOnlyInStop
  StopEndsWorkers
PROPERTIES
  AcceptedResolves
