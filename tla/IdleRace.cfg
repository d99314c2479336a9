\* A worker gives up while a task is submitted.
SPECIFICATION FairSpec
CONSTANTS
  t1 = t1
  t2 = t2
  NoTask = NoTask
  a = a
  Tasks = {t1, t2}
  Clients = {a}
  Owner = a
  MaxWorkers = 3
  Outcomes = {"result"}
  MaxTaskCount <- Unlimited
  MaxErrCount <- Unlimited
  MaxConsErrCount <- Unlimited
  WorkerTimesOut = TRUE
  NumWorkers <- Unlimited
  Incremental = TRUE
  MaxResponses <- Unlimited
  ManagerTimesOut = FALSE
  StopTimesOut = FALSE
  OwnerMay = {}
  Cancellable = {}
PROPERTIES
  AllFuturesResolve
