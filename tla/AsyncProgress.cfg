\* One worker; an idle manager gives up; stop() at any moment.
SPECIFICATION FairSpec
CONSTANTS
  t1 = t1
  t2 = t2
  NoTask = NoTask
  a = a
  Tasks = {t1, t2}
  Clients = {a}
  Owner = a
  MaxWorkers = 1
  Outcomes = {"result", "exception"}
  MaxTaskCount <- Unlimited
  MaxErrCount <- Unlimited
  MaxConsErrCount <- Unlimited
  WorkerTimesOut = FALSE
  NumWorkers = 1
  Incremental = TRUE
  MaxResponses <- Unlimited
  ManagerTimesOut = TRUE
  StopTimesOut = FALSE
  OwnerMay = {"stop"}
  Cancellable = {}
PROPERTIES
  AcceptedIsForgotten
