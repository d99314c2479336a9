\* An event loop that dies, is restarted, times out; stop() at any moment.
SPECIFICATION TimedSpec
CONSTANTS
  t1 = t1
  t2 = t2
  t3 = t3
  NoTask = NoTask
  a = a
  Tasks = {t1, t2, t3}
  Clients = {a}
  Owner = a
  MaxWorkers = 1
  Outcomes = {"result", "exit"}
  MaxTaskCount = 3
  MaxErrCount <- Unlimited
  MaxConsErrCount <- Unlimited
  WorkerTimesOut = TRUE
  NumWorkers = 1
  Incremental = TRUE
  MaxResponses <- Unlimited
  ManagerTimesOut = FALSE
  StopTimesOut = FALSE
  OwnerMay = {"stop"}
  Cancellable = {}
PROPERTIES
  StopCallEnds
