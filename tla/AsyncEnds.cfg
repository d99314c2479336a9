\* Loops that give up, stop() at any moment, restart after one error; one client.
SPECIFICATION Spec
CONSTANTS
  t1 = t1
  t2 = t2
  NoTask = NoTask
  a = a
  Tasks = {t1, t2}
  Clients = {a}
  Owner = a
  MaxWorkers = 2
  Outcomes = {"result", "exception"}
  MaxTaskCount <- Unlimited
  MaxErrCount = 1
  MaxConsErrCount <- Unlimited
  WorkerTimesOut = TRUE
  NumWorkers = 2
  Incremental = TRUE
  MaxResponses <- Unlimited
  ManagerTimesOut = FALSE
  StopTimesOut = FALSE
  OwnerMay = {"stop"}
  Cancellable = {}
SYMMETRY Symmetry
INVARIANTS
  NoAnswerLost
  PendingIsHeld
  StopEndsWorkers
