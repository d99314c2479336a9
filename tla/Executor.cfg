\* Two clients, one of which also stops or terminates the executor, once.
SPECIFICATION FairSpec
CONSTANTS
  a = a
  b = b
  Clients = {a, b}
  Submitters = {b}
  Owner = a
  MaxTasks = 2
  Asks <- SomeAsks
  ExtraLists <- SomeExtraLists
  ClearLimit = 1
  MaxShutdowns = 1
INVARIANTS
  ChoiceFits
  OneThread
  OrphansWereRestarted
  DeadIsStopped
PROPERTIES
  CallsEnd
