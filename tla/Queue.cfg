\* Two processes put, two get, one of them without a timeout; one object
\* cannot be pickled; a putter and a getter may be killed.
SPECIFICATION FairSpec
CONSTANTS
  i1 = i1
  i2 = i2
  i3 = i3
  i4 = i4
  p1 = p1
  p2 = p2
  g1 = g1
  g2 = g2
  NoItem = NoItem
  NoOne = NoOne
  Items = {i1, i2, i3, i4}
  Procs = {p1, p2}
  Producer <- ProducerOf
  Getters = {g1, g2}
  Blocking = {g2}
  Unsendable = {i3}
  Capacity = 2
  PipeSize = 1
  Mortal = {p1, g1}
INVARIANTS
  SlotsAccounted
  ExitLosesNothing
PROPERTIES
  ImplementsChannel
  ObjectsArrive
CHECK_DEADLOCK FALSE
