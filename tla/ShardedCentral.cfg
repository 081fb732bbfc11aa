SPECIFICATION FairSpec
CONSTANTS
  Listener = {l1, l2}
  NumWorkers = 2
  Conn = {c1, c2, c3}
  l1 = l1
  l2 = l2
  c1 = c1
  c2 = c2
  c3 = c3
  Caps = {0, 2}
INVARIANT SlotsExact
INVARIANT HandedOnFairly
INVARIANT ReturnMeansStopped
PROPERTY ShutdownReturns
CHECK_DEADLOCK FALSE
