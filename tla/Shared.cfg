SPECIFICATION SharedSpec
CHECK_DEADLOCK FALSE
CONSTANTS
  n1 = n1
  n2 = n2
  n3 = n3
  t1 = t1
  t2 = t2
  Key = {n1, n2, n3}
  Thread = {t1, t2}
  None = None
  Emission = 2
  Tolerance = 2
  MaxKeys = 2
  Start = 0
  MaxClock = 5
  Server = {n1, n2, n3}
  Leftover = Leftover
  NoNode = NoNode
  Backlog = 3
  Clients = 1
  Serialised = TRUE
SYMMETRY Symmetry
INVARIANT TableKept
INVARIANT RateConforms
INVARIANT ServingIsReachable
INVARIANT NoStartBlocked
PROPERTY UnlinksOnlyOwn
