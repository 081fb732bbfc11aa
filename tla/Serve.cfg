SPECIFICATION FairSpec
CONSTANTS
  Listener = {l1, l2}
  Conn = {c1, c2}
  l1 = l1
  l2 = l2
  c1 = c1
  c2 = c2
  Caps = {1, 2}
  MaxHandshakes = 1
  HandshakeTimeout = 2
  Workers = 0
INVARIANT BudgetKept
INVARIANT ReturnedMeansDrained
INVARIANT HandshakeBounded
PROPERTY ShutdownReturns
PROPERTY BacklogServed
CHECK_DEADLOCK FALSE
