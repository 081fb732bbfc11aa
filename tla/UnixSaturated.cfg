SPECIFICATION Spec
CONSTANTS
  Server = {s1, s2}
  s1 = s1
  s2 = s2
  Leftover = Leftover
  NoNode = NoNode
  Backlog = 1
  Clients = 1
  Serialised = TRUE
INVARIANT ServingIsReachable
CHECK_DEADLOCK FALSE
