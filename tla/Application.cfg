SPECIFICATION ApplicationSpec
CONSTANTS
  Text = {"a", "b", "s", "*"}
  Separated = {"s"}
  Malformed = "%"
  Name = {"x", "p", "q"}
  Method = {"GET", "POST", "HEAD", "OPTIONS", "DELETE"}
  Guard = {"g"}
  Routes <- MCRoutes
  MaxRoutes = 3
  Requests <- MCRequests
  Policies = {"strict"}
  MaxSegments = 2
  NoAnswer = NoAnswer
  Request = {r1, r2}
  User = {u1}
  Id = {i1, i2, i3}
  r1 = r1
  r2 = r2
  u1 = u1
  i1 = i1
  i2 = i2
  i3 = i3
  NoUser = NoUser
  NoId = NoId
SYMMETRY Symmetry
INVARIANT BestServes
INVARIANT AllowIsHonest
INVARIANT NoElevation
INVARIANT WithdrawnAlone
