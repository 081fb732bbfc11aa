SPECIFICATION Spec
CONSTANTS
  Text = {"a", "b", "s", "*"}
  Separated = {"s"}
  Malformed = "%"
  Name = {"x", "p", "q"}
  Method = {"GET", "POST", "HEAD", "OPTIONS", "DELETE"}
  Guard = {"g"}
  Routes <- MCRoutes
  MaxRoutes = 3
  Requests <- MCRequests
  Policies = {"strict"}
  MaxSegments = 2
  NoAnswer = NoAnswer
INVARIANT AllowIsComplete
