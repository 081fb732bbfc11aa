SPECIFICATION RsSpec
CONSTANTS
  Request = {r1, r2}
  User = {u1}
  Id = {i1, i2, i3}
  r1 = r1
  r2 = r2
  u1 = u1
  i1 = i1
  i2 = i2
  i3 = i3
  NoUser = NoUser
  NoId = NoId
SYMMETRY Symmetry
INVARIANT Withdrawn
