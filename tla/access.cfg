SPECIFICATION Spec
CONSTANTS
  People = {p1, p2}
  Emails = {e1}
  SignIns = {i1, i2}
  Nobody = Nobody
  MaxMoves = 1
  KeyIds = {k1, k2}
  Targets = {main, b1}
  Main = main
  Conns = {c1, c2}
  BackendKeys = {q1, q2, q3}
  Absent = Absent
  Branches = {main, b1}
  DefaultBranch = main
  NoBranch = Absent
  MaxLines = 2
  Users = {u1, u2, u3}
  AdminRequests = {r1, r2}
  NoUser = NoUser
SYMMETRY Symmetry
INVARIANTS OneAccountPerPerson  CancelReachesItsSession ScopedToItsBranch AdminsRemain
CHECK_DEADLOCK FALSE
