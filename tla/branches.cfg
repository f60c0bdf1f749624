SPECIFICATION MCSpec
CONSTANTS
  Branches = {b1, b2}
  Agents = {b1, b2}
  OnlyAgent = b1
  Operator = a1
  Clients = {c1}
  Admins = {a1, a2}
  IPs = {x1, x2}
  None = None
  AgentMax = 1
INVARIANTS
  TypeOK
  SessionsOnTheirBranch
  LoginsFailOnlyOnReplacedBranches
  CapHolds
SYMMETRY Symmetry
