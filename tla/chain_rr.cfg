SPECIFICATION Spec
CONSTANTS
  Sessions = {s1, s2}
  Tables = {t1}
  None = None
  MaxId = 3
  Isolations = {"rc", "rr"}
SYMMETRY Symmetry
INVARIANTS LinksCommitted EvalsNameRecords NoSelfDeadlock
