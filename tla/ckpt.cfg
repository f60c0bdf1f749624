SPECIFICATION Spec
CONSTANTS
  Engines = {e1, e2}
  Audits = FALSE
  MaxSeq = 3
  ParentRows = 1
  Faults = {"reorder", "stale", "fail", "recreate", "tamper"}
  MaxFaults = 2
SYMMETRY Symmetry
INVARIANTS CheckpointsContiguous OrderlyLedgerVerifies IntactMeansUnchanged
