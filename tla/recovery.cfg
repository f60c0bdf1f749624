SPECIFICATION Spec
CONSTANTS
  Txs = {t1, t2, t3}
  Jobs = {j1}
  Restores = {r1}
  None = None
  XidMod = 2
  MaxTime = 2
  MaxBackups = 2
INVARIANTS HoldsExactlyBefore UnfinishedHasACause  RestoredAsReported
SYMMETRY TxSymmetry
CHECK_DEADLOCK FALSE
