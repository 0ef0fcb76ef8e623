SPECIFICATION Spec
CONSTANTS
  t1 = t1
  t2 = t2
  t3 = t3
  Tx = {t1, t2}
  Size = 1
  MaxWorkers = 3
  MaxRequests = 1
  OpTx = {}
  Faults = {"init", "newTx", "logging", "destroyTx", "shutdown", "exit", "error"}
SYMMETRY TxSymmetry
INVARIANTS
  SurvivesFaults
CHECK_DEADLOCK FALSE
