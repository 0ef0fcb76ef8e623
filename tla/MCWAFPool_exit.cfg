SPECIFICATION FairSpec
CONSTANTS
  t1 = t1
  t2 = t2
  t3 = t3
  Tx = {t1, t2}
  Size = 1
  MaxWorkers = 3
  MaxRequests = 0
  OpTx = {}
  Faults = {"exit"}
PROPERTY DestroyReturns
CHECK_DEADLOCK FALSE
