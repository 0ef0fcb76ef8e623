SPECIFICATION Spec
CONSTANTS
  t1 = t1
  t2 = t2
  t3 = t3
  Tx = {t1, t2, t3}
  Size = 2
  MaxWorkers = 5
  MaxRequests = 2
  OpTx = {t1}
  Faults = {}
SYMMETRY TxSymmetry
INVARIANTS
  TypeOK
  BusyCountsHandles
  RotationDropsNothing
  HandlesMatchWorkers
  GuardedCallsFindTheirTx
  SlotsAreInitialised
  OneReplacement
  NoOrphanThread
  PrewarmReachesEveryWorker
PROPERTIES
  ImplementsService
CHECK_DEADLOCK FALSE
