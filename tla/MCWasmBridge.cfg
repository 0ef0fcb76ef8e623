SPECIFICATION Spec
CONSTANTS
  Waf = {w1}
  Tx = {t1, t2}
  None = None
  Requests <- MCRequests
  Payloads <- MCPayloads
  Headers <- MCHeaders
  Ptr = {p1, p2}
  MaxAlloc = 40
  MaxShort = 2
  MaxAddr = 3
  ScratchCap = 24
  IdHalf = 8
  MaxTraps = 1
SYMMETRY Handles
INVARIANTS
  TypeOK
  BuffersAreFreed
  SlotsMatchHandles
  EngineGetsWhatWasSent
  AnswersAreOwn
  OffIsGenuine
CHECK_DEADLOCK FALSE
