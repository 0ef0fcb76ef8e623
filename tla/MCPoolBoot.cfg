SPECIFICATION FairSpec
CONSTANTS
  Slots = {s1, s2, s3}
  HasDeadline = TRUE
  Undefined = Undefined
  Overrides <- MCOverrides
  Base = 4
  InitialPages = 6
  Modules <- MCModules
  Faults = {"compile", "silent", "init", "newTx", "bundle", "close", "exit", "error"}
INVARIANTS
  TypeOK
  RejectedLeavesNoThread
  ReturnedPoolIsReady
  PatchIsExact
  RulesAreAsAsked
PROPERTIES
  CreateSettles
CHECK_DEADLOCK FALSE
