SPECIFICATION FairSpec
CONSTANTS
  Req = {1}
  Kinds = {"express"}
  Policies = {"block"}
  Verbose = {FALSE}
  Faults = {"leave"}
PROPERTY LifecycleEndsInClose
CHECK_DEADLOCK FALSE
