SPECIFICATION FairSpec
CONSTANTS
  Req = {1}
  Kinds = {"express", "fastify", "next", "nest"}
  Policies = {"block", "allow"}
  Verbose = {TRUE, FALSE}
  Faults = {"waf", "error", "trap", "body", "leave", "exit"}
INVARIANTS
  FailClosed
  LoggedAfterInspection
  AnsweredAfterClose
PROPERTIES
  TransactionsAreClosed
  RequestsAreAnswered
CHECK_DEADLOCK FALSE
