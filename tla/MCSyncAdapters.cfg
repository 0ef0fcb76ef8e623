SPECIFICATION FairSpec
CONSTANTS
  Kinds = {"express", "fastify"}
  Specs <- MCSpecs
  Contexts <- MCContexts
  Indexes <- MCIndexes
  ListsSay <- Declarative
  LeavesAt <- Leaves
  Listed <- ListedByText
  Expressed <- ListedByRegExp
  TooLong <- LongerThanCutoff
  Findings <- MCFindings
  MaxRequests = 2
  StackDepth = 3
INVARIANTS
  VerdictIsAsDeclared
  BlockedResponseIsWithheld
  ThrowsOnlyWhenAnswered
  NestedCallsSettle
PROPERTIES
  TransactionEnds
CHECK_DEADLOCK FALSE
