SPECIFICATION FairSpec
CONSTANTS
  Kinds = {"express"}
  Specs <- MCSpecs
  Contexts <- MCContexts
  Indexes <- MCIndexes
  ListsSay <- Declarative
  LeavesAt <- Leaves
  Listed <- ListedByText
  Expressed <- ListedByRegExp
  TooLong <- LongerThanCutoff
  Findings <- MCFindings
  MaxRequests = 2
  StackDepth = 3
INVARIANTS
  BlockedBodyIsWithheld
CHECK_DEADLOCK FALSE
