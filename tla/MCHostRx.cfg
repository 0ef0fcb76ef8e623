SPECIFICATION Spec
CONSTANTS
  ShiftWidth = 3
  Octet <- MCOctet
  UpperCase <- Capitals
  CaseGap <- SmallOfCapital
  MemoCapacity = 2
  RuleSets <- ExactRules
  Inputs <- MCInputs
  Values <- MCValues
  Finds <- Matches
  Shortest <- MinMatchLength
  FilterOf <- Prefilter
  LetsThrough <- Passes
  Octets <- Bytes
  Text <- Decoded
INVARIANTS
  TypeOK
  NeverFalseNegative
  IndexedSearchIsExact
  EvaluateIsMatch
CHECK_DEADLOCK FALSE
