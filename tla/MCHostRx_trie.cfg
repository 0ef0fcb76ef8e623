SPECIFICATION Spec
CONSTANTS
    ShiftWidth = 3
    Octet <- MCOctet
    UpperCase <- Capitals
    CaseGap <- SmallOfCapital
    MemoCapacity = 2
    RuleSets <- InexactRules
    Inputs <- MCInputs
    Values <- MCValues
    Finds <- Matches
    Shortest <- MinMatchLength
    FilterOf <- Prefilter
    LetsThrough <- Passes
    Octets <- Bytes
    Text <- Decoded
INVARIANT NeverFalseNegative
CHECK_DEADLOCK FALSE
