\* The assertion of the loop, when a merge has thrown before.
CONSTANTS
    Keys <- FourKeys
    BatchSize = 1
    MaxAppends = 6
    MaxFailures = 1
    Log2 <- MCLog2
SPECIFICATION Spec
INVARIANT
    RankAssertion
CHECK_DEADLOCK FALSE
