\* Merges may throw.
CONSTANTS
    Keys <- FourKeys
    BatchSize = 1
    MaxAppends = 6
    MaxFailures = 1
    Log2 <- MCLog2
SPECIFICATION Spec
INVARIANTS
    TypeOK
    AssertionUntilFailure
    RanksIncreaseWhenIdle
PROPERTIES
    LoopComputesCollapse
    ImplementsBlockIndex
    AppendReturns
\* The bound on the calls of append is reached.
CHECK_DEADLOCK FALSE
