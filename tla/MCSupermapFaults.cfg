\* Every step may throw.
CONSTANTS
    Keys <- ThreeKeys
    Values = {v1, v2}
    NoValue = NoValue
    BatchSize = 2
    PartNum = 2
    PartDen = 3
    MaxItems = 6
    Log2 <- MCLog2
    FailingSteps = {"drop", "collapse", "shrink", "export"}
    MaxFailures = 2
SYMMETRY ValueSymmetry
SPECIFICATION FaultSpec
INVARIANTS
    ExactUnlessDropOrExport
    AgedUnlessExport
PROPERTIES
    ActsAsStore
    ImplementsShard
\* The bound on the records of the data file is reached.
CHECK_DEADLOCK FALSE
