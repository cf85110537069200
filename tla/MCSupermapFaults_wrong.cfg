\* A shrink throws behind the replacement of its file.
CONSTANTS
    Keys <- ThreeKeys
    Values = {v1}
    NoValue = NoValue
    BatchSize = 2
    PartNum = 2
    PartDen = 3
    MaxItems = 8
    Log2 <- MCLog2
    FailingSteps = {"export"}
    MaxFailures = 1
SPECIFICATION FaultSpec
INVARIANT
    ReadsOwnKey
\* The bound on the records of the data file is reached.
CHECK_DEADLOCK FALSE
