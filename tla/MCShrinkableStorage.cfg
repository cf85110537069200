\* Two batches and a part of one, in the unsorted part and in the copy.
CONSTANTS
    Keys <- ThreeKeys
    Values = {v1, v2}
    NoValue = NoValue
    BatchSize = 2
    MaxItems = 5
    MaxFailures = 1
    Log2 <- MCLog2
SPECIFICATION Spec
INVARIANTS
    BatchesIndexPrefix
PROPERTIES
    ImplementsDataStorage
    ShrinkKeepsValues
    ShrinkEnds
