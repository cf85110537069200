\* Shrinks often: when two thirds of the records are not sorted.
CONSTANTS
    Keys <- ThreeKeys
    Values = {v1, v2}
    NoValue = NoValue
    BatchSize = 2
    PartNum = 2
    PartDen = 3
    MaxItems = 100
    Log2 <- MCLog2
SPECIFICATION Spec
INVARIANTS
    TypeOK
    LookupIsLatest
    SpaceBound
PROPERTY
    ImplementsKVStore
