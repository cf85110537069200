\* Never shrinks after the first record: the list of blocks grows and collapses.
CONSTANTS
    Keys <- FourKeys
    Values = {v1}
    NoValue = NoValue
    BatchSize = 1
    PartNum = 1
    PartDen = 1
    MaxItems = 8
    Log2 <- MCLog2
SPECIFICATION Spec
INVARIANTS
    LayersAgeInOrder
    RanksIncrease
    FewBlocks
CHECK_DEADLOCK FALSE
