\* Two shards, three keys, a filter that is smaller than it should be.
CONSTANTS
    Keys <- MCKeys
    Values <- MCValues
    NoValue = NoValue
    DefaultValue = "a"
    Shards = 2
    HashOf <- MCHashOf
    Seeds <- MCSeeds
    Hashes <- MCHashes
    SizeMultiplier = 2
    FilterCapacity = 2
    MaxRecords = 3
    Lines <- MCLines
SPECIFICATION CommandSpec
INVARIANTS
    SizeBoundHolds
    DialogueIsConsistent
PROPERTY ImplementsRemovableStore
\* The program ends after stop.
CHECK_DEADLOCK FALSE
