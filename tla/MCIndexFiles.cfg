\* One file operation may throw.
CONSTANTS
    Keys <- MCKeys
    BatchSize = 1
    Log2 <- MCLog2
    Names = {a, b, c, d}
    Seeds <- MCSeeds
    Hashes <- MCHashes
    SizeMultiplier = 2
    MaxFailures = 1
SYMMETRY NameSymmetry
SPECIFICATION Spec
INVARIANTS
    BlocksAreDescribed
    FilterIsSized
    NoFileIsLeft
    ManagersAgree
PROPERTIES
    EntriesStayOnDisk
    DestructorsFindTheirFiles
\* A program that is terminated or has destroyed the store stops.
CHECK_DEADLOCK FALSE
