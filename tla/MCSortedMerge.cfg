\* All the ways to give up to three files up to four keys each, and a buffer
\* of two items: it is dropped full, dropped half full, and found empty.
CONSTANTS
    Keys <- FourKeys
    Newer <- UpToThreeFiles
    BatchSize = 2
    Limits = {0, 1, 3}
SPECIFICATION FileSpec
INVARIANTS
    TypeOK
    MergedIsSorted
    NewestWins
    NothingIsLost
    ReadsWhatWasMerged
PROPERTY MergeEnds
\* The constructor has returned and its file has been read.
CHECK_DEADLOCK FALSE
