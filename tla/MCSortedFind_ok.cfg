\* Every file of up to eight of eight keys, every pattern, and positions of four
\* bits: a file has up to half as many items as there are positions.
CONSTANTS
    Keys <- EightKeys
    Files <- FilesOverEight
    IndexMod = 16
SPECIFICATION Spec
INVARIANTS
    TypeOK
    FindIsExact
PROPERTIES
    FindReturns
\* find has returned.
CHECK_DEADLOCK FALSE
