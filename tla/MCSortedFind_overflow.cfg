\* Positions of three bits, so that files of five to seven items have more than
\* half as many items as there are positions.
CONSTANTS
    Keys <- SevenKeys
    Files <- FilesOverSeven
    IndexMod = 8
SPECIFICATION Spec
PROPERTY FindReturns
\* find has returned.
CHECK_DEADLOCK FALSE
