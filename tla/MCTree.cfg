SPECIFICATION FairSpec
CONSTANTS
    k1 = k1
    k2 = k2
    MaxNodes = 3
    MaxEdits = 2
    MaxItems = 2
    Names = {a}
    Keys <- MCKeys
    Paths <- MCPaths
INVARIANTS
    TypeOK
    FirstNameWins
    CorruptionNeedsMisuse
    FreedExactly
PROPERTIES
    ResolveEnds
CHECK_DEADLOCK FALSE
