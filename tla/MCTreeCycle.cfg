SPECIFICATION FairSpec
CONSTANTS
    k1 = k1
    k2 = k2
    MaxNodes = 3
    MaxEdits = 0
    MaxItems = 2
    Names = {a}
    Keys <- MCOneKey
    Paths <- MCOnePath
PROPERTIES
    ResolveReaches
CHECK_DEADLOCK FALSE
