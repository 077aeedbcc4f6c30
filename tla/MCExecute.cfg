SPECIFICATION FairSpec
CONSTANTS
    BufSize = 2
    PipeCap = 3
    n_polls = 2
    MaxOutput = 4
    MaxError = 4
INVARIANTS
    TypeOK
    DeadFrameNeedsCancel
    LossBound
    ChildAccounted
PROPERTIES
    ExecuteReturns
    ExecuteAdvances
    StderrDrains
CHECK_DEADLOCK FALSE
