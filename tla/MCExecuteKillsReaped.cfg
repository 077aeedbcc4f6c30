SPECIFICATION Spec
CONSTANTS
    BufSize = 2
    PipeCap = 3
    n_polls = 2
    MaxOutput = 4
    MaxError = 4
INVARIANT KilledOnlyOnTimeout
CHECK_DEADLOCK FALSE
