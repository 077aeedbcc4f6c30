SPECIFICATION SystemSpec
CONSTANTS
    MaxScripts = 1
    timeout_join_count = 1
    NestedScripts = 1
    BufSize = 1
    PipeCap = 1
    n_polls = 1
    MaxOutput = 1
    MaxError = 0
INVARIANTS
    FrameOutlivesListener
CHECK_DEADLOCK FALSE
