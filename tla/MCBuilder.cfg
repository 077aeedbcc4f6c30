SPECIFICATION FairSpec
CONSTANTS
    MaxScripts = 3
    timeout_join_count = 3
INVARIANTS
    TypeOK
    AttachedIsResult
    RecordOutlivesThread
    SkipBound
    JoinWaitsForExit
PROPERTIES
    Refinement
    BuildTerminates
    BuilderAdvances
CHECK_DEADLOCK FALSE
