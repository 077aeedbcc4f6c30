SPECIFICATION Spec
CONSTANTS
    MaxScripts = 2
    timeout_join_count = 2
INVARIANT FailedScriptThrows
CHECK_DEADLOCK FALSE
