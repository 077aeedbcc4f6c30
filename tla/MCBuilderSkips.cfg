SPECIFICATION Spec
CONSTANTS
    MaxScripts = 2
    timeout_join_count = 1
INVARIANT DoneScriptAttached
CHECK_DEADLOCK FALSE
