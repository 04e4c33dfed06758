SPECIFICATION Spec
CONSTANTS
    MaxCalls = 1
    Apis = {"chat"}
    RealtimeSaves = {FALSE}
    Limit = 2
    MaxRetries = 1
    MaxItems = 2
    MaxContinues = 0
INVARIANTS OutputIsPreserved
CHECK_DEADLOCK FALSE
