SPECIFICATION FairSpec
CONSTANTS
    Procs = {p1}
    Free = Free
    Timeout = 2
    Period = 4
    Attempts = 1
    RetryDelays = {}
    MaxStall = 0
PROPERTIES KeepsCleaning
CHECK_DEADLOCK FALSE
