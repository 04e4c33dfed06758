SPECIFICATION FairSpec
CONSTANTS
    Procs = {p1, p2, p3}
    Free = Free
    Timeout = 6
    Period = 1
    Attempts = 3
    RetryDelays = {3, 4, 6}
    MaxStall = 1
INVARIANTS AtMostOneCleaner DeletesOwnLock
PROPERTIES KeepsCleaning
CHECK_DEADLOCK FALSE
