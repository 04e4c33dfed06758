SPECIFICATION Spec
CONSTANTS
    None = None
    Jobs = {j1, j2}
    Old <- Exchange
    Migrated <- WholeOrNone
    Turns <- OneModel
    MaxLoads = 1
    MaxSaves = 1
    MaxDeletes = 0
    MaxFaults = 0
INVARIANTS SentIsKept
CHECK_DEADLOCK FALSE
