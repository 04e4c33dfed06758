SPECIFICATION Spec
CONSTANTS
    None = None
    Jobs = {j1, j2}
    Old <- Exchange
    Migrated <- WholeOrNone
    Turns <- OneModel
    MaxLoads = 1
    MaxSaves = 1
    MaxDeletes = 1
    MaxFaults = 1
SYMMETRY JobSymmetry
INVARIANTS TypeOK CurrentIsMessage TreeWhenCalm RowsMatchWhenCalm
CHECK_DEADLOCK FALSE
