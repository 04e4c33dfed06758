SPECIFICATION FairSpec
CONSTANTS
    Automations = {a1}
    Workers = {w1, w2}
    Editors = {e1}
    Rules <- TwoRules
    Zones <- PutBack
    Dial = 5
    Horizon = 3
    Limit = 1
    SkipLocked = TRUE
    MaxAgain = 1
    MaxManual = 1
    MaxFaults = 1
    Unborn = Unborn
    Gone = Gone
INVARIANTS TypeOK RunsAccounted
PROPERTIES DueIsClaimed ClaimsFollowSchedule ClaimsAreCurrent
CHECK_DEADLOCK FALSE
