CONSTANTS
    MaxU64 = 3
    Limit = 2
    MaxBody = 3
    MaxMembers = 1
    EmptyReadCap = 2
    HostMayLie = FALSE
SPECIFICATION InStepSpec
INVARIANT SameBudget
CHECK_DEADLOCK FALSE
