CONSTANTS
    MaxU64 = 3
    Limit = 2
    MaxBody = 3
    MaxMembers = 3
    EmptyReadCap = 3
    HostMayLie = TRUE
SPECIFICATION BothSpec
INVARIANTS
    LengthIsJustified
    AcceptedIsWhole
    CollectedIsWhole
    OneLateChunk
    NotBlamedForTrickling
    SameAnswerInTime
PROPERTY BothReturn
CHECK_DEADLOCK FALSE
