CONSTANTS
    Cap = 2
    MaxChunk = 3
    MaxChunks = 3
SPECIFICATION FairSpec
INVARIANTS
    Answered
    OkMeansWhole
    AlwaysFinished
    TraceTellsOutcome
PROPERTIES
    AnswersOnce
    Returns
CHECK_DEADLOCK FALSE
