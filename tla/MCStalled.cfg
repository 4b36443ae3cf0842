CONSTANTS
    w1 = w1  w2 = w2
    t1 = t1  t2 = t2  t3 = t3
    NoTask = NoTask
    Waits <- TwoWaits
    Tasks <- TwoTasks
    MaxId = 2
    Mode = "Stalled"
    InlineWakers = TRUE
    MaxRuns = 2
    MaxNoise = 3
SPECIFICATION FairSpec
INVARIANTS
    ExecInv
    RootIsGone
PROPERTIES
    SpawnFailureReported
    RunReturns
CHECK_DEADLOCK FALSE
