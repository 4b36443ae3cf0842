CONSTANTS
    w1 = w1  w2 = w2
    t1 = t1  t2 = t2  t3 = t3
    NoTask = NoTask
    Waits <- TwoWaits
    Tasks <- ThreeTasks
    MaxId = 3
    Mode = "Preemptive"
    InlineWakers = FALSE
    MaxRuns = 2
    MaxNoise = 2
SPECIFICATION Spec
SYMMETRY Symmetric
INVARIANTS
    NoLostWakeup
    OnlyLiveQueued
    BlocksOnlyWhenIdle
    NothingCarriedOver
PROPERTIES
    StalledMeansNothingLeft
    UsesWaitQueue
    KeepsPromise
CHECK_DEADLOCK FALSE
