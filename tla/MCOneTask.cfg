CONSTANTS
    w1 = w1  w2 = w2
    t1 = t1  t2 = t2  t3 = t3
    NoTask = NoTask
    Waits <- OneWait
    Tasks <- TwoTasks
    MaxId = 3
    Mode = "Preemptive"
    InlineWakers = FALSE
    MaxRuns = 1
    MaxNoise = 1
SPECIFICATION Spec
PROPERTY OneTaskThenSweep
CHECK_DEADLOCK FALSE
