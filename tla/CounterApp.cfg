CONSTANTS
    Ops = {o1, o2}
    NoOp = NoOp
    Visitors = {v1, v2}
    MaxAttempts = 2
    MaxCount = 2
    MaxFaults = 1
SPECIFICATION FairSpec
INVARIANT CountsOperationsOnce
PROPERTIES
    KeepsPromise
    ShownNeverFallsBack
    ButtonComesBack
CHECK_DEADLOCK FALSE
