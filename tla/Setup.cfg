CONSTANTS
    Modes = {"Preemptive", "Stalled"}
    MaxInits = 4
    RawBytes <- SomeRawBytes
    RawPaths <- SomeRawPaths
    MaxPasses = 2
    Segments <- SomeSegments
    MaxDepth = 2
    MaxRoutes = 2
    Methods = {"GET", "HEAD", "POST"}
    MaxCalls = 2
    Size = 1
SPECIFICATION SetupSpec
INVARIANTS
    OkMeansInstalled
    AnswersAreConsistent
    AcceptsWhatStaysInside
    TableIsTheApplication
    AnsweredMeansConfigured
    SameForEveryMethod
    HeadAgreesWithGet
PROPERTY FirstClaimStands
CHECK_DEADLOCK FALSE
