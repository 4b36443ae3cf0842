CONSTANTS
    Cap = 2
    MaxChunk = 2
    MaxChunks = 2
SPECIFICATION Spec
INVARIANT OkMeansFlushed
CHECK_DEADLOCK FALSE
