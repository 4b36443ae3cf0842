CONSTANTS
    Targets = {"local", "remote", "broken"}
    Values = {"v1", "v2"}
    Statuses = {200, 302, 500}
    MaxWrites = 2
    Sizes = {0, 1, 2}
    MaxChunks = 3
SPECIFICATION Spec
INVARIANT AppendedArrive
CHECK_DEADLOCK FALSE
