CONSTANTS
    Methods = {"GET", "HEAD"}
    MaxCalls = 1
    Size = 1
SPECIFICATION Spec
INVARIANT HeadLengthIsOriginal
CHECK_DEADLOCK FALSE
