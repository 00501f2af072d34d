SPECIFICATION ClawSpec
CONSTANTS
    Sessions = {s1, s2}
    Preserve = 2
    MaxDepth = 1
    RotateAfter = 6
    Threshold = 2
    MaxCalls = 2
    MaxMessages = 7
    MaxClock = 5
INVARIANT
    LatestGoesBack
CHECK_DEADLOCK FALSE
