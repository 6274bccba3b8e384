SPECIFICATION SupFairSpec
CONSTANTS
    Worker = {"A"}
    Timeout = 1
    Grace = 1
    WarnAfter = 2
    Gestures = {"softstop", "forcestop", "pause", "kill", "resume", "signal", "crash"}
    MaxStarts = 2
    MaxRequests = 2
INVARIANTS OnlyOwnGestures
PROPERTIES SilentWorkersEnd StopsAreAnswered
CHECK_DEADLOCK FALSE
