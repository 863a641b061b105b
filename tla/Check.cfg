SPECIFICATION FairSpec
CONSTANTS
    Workers = {w1, w2}
    None = None
    Gone = Gone
    Interval = 2
    Timeout = 2
    MaxLag = 1
    Modulus = 1024
    Confs <- AllConfs
    Delay = 2
    RiseCount = 2
    FallCount = 2
    MaxCrashes = 1
    CrashLocked = TRUE
INVARIANTS OneChecker
PROPERTIES Spaced Hysteresis CheckedAgain
