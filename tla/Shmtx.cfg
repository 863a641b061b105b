SPECIFICATION FairSpec
CONSTANTS
    Workers = {w1, w2, w3}
    Master = master
    None = none
    Semaphore = TRUE
    FaultKinds = {"crash", "sem_wait", "sem_post"}
    MaxFaults = 2
INVARIANTS
    TokensAccounted
    NoLostWakeup
PROPERTIES
    ImplementsSharedLock
    LockProgress
