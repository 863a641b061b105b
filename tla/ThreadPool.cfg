SPECIFICATION FairSpec
CONSTANTS
    Threads = {t1, t2, t3}
    Tasks = {k1, k2, k3}
    ExitTask = ExitTask
    NoTask = NoTask
    MaxQueue = 2
CHECK_DEADLOCK FALSE
INVARIANTS QueueBounded Conserved DoneSeen DestroySafe
PROPERTIES TasksFinish
