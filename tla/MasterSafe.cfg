\* Reloads, crashes, failed forks, WINCH, QUIT and TERM; no binary upgrade.
CONSTANTS
    Roles <- WorkerAndLoader
    MaxProcesses = 5
    Signals = {"HUP", "QUIT", "TERM", "USR1", "WINCH"}
    MaxSignals = 2
    MaxForkFails = 1
    MaxCrashes = 1
SPECIFICATION Spec
INVARIANTS
    NoOrphans
    NoStaleWorker
    WorkersSteady
PROPERTIES
    NoChildDropped
    ReloadReplaces
CHECK_DEADLOCK FALSE
