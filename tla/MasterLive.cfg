\* Stops, a reload and a binary upgrade that end; the workers are fair only
\* where a property says so.
SPECIFICATION KernelSpec
CONSTANTS
    Roles <- OneWorker
    MaxProcesses = 3
    Signals = {"HUP", "QUIT", "TERM", "USR2", "WINCH"}
    MaxSignals = 3
    MaxForkFails = 0
    MaxCrashes = 1
PROPERTIES StopsEnd DeadReplaced RollbackRestarts
CHECK_DEADLOCK FALSE
