\* SIGHUP after an upgrade that could not be started.
CONSTANTS
    Roles <- OneWorker
    MaxProcesses = 4
    Signals = {"HUP", "USR2"}
    MaxSignals = 2
    MaxForkFails = 1
    MaxCrashes = 0
SPECIFICATION Spec
PROPERTIES
    ReloadReplaces
CHECK_DEADLOCK FALSE
