SPECIFICATION FairSpec
CONSTANTS
    Workers = {a, b, c}
    Names = {"n"}
    Contents = {"x"}
    Absent = "absent"
    Broken = "broken"
    Static <- OneName
    MaxMsgs = 2
    MaxFaults = 1
    MaxStalls = 1
INVARIANTS SurvivorsCurrent PidsFit
PROPERTY QueueDrains
