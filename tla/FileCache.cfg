SPECIFICATION FairSpec
CONSTANTS
    Reqs = {1, 2, 3}
    Nodes = {1, 2}
    Confs <- MCConfs
CHECK_DEADLOCK FALSE
INVARIANTS
    HeldNodes
    SizeExact
    UpdatingOwned
PROPERTIES
    OneFetch
    RequestsEnd
