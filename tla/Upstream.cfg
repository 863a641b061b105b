SPECIFICATION FairSpec
CONSTANTS
    Slots = {1, 2, 3}
    Conns = {1, 2, 3, 4}
    Reqs = {1, 2}
    Confs <- MCConfs
CHECK_DEADLOCK FALSE
INVARIANTS PeersHeld ConnsOwned
PROPERTIES NextIsNew RequestsFinish
