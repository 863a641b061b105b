SPECIFICATION FairSpec
CONSTANTS
    Workers = {w1, w2}
    Nobody = Nobody
    Socks = {s1, s2}
    Confs <- ThreeConfs
    ConnN = 1
    Reserve = 1
CHECK_DEADLOCK FALSE
INVARIANTS HolderListens NoAcceptAfterClose
PROPERTY Served
