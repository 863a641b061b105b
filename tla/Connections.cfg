SPECIFICATION Spec
CONSTANTS
    Slots = {s1, s2}
    NoSlot = NoSlot
    FreeShare = 2
    ReuseShare = 1
    ReuseMax = 2
    MaxOpens = 3
SYMMETRY Sym
INVARIANT PoolSound
PROPERTIES InstanceCatches RefusedOnlyIfBusy
