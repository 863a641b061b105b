SPECIFICATION Spec
CONSTANTS
    r1 = r1
    r2 = r2
    c1 = c1
    c2 = c2
    Names = {"n", "m"}
    StaticNames <- OneStatic
    Requests = {r1, r2}
    Conns = {c1}
    MaxObjs = 4
    MaxFails = 1
SYMMETRY Sym
INVARIANT NoUseAfterFree
CHECK_DEADLOCK FALSE
