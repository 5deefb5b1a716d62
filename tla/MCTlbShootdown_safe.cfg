CONSTANTS
    bsp = bsp
    ap1 = ap1
    ap2 = ap2
    None = None
    FLUSH_ALL = FLUSH_ALL
    CPUs <- AllCpus
    Callers <- TwoCallers
    Addresses = {a}
    MAX_REMAPS = 2
SPECIFICATION FairSpec
CHECK_DEADLOCK FALSE
INVARIANTS
    ShootdownSound
PROPERTIES
    ReturnsUnlessCrossed
