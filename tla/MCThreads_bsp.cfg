CONSTANTS
    BSP = BSP
    ap1 = ap1
    ap2 = ap2
    t1 = t1
    t2 = t2
    t3 = t3
    None = None
    ANY_CPU = ANY_CPU
    CPUs <- OneCpu
    Incarnations <- ThreeThreads
    THREAD_MAX_COUNT = 3
    Affinities <- AnyCpuOnly
    MaySpawn <- MainAndT1
    MayDetach = FALSE
SPECIFICATION FairSpec
CHECK_DEADLOCK FALSE
PROPERTIES
    MainJoinTerminates
