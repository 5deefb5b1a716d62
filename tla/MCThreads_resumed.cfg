CONSTANTS
    BSP = BSP
    ap1 = ap1
    ap2 = ap2
    t1 = t1
    t2 = t2
    t3 = t3
    None = None
    ANY_CPU = ANY_CPU
    CPUs <- TwoCpus
    Incarnations <- TwoThreads
    THREAD_MAX_COUNT = 2
    Affinities <- AnyCpuOnly
    MaySpawn <- MainOnly
    MayDetach = FALSE
SPECIFICATION Spec
CHECK_DEADLOCK FALSE
INVARIANTS
    FinishedNeverResumed
