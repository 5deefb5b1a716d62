CONSTANTS
    BSP = BSP
    ap1 = ap1
    ap2 = ap2
    t1 = t1
    t2 = t2
    t3 = t3
    None = None
    ANY_CPU = ANY_CPU
    CPUs <- ThreeCpus
    Incarnations <- ThreeThreads
    THREAD_MAX_COUNT = 2
    Affinities <- AnyOrAp
    MaySpawn <- MainOnly
    MayDetach = TRUE
SPECIFICATION Spec
CHECK_DEADLOCK FALSE
INVARIANTS
    ExactlyOneHolder
    NoSchedulerPanic
    NoHandlePanic
    RunsOnOwnTls
    IInv
PROPERTIES
    JoinReclaimsItsThread
    ImplementsLifecycle
SYMMETRY Interchangeable
