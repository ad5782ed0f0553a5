SPECIFICATION Spec
CONSTANTS
    MaxThreads = 2
    Objects = {o1, o2}
    Conns = {c1, l1}
    Listeners = {l1}
    Slice = 2
    IdleLimit = 2
    MaxDepth = 2
    Quotas = {"quota"}
    UndisturbedWaiters = FALSE
    Null = Null
SYMMETRY Symmetry
INVARIANTS
    QueuesPartition
    WaitersHoldNothing
    SelectCanWake
    SelectMissesNothing
    NoOrphanLock
