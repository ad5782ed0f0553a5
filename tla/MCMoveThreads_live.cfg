SPECIFICATION FairSpec
CONSTANTS
    MaxThreads = 2
    Objects = {o1}
    Conns = {c1}
    Listeners = {}
    Slice = 1
    IdleLimit = 1
    MaxDepth = 1
    Quotas = {"quota"}
    UndisturbedWaiters = FALSE
    Null = Null
PROPERTIES
    RunnableServed
    SleeperWakes
    ClosedConnReleases
    DyingReaped
