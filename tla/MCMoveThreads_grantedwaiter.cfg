SPECIFICATION Spec
CONSTANTS
    MaxThreads = 2
    Objects = {o1}
    Conns = {}
    Listeners = {}
    Slice = 1
    IdleLimit = 1
    MaxDepth = 2
    Quotas = {"daemon"}
    UndisturbedWaiters = FALSE
    Null = Null
INVARIANTS
    RunnableCanRun
