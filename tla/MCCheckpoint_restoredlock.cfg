SPECIFICATION CheckpointSpec
CONSTANTS
    MaxThreads = 1
    Objects = {o1}
    Conns = {}
    Listeners = {}
    Slice = 2
    IdleLimit = 1
    MaxDepth = 2
    Quotas = {"daemon"}
    UndisturbedWaiters = TRUE
    Null = Null
    MaxRestarts = 1
INVARIANTS
    SelectCanWake
