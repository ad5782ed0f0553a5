SPECIFICATION CheckpointSpec
CONSTANTS
    MaxThreads = 2
    Objects = {o1}
    Conns = {}
    Listeners = {}
    Slice = 1
    IdleLimit = 1
    MaxDepth = 1
    Quotas = {"daemon"}
    UndisturbedWaiters = FALSE
    Null = Null
    MaxRestarts = 1
INVARIANTS
    QueueInv
    LocksAccounted
    NamedOwnersLive
    OnlyGrantedStall
CHECK_DEADLOCK FALSE
