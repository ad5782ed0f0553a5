SPECIFICATION Spec
CONSTANTS
    MaxThreads = 3
    Objects = {o1, o2}
    Conns = {}
    Listeners = {}
    Slice = 1
    IdleLimit = 1
    MaxDepth = 2
    Quotas = {"daemon"}
    UndisturbedWaiters = TRUE
    Null = Null
SYMMETRY Symmetry
INVARIANTS
    SavedNextLive
PROPERTIES
    ImplementsMonitor
