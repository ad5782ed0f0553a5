SPECIFICATION PersistSpec
CONSTANTS
    Cells = {x1, x2, x3}
    Null = Null
    Undefined = Undefined
    Registers = {r1, r2}
    NumSlots = 2
    Names <- MCNames
    NumBuckets = 2
    HashOf <- MCHashOf
    PrefixOf <- MCPrefixOf
    Handles = {h1}
SYMMETRY MCSymmetry
INVARIANTS
    NoDangling
    SymtabExact
    InternedOnce
    HandlesOwned
    RoundTrip
    TruncatedRejected
PROPERTIES
    NothingLiveFreed
    NoFloatingGarbage
    OnlyGarbageClosed
    IdleClosesGarbage
