SPECIFICATION FairConnSpec
CONSTANTS
    Readers = {r1, r2}
    LineMax = 2
    MaxSent = 4
INVARIANTS
    LinesInOrder
    CharsOnce
PROPERTIES
    ReaderReleased
