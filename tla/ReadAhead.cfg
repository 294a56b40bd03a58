CONSTANTS
    SectorBufferLength = 3
    Starts = {0, 1, 2}
    Counts = {1, 2, 3, 5}
    Lengths = {0, 1, 2, 3, 4, 5, 6, 7}
    Stale = Stale
SPECIFICATION Spec
INVARIANTS
    TypeOK
    CountersAgree
PROPERTIES
    ImplementsStream
