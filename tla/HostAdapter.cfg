CONSTANTS
    ListLength = 3
    BlockLength = 4
    TocMax = 3
    PromptHost = TRUE
    HoldsData = TRUE
    Garbage = Garbage
SPECIFICATION Spec
INVARIANTS
    TypeOK
    InStep
PROPERTIES
    ImplementsChannel
