CONSTANTS
    ListLength = 3
    BlockLength = 4
    TocMax = 3
    PromptHost = FALSE
    HoldsData = FALSE
    Garbage = Garbage
SPECIFICATION FairSpec
PROPERTIES
    Unblocked
    ListCompletes
