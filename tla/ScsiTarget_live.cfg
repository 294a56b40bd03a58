CONSTANTS
    LUN <- OneLun
    SectorsPerTrack = 2
    MaxTracks = 2
    Absent = Absent
    Empty = Empty
    IoFaults = FALSE
    CardMayFill = FALSE
    Commands <- AllCommands
    InquiryArgs = {0, 1}
    Lba = {3}
    MaxBlocks = 2
    Cards <- TwoCards
    CardSwaps = FALSE
SPECIFICATION FairSpec
INVARIANTS
    StartedLunHasFiles
    WritePosition
PROPERTIES
    ImplementsCommand
    WriteComplete
    ResetCompletes
    CommandCompletes
