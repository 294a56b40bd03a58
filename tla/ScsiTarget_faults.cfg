CONSTANTS
    LUN <- OneLun
    SectorsPerTrack = 2
    MaxTracks = 1
    Absent = Absent
    Empty = Empty
    IoFaults = TRUE
    CardMayFill = TRUE
    Commands <- AllCommands
    InquiryArgs = {0, 1, 2}
    Lba = {1}
    MaxBlocks = 2
    Cards <- SomeCards
    CardSwaps = TRUE
SPECIFICATION Spec
INVARIANTS
    TypeOK
    NoTornCommandRuns
    LunClosedOutsideTransfer
    StartedImpliesMounted
    NoTornBlockWritten
PROPERTIES
    ImageLostOnlyByFormat
    ResetLeavesOnlyPresentImages
    FailedLunStopped
