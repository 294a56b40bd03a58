CONSTANTS
    LUN <- TwoLuns
    SectorsPerTrack = 2
    MaxTracks = 1
    Absent = Absent
    Empty = Empty
    IoFaults = FALSE
    CardMayFill = FALSE
    Commands <- SenseCommands
    InquiryArgs = {0, 1}
    Lba = {0}
    MaxBlocks = 1
    Cards <- HalfCard
    CardSwaps = FALSE
SPECIFICATION Spec
INVARIANTS
    SenseKept
    SenseAnnounced
    PhaseMatchesDirection
