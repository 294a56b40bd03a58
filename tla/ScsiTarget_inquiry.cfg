CONSTANTS
    LUN <- OneLun
    SectorsPerTrack = 2
    MaxTracks = 1
    Absent = Absent
    Empty = Empty
    IoFaults = FALSE
    CardMayFill = FALSE
    Commands = {"INQUIRY"}
    InquiryArgs = {0}
    Lba = {0}
    MaxBlocks = 1
    Cards <- TwoCards
    CardSwaps = FALSE
SPECIFICATION Spec
INVARIANTS
    PhaseMatchesDirection
