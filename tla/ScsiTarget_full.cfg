CONSTANTS
    LUN <- OneLun
    SectorsPerTrack = 2
    MaxTracks = 1
    Absent = Absent
    Empty = Empty
    IoFaults = FALSE
    CardMayFill = TRUE
    Commands = {"WRITE6"}
    InquiryArgs = {0, 1}
    Lba = {2}
    MaxBlocks = 1
    Cards <- TwoCards
    CardSwaps = FALSE
SPECIFICATION Spec
PROPERTIES
    WriteComplete
