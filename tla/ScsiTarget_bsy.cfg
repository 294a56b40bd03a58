CONSTANTS
    LUN <- OneLun
    SectorsPerTrack = 2
    MaxTracks = 1
    Absent = Absent
    Empty = Empty
    IoFaults = FALSE
    CardMayFill = FALSE
    Commands = {"TESTUNITREADY"}
    InquiryArgs = {0, 1}
    Lba = {0}
    MaxBlocks = 1
    Cards <- TwoCards
    CardSwaps = FALSE
SPECIFICATION Spec
INVARIANTS
    BusFreeReleasesBsy
