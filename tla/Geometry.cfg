CONSTANTS
    SectorsPerTrack = 3
    SectorSize = 4
    BlockBytes = 2
    MostHeads = 4
    Byte = 8
    HalfWord = 8
    Word = 512
    Sizes <- SomeSizes
    Lba <- SomeLbas
SPECIFICATION Spec
INVARIANTS
    TypeOK
    SizesAgree
    VerifiedInImage
    TranslationExact
PROPERTIES
    FormatKeepsSize
