CONSTANTS
    NClusters = 3
    EntriesPerSector = 1
    MaxValue = 1
    DiskErrors = TRUE
    MaxSize = 2
    Written = {1}
SPECIFICATION Spec
PROPERTIES
    AutoStart
