SPECIFICATION MCSpec
CONSTANTS
    a = a
    c = c
    None = None
    Disk = {a, c}
    Anonymous = {c}
    Key = {1, 2}
    ManualKeys = {1, 2}
    ScanKeys = {1, 2}
    LsblkKeys = {1, 2}
    SkipStandby = TRUE
    Garbles = TRUE
    MaxWear = 1
    MaxEvents = 2
INVARIANTS
    EntityTypeOK
    EntitiesComplete
    OwnEntry
PROPERTIES
    AddedOnce
    ErrorsKeepDisks
