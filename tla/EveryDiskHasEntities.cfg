SPECIFICATION MCSpec
CONSTANTS
    a = a
    None = None
    Disk = {a}
    Anonymous = {}
    Key = {1, 2}
    ManualKeys = {}
    ScanKeys = {1, 2}
    LsblkKeys = {1, 2}
    SkipStandby = TRUE
    Garbles = FALSE
    MaxWear = 1
    MaxEvents = 5
INVARIANTS
    EveryDiskHasEntities
