SPECIFICATION IdSpec
CONSTANTS
    a = a
    b = b
    None = None
    Disk = {a, b}
    Anonymous = {}
    Key = {1, 2}
    ManualKeys = {}
    ScanKeys = {1, 2}
    LsblkKeys = {1, 2}
    SkipStandby = TRUE
    Garbles = FALSE
    MaxWear = 1
    MaxEvents = 5
PROPERTIES
    EntryFollowsDisk
