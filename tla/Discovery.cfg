SPECIFICATION MCSpec
CONSTANTS
    a = a
    b = b
    None = None
    Disk = {a, b}
    Anonymous = {}
    Key = {1, 2, 3}
    ManualKeys = {}
    ScanKeys = {1, 2}
    LsblkKeys = {3}
    SkipStandby = TRUE
    Garbles = FALSE
    MaxWear = 1
    MaxEvents = 3
SYMMETRY Symmetry
INVARIANTS
    TypeOK
    OwnEntry
    OnePathPerEntry
PROPERTIES
    MeterMonotone
    ErrorsKeepDisks
    ValuesKept
