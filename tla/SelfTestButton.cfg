SPECIFICATION MCSpec
CONSTANTS
    a = a
    b = b
    None = None
    Idle = Idle
    Disk = {a, b}
    Anonymous = {}
    Key = {1, 2}
    ManualKeys = {}
    ScanKeys = {1, 2}
    LsblkKeys = {1, 2}
    SkipStandby = TRUE
    Garbles = FALSE
    MaxWear = 0
    MaxEvents = 1
    MaxPresses = 2
SYMMETRY Symmetry
INVARIANTS
    ButtonTypeOK
    PressIsPolled
PROPERTIES
    HitsOwnDisk
    TestIsShown
