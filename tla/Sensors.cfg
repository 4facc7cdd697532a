SPECIFICATION ParserSpec
CONSTANTS
    None = None
    Reports <- MCReports
    Scans <- MCScans
    Polls <- MCPolls
    Hosts <- MCHosts
INVARIANTS
    OutcomeOK
    ProblemShown
    FormatsAgree
    OptionsCover
    RunningShown
    PercentageSane
    DevicesOnce
    DisksKept
    HostIsItself
CHECK_DEADLOCK FALSE
