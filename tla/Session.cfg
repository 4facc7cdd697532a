SPECIFICATION FairSpec
\* A session ends.
CHECK_DEADLOCK FALSE
CONSTANTS
    d1 = d1
    d2 = d2
    d3 = d3
    Main = Main
    None = None
    Path = {d1, d2, d3}
    MaxParallel = 2
    HostHasJson = FALSE
INVARIANTS
    SessionTypeOK
    ParallelBound
    FormatKnown
    AllOrNothing
PROPERTIES
    EverythingEnds
    PollRefinement
