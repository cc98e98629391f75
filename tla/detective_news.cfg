CONSTANTS
    None = None
    Scanners = {s1}
    Reports = {"junit"}
    Contents <- Mixed
    Ids <- ByClass
    Repeats = 2
    Params <- Plain
    MaxTime = 2
    MaxRuns = 3
    MaxCrashes = 1
SPECIFICATION Spec
INVARIANTS
    TellsAll
    EachReportOnce
PROPERTIES
    KeepsNews
    SnapshotSurvives
    CatchesUp
CHECK_DEADLOCK FALSE
