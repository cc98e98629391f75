CONSTANTS
    None = None
    MaxLog = 6
    Before = 1
    After = 1
    CollapseAt = 2
    LineCap = 2
    CharCap = 14
    TailLines = 2
    TokenLimit = 3
    SampleLines = 2
    NoteWords <- Noted
    StopWords <- Common
    Calls = {c1, c2}
    Targets <- Unlike
    Queries <- NoLogs
    Chunks = {1, 2}
    Categories = {"flaky"}
    NoCategory = NoCategory
    Retention = 0
    MaxRows = 1
    MaxCalls = 3
    MaxClock = 1
    MaxFaults = 1
SPECIFICATION Spec
INVARIANT SimilarSharesSignal
CHECK_DEADLOCK FALSE
