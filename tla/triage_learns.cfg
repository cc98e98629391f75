CONSTANTS
    None = None
    MaxLog = 3
    Before = 1
    After = 1
    CollapseAt = 2
    LineCap = 4
    CharCap = 14
    TailLines = 2
    TokenLimit = 3
    SampleLines = 2
    NoteWords <- Noted
    StopWords <- Common
    Calls = {c1, c2}
    Targets <- Mixed
    Queries <- AllLogs
    Chunks = {1, 2}
    Categories = {"flaky"}
    NoCategory = NoCategory
    Retention = 0
    MaxRows = 1
    MaxCalls = 3
    MaxClock = 1
    MaxFaults = 1
SPECIFICATION Spec
SYMMETRY Alike
INVARIANTS
    CountsUses
    StoreInOrder
    ExcerptTells
CHECK_DEADLOCK FALSE
