CONSTANTS
    k1 = k1
    k2 = k2
    k3 = k3
    broad = broad
    narrow = narrow
    Keys <- ThreeKeys
    Queries <- OneQuery
    Match <- MatchThree
    NoQuery = NoQuery
    NoToken = NoToken
    MaxRev = 5
    MaxStamp = 4
    StampOf <- Stamp
    MinuteOf <- Minute
    Cutoff = 0
    PageSize = 1
    MaxPages = 2
    Modes = {"session", "cli"}
    MaxEdits = 2
    MaxCrashes = 1
    MaxFailures = 0
    MaxRejects = 1
    MaxQueries = 0
SYMMETRY Symmetry
SPECIFICATION Spec
INVARIANTS
    SyncInv
    TypeOK
    NothingMissed
PROPERTY WatermarkNeverRetreats
