CONSTANTS
    k1 = k1
    k2 = k2
    k3 = k3
    broad = broad
    narrow = narrow
    Keys <- TwoKeys
    Queries <- TwoQueries
    Match <- MatchTwo
    NoQuery = NoQuery
    NoToken = NoToken
    MaxRev = 4
    MaxStamp = 3
    StampOf <- Stamp
    MinuteOf <- Minute
    Cutoff = 2
    PageSize = 1
    MaxPages = 1
    Modes = {"session", "cli"}
    MaxEdits = 2
    MaxCrashes = 1
    MaxFailures = 0
    MaxRejects = 1
    MaxQueries = 1
SPECIFICATION FairSpec
INVARIANTS
    NothingMissed
    TokensMatchStoredQuery
PROPERTIES
    WatermarkNeverRetreats
    IndexConverges
