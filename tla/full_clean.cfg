CONSTANTS
    k1 = k1
    k2 = k2
    k3 = k3
    broad = broad
    narrow = narrow
    Keys <- ThreeKeys
    Queries <- OneQuery
    Match <- MatchThree
    NoQuery = NoQuery
    NoToken = NoToken
    MaxRev = 4
    MaxStamp = 3
    StampOf <- Stamp
    MinuteOf <- Minute
    Cutoff = 0
    PageSize = 1
    MaxPages = 1
    Modes = {"full"}
    MaxEdits = 0
    MaxCrashes = 0
    MaxFailures = 1
    MaxRejects = 1
    MaxQueries = 0
SPECIFICATION Spec
PROPERTY SweepDeletesOnlyGone
