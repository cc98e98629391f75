CONSTANTS
    None = None
    t1 = t1
    t2 = t2
    Threads <- TwoThreads
    Clis = {c1}
    Doc <- Reports
    Unbindable = {"f3"}
    Ids <- OneId
    FedTest <- Fed
    Repeats = {1, 2}
    Cutoffs = {2}
    Directory <- InOrder
    MaxRuns = 3
    MaxFaults = 1
SYMMETRY Alike
SPECIFICATION Spec
INVARIANTS
    NothingHalf
    StaleOnlyAfterRefusal
    FedBackVisible
CHECK_DEADLOCK FALSE
