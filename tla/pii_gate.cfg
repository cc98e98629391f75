CONSTANTS
    None = None
    Order <- Run
    Confidence <- Priorities
    Maximal = {"phone"}
    Tree <- Two
    Images = {"c.png"}
    Root = "root"
    Outside = "out"
    FileSystems <- Systems
    Changes <- Becomes
    Calls <- Asked
    Questions <- Texts
    DefaultFiles = 3
    MostFiles = 4
    MaxFindings = 2
    MaxChanges = 1
    MaxFaults = 1
CHECK_DEADLOCK FALSE
SPECIFICATION Spec
INVARIANTS
    PassedIsClean
    FindingsKept
    FindingsAgree
