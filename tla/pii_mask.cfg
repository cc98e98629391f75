CONSTANTS
    None = None
    Order <- Run
    Confidence <- Priorities
    Maximal = {"phone"}
    Tree <- Two
    Images = {"c.png"}
    Root = "root"
    Outside = "out"
    FileSystems <- Nothing
    Changes <- Becomes
    Calls <- NoCalls
    Questions <- Stacked
    DefaultFiles = 3
    MostFiles = 4
    MaxFindings = 2
    MaxChanges = 1
    MaxFaults = 1
CHECK_DEADLOCK FALSE
SPECIFICATION Spec
INVARIANT MaskHidesAll
