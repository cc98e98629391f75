CONSTANTS
    None = None
    Heals = {h1}
    Sources <- Both
    Failures <- Traced
    Overrides <- Unasked
    Answers <- Says
    Backends = {"docker"}
    Modes = {"pr"}
    Confined = FALSE
    OwnCopies = FALSE
    ReproduceRuns = 1
    BurninRuns = 2
    AllowSubprocessPr = FALSE
    MaxHeals = 2
    MaxEdits = 1
    MaxFaults = 0
SPECIFICATION Spec
INVARIANT CountersOfBody
CHECK_DEADLOCK FALSE
