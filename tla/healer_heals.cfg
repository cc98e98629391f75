CONSTANTS
    None = None
    Heals = {h1, h2}
    Sources <- Both
    Failures <- Known
    Overrides <- Unasked
    Answers <- Says
    Backends = {"docker"}
    Modes = {"pr"}
    Confined = FALSE
    OwnCopies = FALSE
    ReproduceRuns = 1
    BurninRuns = 2
    AllowSubprocessPr = FALSE
    MaxHeals = 2
    MaxEdits = 1
    MaxFaults = 1
SPECIFICATION Spec
INVARIANTS
    RecipesProven
    FairlyCharged
    OfOnePiece
PROPERTIES
    Answered
CHECK_DEADLOCK FALSE
