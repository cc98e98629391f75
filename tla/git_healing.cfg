CONSTANTS
    e1 = e1
    e2 = e2
    p1 = p1
    p2 = p2
    Edits = {e1, e2}
    Patches = {p1, p2}
    MaxHeals = 3
    UserPhases = {"idle", "healing"}
    UserCommitsOn = {"main"}
    Troubles = {"denied", "lost", "crash"}
SYMMETRY Symmetry
SPECIFICATION Spec
INVARIANTS
    PatchesKeptApart
    UserWorkSurvives
    CheckoutInOrder
CHECK_DEADLOCK FALSE
