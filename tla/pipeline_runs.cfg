CONSTANTS
    r1 = r1
    r2 = r2
    Runs = {r1, r2}
    Dead = {r2}
    Calls <- Varied
    MaxEdits = 1
    MaxChanges = 1
    Troubles = {"lost", "disk", "crash"}
SPECIFICATION Spec
INVARIANTS
    WritesApproved
    TicketEvidenceClean
    LedgerTrue
    SpoolOwned
CHECK_DEADLOCK FALSE
