CONSTANTS
    r1 = r1
    r2 = r2
    Runs = {r1}
    Dead = {}
    Calls <- Plain
    MaxEdits = 0
    MaxChanges = 0
    Troubles = {"lost"}
CHECK_DEADLOCK FALSE
SPECIFICATION Spec
INVARIANTS
    AttentionFiledNothing
