CONSTANTS
    t1 = t1
    t2 = t2
    c1 = c1
    c2 = c2
    s1 = s1
    s2 = s2
    s3 = s3
    d1 = d1
    d2 = d2
    d3 = d3
    Configs = {c1, c2}
    Callers = {t1, t2}
    Stores = {s1, s2, s3}
    Scheds = {d1, d2, d3}
    None = None
    Kinds = {"session", "turn", "tool"}
    MaxEvents = 2
SYMMETRY Symmetry
SPECIFICATION Spec
INVARIANTS
    SyncKeepsItsStore
