CONSTANTS
    t1 = t1
    t2 = t2
    c1 = c1
    c2 = c2
    s1 = s1
    s2 = s2
    s3 = s3
    d1 = d1
    d2 = d2
    d3 = d3
    Configs = {c1, c2}
    Callers = {t1, t2}
    Stores = {s1, s2}
    Scheds = {d1, d2}
    None = None
    Kinds = {"session", "tool"}
    MaxEvents = 2
SPECIFICATION FairSpec
INVARIANTS
    SyncsUndisturbed
    OfOnePiece
PROPERTIES
    ConfigTakenUp
