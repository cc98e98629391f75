CONSTANTS
    q1 = q1
    q2 = q2
    q3 = q3
    t1 = t1
    t2 = t2
    f1 = f1
    f2 = f2
    f3 = f3
    f4 = f4
    Keys = {q1, q2, q3}
    Turns = {t1, t2}
    Futures = {f1, f2, f3, f4}
    NoFuture = NoFuture
    Workers = 1
    MaxSize = 1
    MaxIndex = 3
    MaxFailures = 1
SYMMETRY Symmetry
SPECIFICATION Spec
INVARIANTS
    CachedSinceClear
    Bounded
    CacheFollowsSyncs
    SlotsHeld
