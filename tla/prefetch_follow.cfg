CONSTANTS
    q1 = q1
    q2 = q2
    t1 = t1
    t2 = t2
    f1 = f1
    f2 = f2
    f3 = f3
    Keys = {q1, q2}
    Turns = {t1, t2}
    Futures = {f1, f2, f3}
    NoFuture = NoFuture
    Workers = 1
    MaxSize = 1
    MaxIndex = 3
    MaxFailures = 0
SPECIFICATION FairSpec
INVARIANT CacheFollowsIndex
PROPERTY SlotsComeBack
