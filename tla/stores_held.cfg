CONSTANTS
    gateway = gateway
    cron = cron
    import = import
    again = again
    k1 = k1
    k2 = k2
    Stores = {gateway, cron}
    Migrators = {import}
    Keys = {k1, k2}
    Revs = {1, 2}
    Old = {1}
    Legacy <- LegacyOne
    Troubles = {}
    MaxMeta = 1
    MaxBusy = 1
    MaxCrashes = 1
SPECIFICATION Spec
INVARIANTS
    ReadsCurrent
CHECK_DEADLOCK FALSE
