SPECIFICATION FairSpec
CONSTANTS
    None = None
    t1 = t1
    t2 = t2
    old = old
    i1 = i1
    i2 = i2
    j1 = j1
    Instances = {i1, i2}
    Concurrency = 1
    Tasks = {t1, t2}
    Late = {t2}
    Retired = {old}
    Exclusive = {t1}
    Jobs = {j1}
    MaxAttempts = 2
    MaxCrashes = 1
    Faults = {"lock", "purge"}
    MayOutlast = FALSE
INVARIANTS PurgeLeavesNothing
PROPERTIES LocksReleased SchedulersRecover
