SPECIFICATION Spec
CONSTANTS
    None = None
    t1 = t1
    i1 = i1
    i2 = i2
    j1 = j1
    j2 = j2
    Instances = {i1, i2}
    Concurrency = 2
    Tasks = {t1}
    Late = {t1}
    Retired = {}
    Exclusive = {t1}
    Jobs = {j1, j2}
    MaxAttempts = 2
    MaxCrashes = 0
    Faults = {"queue", "handler", "stall"}
    MayOutlast = FALSE
SYMMETRY Symmetry
INVARIANTS TypeOK NoOverlap
PROPERTIES SkipOnlyWhileRunning
