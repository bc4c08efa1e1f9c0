SPECIFICATION FairSpec
CONSTANTS
    None = None
    c1 = c1
    Creators = {c1}
    k1 = k1
    Cancels = {k1}
    w1 = w1
    Webhooks = {w1}
    a1 = a1
    a2 = a2
    Applies = {a1, a2}
    Results <- BoundedResults
    Polling = TRUE
    MayExpire = FALSE
    Faults = {"hooks"}
    IsArray = TRUE
    MaxCrashes = 2
INVARIANTS ActiveIsWatched AppliedOnce UploadsAccounted
PROPERTIES SubmittedTasksFinish CancellationSticks AppliesSettle
