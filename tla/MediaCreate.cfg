SPECIFICATION Spec
CONSTANTS
    None = None
    c1 = c1
    c2 = c2
    c3 = c3
    Creators = {c1, c2, c3}
    k1 = k1
    Cancels = {k1}
    Webhooks = {}
    a1 = a1
    Applies = {a1}
    Results <- AllResults
    Polling = TRUE
    MayExpire = TRUE
    Faults = {"provider", "storage", "events", "hooks"}
    IsArray = TRUE
    MaxCrashes = 1
SYMMETRY Symmetry
INVARIANTS TypeOK OneProviderJob SucceededHasFiles
