SPECIFICATION FairSpec
CONSTANTS
    s1 = s1
    s2 = s2
    Subs = {s1, s2}
    Wanted <- Filters
    MaxEvents = 2
    MaxConns = 2
    MaxPulls = 1
    MayRefuse = TRUE
    MayClose = TRUE
CHECK_DEADLOCK FALSE
INVARIANTS StreamIsExact NoLostWakeup ClosedLeavesNoHandler
PROPERTIES EventsArrive
