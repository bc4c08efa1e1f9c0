SPECIFICATION FairSpec
CONSTANTS
    i1 = i1
    i2 = i2
    c1 = c1
    c2 = c2
    c3 = c3
    c4 = c4
    c5 = c5
    k1 = k1
    k2 = k2
    k3 = k3
    k4 = k4
    Calls = {c1, c2, c3, c4, c5}
    Instances = {i1, i2}
    Keys = {k1, k2, k3, k4}
    Home <- Homes
    KeyOf <- RequestKeys
    Cost <- Costs
    Budget = 3
INVARIANTS InBudget RefusedStopsCounting
PROPERTIES NoOverRejection ReservationsSettle
