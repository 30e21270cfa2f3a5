CONSTANTS
    t1 = t1
    t2 = t2
    Trips <- TwoTrips
    NoTrip = NoTrip
    MaxAttempts = 2
    Budget = 2
    MaxChunks = 2
    MaxFailures = 1
    MaxCrashes = 1
SPECIFICATION FairSpec
INVARIANTS BudgetRespected AtMostOneLateRequest AttemptsAreUsed
PROPERTIES TripSettles
CHECK_DEADLOCK FALSE
