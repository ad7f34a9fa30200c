SPECIFICATION BreakerSpec
CONSTANTS
    Threshold = 3
    SuccessTarget = 3
    MaxTrips = 4
INVARIANTS OpenHasTimer
PROPERTIES TripsEarned CloseEarned HalfOpens
