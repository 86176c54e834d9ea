SPECIFICATION FairSpec
CONSTANTS
    MaxStarts = 3
    MaxStops = 2
    Faulty = TRUE
    Null = Null
INVARIANTS StopReachesStreams SessionIsOfRun ChatIsHeld
PROPERTIES StartsAreFollowed
CHECK_DEADLOCK FALSE
