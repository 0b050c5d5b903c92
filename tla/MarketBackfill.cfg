SPECIFICATION FairSpec
CONSTANTS
    LastMinute = 4
    MaxFaults = 2
    Watched = {2}
    FirstDelay = 5
    MaxDelay = 60
    PageSize = 2
    MaxAttempts = 2
    Grace = 1
    Listings <- MCListings
INVARIANT TypeOK
PROPERTIES
    ImplementsCandleStore
    PartialOnlyAtTheEnd
    CleanRunLeavesNoGap
    BackfillEnds
    EveryMinuteStored
CHECK_DEADLOCK FALSE
