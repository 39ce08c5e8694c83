SPECIFICATION FairSpec
CONSTANTS
    Desired = 1
    MaxBalance = 3
    AnnounceDelay = 1
    MaxHeight = 4
    MaxReorgs = 1
    MaxRestarts = 1
    MaxFailures = 2
INVARIANTS TypeOK AnnouncedHostOffersStorage
PROPERTIES StopEndsJobs KeepsMining MinesAsNeeded ReorgIsNoticed WaitTimesOut
CHECK_DEADLOCK FALSE
