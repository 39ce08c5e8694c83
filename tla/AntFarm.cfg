SPECIFICATION FairSpec
CONSTANTS
    NumAnts = 2
    Configs <- AllConfigs
    SyncModes = {TRUE, FALSE}
    HardforkHeight = 2
INVARIANTS TypeOK SyncBeforeJobs NothingLeftBehind
PROPERTIES NewAndCloseReturn NoJobWaitsForever
CHECK_DEADLOCK FALSE
