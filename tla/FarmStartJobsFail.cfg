SPECIFICATION FairSpec
CONSTANTS
    NumAnts = 2
    Configs <- SpenderConfigs
    SyncModes = {TRUE}
    HardforkHeight = 1
INVARIANT JobsAreInSync
CHECK_DEADLOCK FALSE
