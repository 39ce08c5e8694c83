SPECIFICATION FairSpec
CONSTANTS
    NumAnts = 2
    Window = 2
    MaxHeight = 3
    WrapHeight = 8
    MaxFailures = 0
PROPERTY LastingSplitIsReported
CHECK_DEADLOCK FALSE
