SPECIFICATION Spec
CONSTANTS
    Files = {f1, f2}
    NoFile = NoFile
    DeleteFileThreshold = 1
    Phases = {"backgroundJobsStarted"}
    MaxRestarts = 1
PROPERTIES OldDirectoryIsNoObstacle
CHECK_DEADLOCK FALSE
