SPECIFICATION Spec
CONSTANTS
    Files = {f1, f2}
    NoFile = NoFile
    DeleteFileThreshold = 1
    Phases = {"walletFull", "allowanceSet", "backgroundJobsStarted"}
    MaxRestarts = 1
INVARIANTS TypeOK SiaFilesAreKept ReportedStaysUploaded
PROPERTY StopEndsRenter
CHECK_DEADLOCK FALSE
