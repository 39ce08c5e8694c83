SPECIFICATION FairSpec
CONSTANTS
    NumAnts = 3
    Window = 2
    MaxHeight = 2
    WrapHeight = 4
    MaxFailures = 1
INVARIANTS TypeOK GroupsAreExact OneGroupForksLate
PROPERTY AgreementIsSeen
CHECK_DEADLOCK FALSE
