SPECIFICATION FairSpec
CONSTANTS
    Calls = {c1, c2}
    v1 = v1
    v2 = v2
    Versions = {v1, v2}
    Requests <- TwoLists
    MaxLen = 2
    NoVersion = NoVersion
INVARIANTS TypeOK AtMostOneBuild OneAnswerPerChannel NilMeansOnDisk
PROPERTIES EveryCallReturns ImplementsService
CHECK_DEADLOCK FALSE
