SPECIFICATION FairSpec
CONSTANTS
    Seeds = {s1, s2}
    NoSeed = NoSeed
    MiningSlots = {}
    SyncSlots = {r1}
    ChildSlots = {u1}
    MaxGens = 3
    JobLists <- RenterLists
INVARIANTS TypeOK OneLiveSiad NoSiadWhenDown JobsEndBeforeSiad SeedIsWalletSeed
PROPERTIES OperationsReturn EveryRunnerIsAStopGate
CHECK_DEADLOCK FALSE
