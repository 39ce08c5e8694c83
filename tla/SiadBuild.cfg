SPECIFICATION FairSpec
CONSTANTS
    Nums <- ThreeNums
    V140 = 1
    V155 = 2
    TagLists <- SomeTagLists
    PatchSets <- SomePatches
    Minima <- SomeMinima
    Exclusions <- SomeExclusions
    MaxFailures = 2
INVARIANTS TypeOK BinaryIsOfItsVersion ReleasesArePromised
PROPERTY BuildsRecover
