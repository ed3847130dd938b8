CONSTANTS
    r1 = r1  r2 = r2  noRepo = noRepo  artA = artA  artB = artB
    Repo = {r1}
    NoRepo = noRepo
    WantsEmail = {r1}
    MaxNote = 3
    Doi = {artA, artB}
    DoiOf <- MCDoiOf
    WithFiles = {1}
    RetryLimit = 1
    MaxFaults = 1
    MaxGui = 2
SPECIFICATION Spec
INVARIANT TypeOK
INVARIANT NothingPassedOver
INVARIANT CopiesBounded
PROPERTY DeliversInOrder
