SPECIFICATION FairSpec
CONSTANTS
    Job = {j1, j2}
    Browser = {j1}
    NoJob = none
    Anyone = anyone
    MaxTracked = 1
    MaxFaults = 1
    j1 = j1
    j2 = j2
    none = none
    anyone = anyone
INVARIANTS
    TypeOK
    ToldTheTruth
    RegistryBounded
    LatestSettles
PROPERTIES
    EndIsTold
CHECK_DEADLOCK FALSE
