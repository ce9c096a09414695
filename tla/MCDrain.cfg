SPECIFICATION DrainSpec
CONSTANTS
    Unit = 3
    Tokens = {t1, t2, t3}
    Configs <- MCConfigs
    NoConfig = NoConfig
    NoBucket = NoBucket
    Times <- MCTimes
    MaxSeq = 4
    MaxLag = 1
    Horizon = 4
INVARIANTS
    DrainTypeOK
PROPERTIES
    EveryoneIsCalled
    CreditIsKept
    PlacesMoveUp
