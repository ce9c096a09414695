SPECIFICATION EnvelopeSpec
CONSTANTS
    Unit = 2
    Tokens = {t1, t2, t3}
    Configs <- MCConfigs
    NoConfig = NoConfig
    NoBucket = NoBucket
    NoWindow = NoWindow
    Times <- MCTimes
    MaxSeq = 6
    MaxLag = 2
    MaxBurst = 2
    MaxRate = 2
    MaxRewound = 3
SYMMETRY MCSymmetry
INVARIANTS
    RateContract
