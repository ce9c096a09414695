SPECIFICATION LoopSpec
CONSTANTS
    Unit = 2
    Tokens = {t1, t2}
    Admitters = {p1}
    Configs <- MCConfigs
    NoConfig = NoConfig
    NoBucket = NoBucket
    NoPass = NoPass
    Times <- MCTimes
    MaxSeq = 3
    Second = 2
    PassTTL = 1
    MaxRetries = 1
INVARIANTS
    LivePassIsShown
