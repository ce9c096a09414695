SPECIFICATION LoopFairSpec
CONSTANTS
    Unit = 2
    Tokens = {t1, t2}
    Admitters = {p1, p2}
    Configs <- MCConfigs
    NoConfig = NoConfig
    NoBucket = NoBucket
    NoPass = NoPass
    Times <- MCTimes
    MaxSeq = 2
    Second = 2
    PassTTL = 1
    MaxRetries = 1
INVARIANTS
    LoopTypeOK
    EveryAdmissionAccountedFor
    PassesInBatchOrder
    KeyCoversPass
PROPERTIES
    PoppedIsSettled
