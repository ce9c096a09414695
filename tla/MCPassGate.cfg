SPECIFICATION GateSpec
CONSTANTS
    Unit = 2
    Tokens = {t1, t2}
    Admitters = {p1, p2}
    Configs <- MCConfigs
    NoConfig = NoConfig
    NoBucket = NoBucket
    NoPass = NoPass
    Times <- MCTimes
    MaxSeq = 3
    Second = 2
    PassTTL = 1
    MaxRetries = 0
    ThisEvent = show
    OtherEvents = {gala}
    Seats = 1
    Skews <- MCSkews
    MaxBurst = 2
    MaxRate = 1
SYMMETRY MCSymmetry
INVARIANTS
    GateTypeOK
    EveryTicketWaited
    CrowdBounded

    
