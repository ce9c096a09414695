SPECIFICATION WaiterSpec
CONSTANTS
    Unit = 2
    b1 = b1
    Tokens = {t1, t2}
    Browsers = {b1}
    Tabs = {x1, x2}
    Owner <- MCOwner
    NoToken = NoToken
    NoBrowser = NoBrowser
    MaxClears = 0
    Admitters = {p1}
    Configs <- MCConfigs
    NoConfig = NoConfig
    NoBucket = NoBucket
    NoPass = NoPass
    Times <- MCTimes
    MaxSeq = 3
    Second = 1
    PassTTL = 1
    MaxRetries = 0
SYMMETRY MCSymmetry
INVARIANTS
    OnePlacePerBrowser
