SPECIFICATION WaiterSpec
CONSTANTS
    Unit = 2
    b1 = b1
    Tokens = {t1}
    Browsers = {b1}
    Tabs = {x1}
    Owner <- MCOwner
    NoToken = NoToken
    NoBrowser = NoBrowser
    MaxClears = 0
    Admitters = {p1}
    Configs <- MCConfigs
    NoConfig = NoConfig
    NoBucket = NoBucket
    NoPass = NoPass
    Times <- MCTimes
    MaxSeq = 2
    Second = 1
    PassTTL = 1
    MaxRetries = 0
PROPERTY
    UnknownMeansGone
