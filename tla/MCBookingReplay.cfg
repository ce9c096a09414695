SPECIFICATION Spec
CONSTANTS
    NoRequest = NoRequest
    ann = ann
    bob = bob
    cat = cat
    show = show
    ghost = ghost
    Requests = {r1, r2}
    Claims <- MCTightClaims
    Events = {show, ghost}
    Capacity <- MCTightCapacity
PROPERTIES
    ReplayNeverSoldOut
