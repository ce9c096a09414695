SPECIFICATION AdminFairSpec
CONSTANTS
    NoRequest = NoRequest
    ann = ann
    bob = bob
    show = show
    Requests = {r1, r2}
    Claims <- MCClaims
    Events = {show}
    Capacity <- MCCapacity
    Sizes = {0, 1}
INVARIANTS
    AdminTypeOK
    CounterWithinCapacity
    BookingsHaveEvents
PROPERTIES
    RequestsCountRight
    EveryRequestEnds
