SPECIFICATION Spec
CONSTANTS
    NoRequest = NoRequest
    ann = ann
    bob = bob
    cat = cat
    show = show
    ghost = ghost
    Requests = {r1, r2, r3}
    Claims <- MCClaims
    Events = {show, ghost}
    Capacity <- MCCapacity
SYMMETRY MCSymmetry
INVARIANTS
    LockProtocol
    CounterMatchesRows
    NeverOversold
    HoldersNeverWait
    LoserFindsWinner
    AnswersAreTrue
    LateReplayFindsBooking
PROPERTIES
    IsTicketSale
