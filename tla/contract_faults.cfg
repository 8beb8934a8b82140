SPECIFICATION Spec
CONSTANTS
    Nodes = {buyer, rival, middle, seller}
    buyer = buyer
    rival = rival
    middle = middle
    seller = seller
    NoHop = NoHop
    Asks = {"far"}
    Bids = {"first", "other"}
    AskRank <- RankOf
    Owner <- OwnersOf
    Volume <- TwoBoth
    NextHop <- Routes
    CreditLine = 3
    Faults = {"timeout", "crash", "drop", "bitcoin", "dberror"}
    MaxMishaps = 1
CHECK_DEADLOCK FALSE
INVARIANTS
    OwedAlongTheRoute
    SoldWithinVolume
    TypeOK
    CommitmentIsInFlight
