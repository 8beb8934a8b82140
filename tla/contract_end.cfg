SPECIFICATION FairSpec
CONSTANTS
    Nodes = {buyer, middle, seller}
    buyer = buyer
    rival = rival
    middle = middle
    seller = seller
    NoHop = NoHop
    Asks = {"far", "near"}
    Bids = {"first"}
    AskRank <- RankOf
    Owner <- OwnersOf
    Volume <- TwoNear
    NextHop <- Routes
    CreditLine = 2
    Faults = {"timeout", "cancel"}
    MaxMishaps = 1
CHECK_DEADLOCK FALSE
INVARIANTS
    OwedAlongTheRoute
    Owed
    Counted
    CommitmentIsInFlight
PROPERTIES
    TransactionsEnd
