SPECIFICATION Spec
CONSTANTS
    Nodes = {buyer, middle, seller}
    buyer = buyer
    rival = rival
    middle = middle
    seller = seller
    NoHop = NoHop
    Asks = {"far", "near", "spare"}
    Bids = {"first"}
    AskRank <- RankOf
    Owner <- OwnersOf
    Volume <- TwoBid
    NextHop <- Routes
    CreditLine = 4
    Faults = {}
    MaxMishaps = 0
CHECK_DEADLOCK FALSE
INVARIANTS
    BidNotOverfilled
