SPECIFICATION FairSpec
CONSTANTS
    Nodes = {buyer, hop}
    buyer = buyer
    hop = hop
    seller = seller
    Friends <- Chain
    Deals = {"near", "twin"}
    Route <- Routes
    Amount <- Amounts
    FirstLine = 1
    Lines = {2}
    MaxMishaps = 2
    MaxPayments = 1
    Faults = {"drop", "reset", "dberror", "timeout", "dayold", "crash"}
CHECK_DEADLOCK FALSE
INVARIANTS
    TypeOK
    Sound
    PaidOnce
    AllocationExplained
    FriendsAgree
    Concord
    LinesAgree
PROPERTIES
    EventuallyBooked
