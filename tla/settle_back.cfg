SPECIFICATION Spec
CONSTANTS
    Nodes = {buyer, hop, seller}
    buyer = buyer
    hop = hop
    seller = seller
    Friends <- Chain
    Deals = {"far", "back"}
    Route <- Routes
    Amount <- Amounts
    FirstLine = 2
    Lines = {}
    MaxMishaps = 0
    MaxPayments = 1
    Faults = {}
CHECK_DEADLOCK FALSE
INVARIANTS
    FriendsAgree
