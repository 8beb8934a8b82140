SPECIFICATION Spec
CONSTANTS
    Entries <- TwoEntries
    Parts <- HalfACoin
    Texts <- Credits
    FriendsLine <- OneUnit
    PeerCurrency <- SharedCurrency
    Payments <- Thirds
    Conversation <- Phrases
    Faults = {"dberror", "crash"}
    MaxMishaps = 1
    MaxBookings = 2
    MaxOrders = 1
CHECK_DEADLOCK FALSE
INVARIANTS
    TypeOK
    ToldExactly
    OrdersStored
    LogCoversBookings
    BalancesKeepSixDigits
    FriendsRoundAlike
