SPECIFICATION FairSpec
CONSTANTS
    Nodes = {a, b}
    a = a
    b = b
    Amounts <- EitherSign
    CreditLine = 1
    MaxSeq = 2
    MaxOpen = 1
    Faults = {"timeout", "crash", "tear"}
    MaxDrops = 1
    MaxRestarts = 1
CHECK_DEADLOCK FALSE
INVARIANTS
    BooksBalance
    NoPhantomPayments
    Collectible
PROPERTIES
    PaymentsEnd
