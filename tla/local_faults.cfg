SPECIFICATION Spec
CONSTANTS
    Nodes = {a, b}
    a = a
    b = b
    Amounts = {1}
    CreditLine = 1
    MaxSeq = 3
    MaxOpen = 2
    Faults = {"timeout", "crash"}
    MaxDrops = 1
    MaxRestarts = 0
CHECK_DEADLOCK FALSE
INVARIANTS
    TypeOK
    Safe
    DebitsAreMatched
    BookedOnce
PROPERTIES
    ImplementsLedger
SYMMETRY Symmetry
