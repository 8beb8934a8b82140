SPECIFICATION Spec
CONSTANTS
    Nodes = {a, b}
    a = a
    b = b
    Amounts = {1, 2}
    CreditLine = 2
    MaxSeq = 3
    MaxOpen = 1
    Faults = {"timeout", "crash", "tear", "dberror"}
    MaxDrops = 1
    MaxRestarts = 0
CHECK_DEADLOCK FALSE
INVARIANTS
    DebitsAreMatched
    WithinCreditLines
    Funded
SYMMETRY Symmetry
