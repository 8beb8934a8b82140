SPECIFICATION Spec
CONSTANTS
    Nodes = {a, b}
    a = a
    b = b
    Amounts = {1}
    CreditLine = 1
    MaxSeq = 2
    MaxOpen = 2
    Faults = {"timeout"}
    MaxDrops = 1
    MaxRestarts = 0
CHECK_DEADLOCK FALSE
INVARIANTS
    SameBalanceWhenQuiet
