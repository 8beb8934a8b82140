SPECIFICATION FairSpec
CONSTANTS
    Nodes = {ann, bob, cy, dee}
    ann = ann
    bob = bob
    cy = cy
    dee = dee
    Owner = ann
    Nobody = Nobody
    Friends <- Line
    Volume = 3
    Faults = {"restart", "timeout", "spend"}
    MaxBreaks = 1
CHECK_DEADLOCK FALSE
INVARIANTS
    BooksAgree
    ToldInOrder
PROPERTIES
    OrderExpires
