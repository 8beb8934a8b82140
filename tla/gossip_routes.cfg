SPECIFICATION Spec
CONSTANTS
    Nodes = {ann, bob, cy}
    ann = ann
    bob = bob
    cy = cy
    dee = dee
    Owner = ann
    Nobody = Nobody
    Friends <- Ring
    Volume = 1
    Faults = {"reconnect", "timeout", "spend"}
    MaxBreaks = 1
CHECK_DEADLOCK FALSE
INVARIANTS
    TypeOK
    RoutesLeadToOwner
