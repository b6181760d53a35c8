SPECIFICATION Spec
CONSTANTS
    Drivers = {d1, d2}
    LPIs = {l1, l2}
    QueueLimit = 2
INVARIANT HandlerFound
