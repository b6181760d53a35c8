SPECIFICATION MCSpec
CONSTANTS
    PageSize = 4
    ZoneSize = 2
    MAX_ORDER = 3
    DMAP_START = 100
    Regions <- TwoRegions
INVARIANTS
    Inv
    MapperInv
PROPERTIES
    ImplementsAllocator
    ImplementsMap
CHECK_DEADLOCK FALSE
