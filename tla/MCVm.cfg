SPECIFICATION MCSpec
CONSTANTS
    CPUs = {c1, c2}
    Pages = {p1, p2, p3}
    Cap = 3
    LargeSize = 5
    Null = Null
    Threads = {t1, t2}
    Index = {0, 1}
    max_level = 2
    Ranges <- ThreeRanges
    PAs = {1}
    None = None
    PageSize = 16384
    ZoneSize = 32
    Totals <- Lucky
    MaxRegion = 33000
    Ratio = 2
    PerPage = 3
    MinPages = 4
    Top = 13
    UEFI_PAGE_SIZE = 2
    PAGE_SIZE = 4
    Places = {2, 4}
    PhysTop = 36
INVARIANTS
    Inv
    NotStranded
    UsedExact
    CursorInv
    ReservationExact
    EarlyInv
PROPERTIES
    ImplementsHeap
    ReserveTerminates
CHECK_DEADLOCK FALSE
