SPECIFICATION GicSpec
CONSTANTS
    base_id = 3
    max_id = 10
    WordBits = 3
    CPUs = {c1, c2, c3}
    Drivers = {d1, d2, d3}
    LPIs = {l1, l2}
    Devices = {d1, d2}
    Blocks = {b1, b2, b3, b4}
    num_entries = 3
    MAX_RETRIES = 1
    MaxCmds = 2
    QueueLimit = 2
    InitQueueLimit = 3
    Priorities = {99}
INVARIANTS
    Inv
    NoneMeansFull
    LpiExclusive
    IttInv
    InitInv
    IrqInv
PROPERTIES
    RingIsQueue
    MsiCorrect
    InitReturns
CHECK_DEADLOCK FALSE
