SPECIFICATION LocksSpec
CONSTANTS
    CPUs = {c1, c2, c3}
    Modulus = 4
    QuietPanic = TRUE
    MaxPanics = 1
    MaxReaders = 2
INVARIANTS
    TicketsInv
    StateInv
PROPERTIES
    ImplementsFairLock
    NoLostWakeup
    EveryLockIsALock
    WriterPreference
CHECK_DEADLOCK FALSE
