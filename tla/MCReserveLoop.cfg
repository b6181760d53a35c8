SPECIFICATION Spec
CONSTANTS
    PageSize = 16384
    ZoneSize = 32
    Totals = {16353, 16354, 16355}
PROPERTY Terminates
CHECK_DEADLOCK FALSE
