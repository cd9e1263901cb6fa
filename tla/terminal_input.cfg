SPECIFICATION FairSpec
CONSTANTS
    Term = {0, 1}
    MAX_TERMINAL = 2
    Capacities = {1, 3}
    TabByte = 1
INVARIANTS
    ReadNeedsEnter
    ReadWithinCapacity
PROPERTIES
    EnterEndsRead
