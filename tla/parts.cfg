CONSTANTS
    Requests = {0, 1, 16, 31, 63, 64, 65}
    HEAP = 256
    WRAP = 4096
SPECIFICATION PartsSpec
CHECK_DEADLOCK FALSE
INVARIANTS
    TypesOK
    BlocksDisjoint
    CommandUnderstood
    FormatFollowed
    LineShown
    DeletedStaysDeleted
    FewFilesLost
    ListingComplete
    BlockWritten
    LinesFound
PROPERTIES
    PeriodKept
    ImplementsOrder
