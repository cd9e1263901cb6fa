SPECIFICATION Spec
CONSTANTS
    TERMINAL_COUNT = 3
    MaxPos = 2
    MaxDepth = 2
INVARIANTS
    OwnOutputOnly
    CoordinatesKept
    MappingsFollow
