SPECIFICATION Spec
CONSTANTS
    TERMINAL_COUNT = 2
    MAX_PROCESS = 4
    CtrlC = FALSE
    StiWindow = TRUE
    ShellMissing = TRUE
PROPERTIES
    ImplementsSessions
CHECK_DEADLOCK FALSE
