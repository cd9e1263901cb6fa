SPECIFICATION Spec
CONSTANTS
    TERMINAL_COUNT = 2
    MAX_PROCESS = 3
    CtrlC = TRUE
    StiWindow = FALSE
    ShellMissing = FALSE
INVARIANTS
    EoiNotLost
