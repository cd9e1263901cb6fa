SPECIFICATION Spec
CONSTANTS
    TERMINAL_COUNT = 2
    MAX_PROCESS = 3
    CtrlC = FALSE
    StiWindow = TRUE
    ShellMissing = FALSE
INVARIANTS
    SwitchTargetsLive
CHECK_DEADLOCK FALSE
