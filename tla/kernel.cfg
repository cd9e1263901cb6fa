SPECIFICATION FairSpec
CONSTANTS
    TERMINAL_COUNT = 2
    MAX_PROCESS = 4
    CtrlC = TRUE
    StiWindow = FALSE
    ShellMissing = FALSE
INVARIANTS
    TypeOK
    ProcessForest
    MachineFollowsTerminal
    SwitchTargetsLive
    KeyboardInService
PROPERTIES
    RoundRobin
    CtrlCHonoured
    KeyboardComesBack
    ImplementsSessions
