SPECIFICATION FairSpec
CONSTANTS
    Clients = {c1, c2}
    MainThread = main
    MaxTasks = 3
    NSlots = 1
    Control = {3}
    CanSleep = TRUE
    MayTerminate = TRUE
    PromptWakeup = TRUE
INVARIANTS TypeOK Conservation AsleepIsIdle OnlyMainWaits
PROPERTIES Served NobodyIsStuck
CHECK_DEADLOCK FALSE
