SPECIFICATION Spec
CONSTANTS
    Clients = {c1, c2}
    MainThread = main
    MaxTasks = 2
    NSlots = 1
    Control = {}
    CanSleep = TRUE
    MayTerminate = FALSE
    PromptWakeup = FALSE
INVARIANTS OnlyMainWaits
CHECK_DEADLOCK FALSE
