SPECIFICATION Spec
CONSTANTS
    Clients = {c1, c2}
    MainThread = main
    MaxTasks = 2
    NSlots = 1
    Control = {}
    CanSleep = TRUE
    MayTerminate = FALSE
    PromptWakeup = TRUE
INVARIANTS TokenizeWithModel
CHECK_DEADLOCK FALSE
