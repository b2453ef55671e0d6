CONSTANTS
    DAYS = 2
    HOURS = 2
    MINUTES = 3
    Slack = 2
    Period = 2
    BootDelay = 1
    DefaultHour = 0
    Windows <- AllWindows
    Asked = {"reboot", "patch"}
    MaxAsked = 1
    KernelStays = TRUE
    SlowCheck = FALSE
    MaxCuts = 1
    None = None
SPECIFICATION FairSpec
INVARIANTS
    OnlyWhenNeeded
    AskedOnce
    RebootInWindow
PROPERTIES
    WindowServed
    RebootAnswered
    PatchAnswered
CHECK_DEADLOCK FALSE
