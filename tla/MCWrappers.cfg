CONSTANTS
    Threads = {"t1", "t2", "t3"}
    Language = "python"
    Calls = {"general_messages", "load_userlist", "set_plugin_user_metadata"}
    Handle <- MCHandle
    MaxCalls = 3
    Unused = Unused
SPECIFICATION MCSpec
INVARIANTS
    LockProtects
    OnlyLoggersBlock
    LoggerKeepsPromises
    CausesSurvive
    TwinsAgree
PROPERTIES
    PoisonedRefused
    CallsAreAtomic
    WaitsEnd
CHECK_DEADLOCK FALSE
