SPECIFICATION FairSpec
CONSTANTS
    MaxPosts = 3
    MaxExits = 2
    MaxPendingTimers = 2
INVARIANTS
    TypeOK
    NoLostWakeup
    NoCallLost
    CleanExit
PROPERTIES
    ExitAfterBacklog
    ImplementsSerialExecutor
    DueCallsRun
    ShutdownCompletes
