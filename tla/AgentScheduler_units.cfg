SPECIFICATION Spec
CONSTANTS
    Thread = {t1}
    Agent = {a1}
    Persistent = {}
    Priority = {0}
    MaxConcurrent = 1
    Capacity = 1
    ChannelSize = 1
    MaxTasks = 1
    MaxCalls = 2
    ShutsDown = TRUE
INVARIANT ReleasedAtShutdown
CHECK_DEADLOCK FALSE
