SPECIFICATION Spec
CONSTANTS
    Thread = {t1}
    Agent = {a1, a2}
    Persistent = {}
    Priority = {0, 1}
    MaxConcurrent = 1
    Capacity = 2
    ChannelSize = 1
    MaxTasks = 3
    MaxCalls = 3
    ShutsDown = TRUE
INVARIANT TasksAreSound
PROPERTY ImplementsPool
SYMMETRY Symmetric
CHECK_DEADLOCK FALSE
