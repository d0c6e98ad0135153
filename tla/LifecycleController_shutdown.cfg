SPECIFICATION Spec
CONSTANTS
    Agent = {a1}
    Caller = {c1}
    MaxAgents = 1
    MaxRestarts = 1
    MaxCalls = 2
INVARIANT ShutdownTerminates
CHECK_DEADLOCK FALSE
