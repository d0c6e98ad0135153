SPECIFICATION Spec
CONSTANTS
    a1 = a1
    a2 = a2
    t1 = t1
    Agent <- TwoAgents
    Thread <- NoThread
    Registered <- OneAgent
    max_queue_size = 1
    dead_letter_queue_size = 1
    MaxMessages = 2
    MaxRequests = 0
    MaxCalls = 0
    ShutsDown = FALSE
INVARIANT NoCircularWait
CHECK_DEADLOCK FALSE
