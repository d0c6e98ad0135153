SPECIFICATION FairSpec
CONSTANTS
    a1 = a1
    a2 = a2
    t1 = t1
    Agent <- OneAgent
    Thread <- OneThread
    Registered <- OneAgent
    max_queue_size = 2
    dead_letter_queue_size = 1
    MaxMessages = 2
    MaxRequests = 1
    MaxCalls = 1
    ShutsDown = TRUE
INVARIANT MessagesAreSound
INVARIANT PendingIsWaited
PROPERTY ImplementsMailboxes
PROPERTY EventsAreProcessed
CHECK_DEADLOCK FALSE
