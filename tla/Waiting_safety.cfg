SPECIFICATION WaitingSpec
CONSTANTS
    Requests = {r1, r2}
    NeedsApproval = {r1}
    Operators = {o1, o2, o3}
    Authorized = {o1, o2}
    Request = {q1}
    Thread = {t1}
    Agent = {a1}
    Persistent = {}
    Priority = {0}
    MaxConcurrent = 1
    Capacity = 1
    ChannelSize = 1
    MaxTasks = 2
    MaxCalls = 3
    ShutsDown = TRUE
INVARIANT ResolutionIsSound
INVARIANT RelayIsSound
PROPERTY ConsentIsAsked
PROPERTY EveryCallReturns
PROPERTY AnsweredIsDelivered
PROPERTY RunningIsReaped
PROPERTY ShutdownEnds
CHECK_DEADLOCK FALSE
