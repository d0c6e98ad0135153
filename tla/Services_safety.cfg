SPECIFICATION ServicesSpec
CONSTANTS
    Tools = {t1}
    Batches = {b1, b2}
    MaxCalls = 2
    FailureCap = 2
    failure_threshold = 2
    half_open_max_calls = 2
    Agent = {a1, a2}
    Caller = {c1, c2}
    Total = 2
    Parts = 2
    MaxAmount = 3
    KillAfter = 2
    MaxRequests = 2
    MaxAgents = 1
    MaxRestarts = 1
    MaxChanges = 3
    Culprit = {a1}
    Kind = {k1}
    Reporter = {c1}
    Threshold = 2
    MaxHistory = 1
    MaxQueue = 2
    User = {c1, c2}
    MaxInteractions = 1
    MaxCommands = 4
    MaxCleanups = 1
    MaxOutput = 2
    MaxRead = 2
INVARIANT BreakerIsSound
INVARIANT UnitsAddUp
INVARIANT TableIsLimited
INVARIANT FailuresAreCounted
INVARIANT SessionIsSound
INVARIANT ResultIsTrue
PROPERTY RecoveryIsDecided
PROPERTY DeallocationIsDone
PROPERTY GivesUp
PROPERTY OpenIsLeft
PROPERTY ExecutionEnds
CHECK_DEADLOCK FALSE
