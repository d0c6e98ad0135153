SPECIFICATION BothSpec
CONSTANTS
    A = A
    B = B
    C = C
    Thread = {t1, t2}
    Agent = {A, B, C}
    Role = {A, B, C}
    Label = {"l", "r", "m", "n"}
    RoleOf <- MCRoleOf
    Protocol <- Protocols
    State <- MCState
    NotLegal = NotLegal
    Projects <- MCProjects
    Start <- MCStart
    Step <- MCStep
    Accepting <- MCAccepting
    MaxCalls <- MCMaxCalls
    Offered <- MCOffered
    Rest <- After
    Finished <- Ended
    Joint <- MCJoint
    Job = {j1, j2}
    OneShot = {j2}
    Caller = {c1}
    MaxConcurrent = 2
    JobLimit <- Places
    MaxRetries = 2
    MaxTime = 2
    MaxOperations = 1
    MaxFaults = 1
INVARIANT SessionIsFaithful
INVARIANT ProjectionIsExact
INVARIANT LimitsHold
INVARIANT RowsAreTrue
PROPERTY FollowsProtocol
PROPERTY DueIsServed
CHECK_DEADLOCK FALSE
