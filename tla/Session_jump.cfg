SPECIFICATION SessionSpec
CONSTANTS
    A = A
    B = B
    C = C
    Thread = {t1, t2}
    Agent = {A, B, C}
    Role = {A, B, C}
    Label = {"l", "r", "m", "n"}
    RoleOf <- MCRoleOf
    Protocol <- Jumps
    State <- MCState
    NotLegal = NotLegal
    Projects <- MCProjects
    Start <- MCStart
    Step <- MCStep
    Accepting <- MCAccepting
    MaxCalls <- MCMaxCalls
    Offered <- MCOffered
    Rest <- After
    Finished <- Ended
    Joint <- MCJoint
INVARIANT NothingLegalDenied
CHECK_DEADLOCK FALSE
