SPECIFICATION ReasoningSpec
CONSTANTS
    Strategy = "ObservationMasking"
    recent_count = 0
    max_iterations = 3
    max_total_tokens = 7
    context_token_budget = 8
    MaxCalls = 2
    CallKinds = {"tool", "malformed", "delegate"}
    Decisions = {"allow", "deny", "modify"}
    Usages = {2, 5}
    ResultSizes = {1, 6}
    AppendMayFail = FALSE
    Client = {c1, c2}
    Retention = retention
    MaxItems = 2
    MaxSessions = 2
    MaxOps = 3
    MaxAccidents = 1
    MaxSteps = 3
    MaxErrors = 2
    MaxCrashes = 2
    MaxRecoveries = 3
    Writer = {w1, w2}
    MaxEntries = 4
    MaxCompacts = 1
    MaxStarts = 2
INVARIANTS EveryCallAnswered WindowFits ResultIsEarned JournalIsFaithful
INVARIANTS AcknowledgedIsKept SagaIsSound NumbersAreDistinct
PROPERTIES SettledIsFinal
PROPERTIES GovernedExecution Terminates
CHECK_DEADLOCK FALSE
