SPECIFICATION JobsSpec
CONSTANTS
    j1 = j1
    j2 = j2
    c1 = c1
    c2 = c2
    Job <- TwoJobs
    OneShot <- TheSecond
    Caller <- OneCaller
    MaxConcurrent = 2
    JobLimit <- Limits
    MaxRetries = 2
    MaxTime = 2
    MaxOperations = 1
    MaxFaults = 0
PROPERTY PausedIsQuiet
CHECK_DEADLOCK FALSE
