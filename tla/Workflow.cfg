SPECIFICATION FairSpec
CONSTANTS
    s1 = s1
    s2 = s2
    s3 = s3
    Steps = {s1, s2, s3}
    RetryCount = 1
    MaxTimes = 2
    MaxRepeats = 1
    MaxRetries = 1
    Tasks = {"sort", "sum", "report"}
    Alike <- MCAlike
    FetchK = 1
    NoTask = "none"
    Plans <- MCPlans
    Setups <- MCSetups
    MaxActs = 2
INVARIANTS
    ExecutionSound
    PlansSound
PROPERTIES
    ImplementsResult
    Ends
CHECK_DEADLOCK FALSE
