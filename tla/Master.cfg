SPECIFICATION FairSpec
CONSTANTS
    Agents = {"a", "b"}
    None = "none"
    Processes = {"a1", "a2", "b1", "b2"}
    IdOf <- MCIdOf
    Setups <- MCSetups
    Buffer = 1
    Interval = 3
    MaxTotal = 3
    KeepRecent = 1
    Threshold = 3
    MaxFaults = 1
    MaxRuns = 2
    MaxJobs = 1
    MaxRestarts = 1
INVARIANTS
    SubAgentsSound
    MemorySound
PROPERTIES
    SummariesCover
    RunEnds
CHECK_DEADLOCK FALSE
