SPECIFICATION FairSpec
CONSTANTS
    Tasks = {t1, t2}
    Workers = {w1, w2}
    Streams = {s1}
    MaxRecords = 1
    MaxQueue = 1
    None = None
INVARIANTS
    PipelineExact
    ClientsInformed
    DrainLosesNothing
PROPERTIES
    LifecycleSpec
    Progress
CHECK_DEADLOCK FALSE
