SPECIFICATION FairSpec
CONSTANTS
    j1 = j1
    j2 = j2
    a = a
    None = None
    Names = {a}
    Jobs = {j1, j2}
    NameOf <- MCNameOf
    Periodic = {j1, j2}
    Delayed = {j1}
    MaxRuns <- MCMaxRuns
    MaxStarts = 2
    Manual = {a}
INVARIANTS
    SchedulerSound
PROPERTIES
    StopEnds
    WithdrawnStaysOut
CHECK_DEADLOCK FALSE
