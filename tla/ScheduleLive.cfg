\* Two schedules and nothing but overlapping ticks, whose runs may never end.
SPECIFICATION FairSpec
CONSTANTS
    None = None
    Missing = Missing
    Empty = Empty
    Corrupt = Corrupt
    j1 = j1
    j2 = j2
    j3 = j3
    NumSchedules = 2
    Job = {j1, j2, j3}
    Ops <- OpsTicks
    Expiry <- NoLimit
    RunLimit <- NoLimit
    Period = 1
    MaxTime = 1
    MaxRunIds = 2
    MaxFailures = 0
    MaxCrashes = 0
PROPERTIES
    DueScheduleRuns
CHECK_DEADLOCK FALSE
