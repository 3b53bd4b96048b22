\* A schedule is deleted while a tick is busy with the one before it.
SPECIFICATION Spec
CONSTANTS
    None = None
    Missing = Missing
    Empty = Empty
    Corrupt = Corrupt
    j1 = j1
    j2 = j2
    j3 = j3
    NumSchedules = 2
    Job = {j1, j2}
    Ops <- OpsDelete
    Expiry <- NoLimit
    RunLimit <- NoLimit
    Period = 1
    MaxTime = 0
    MaxRunIds = 2
    MaxFailures = 0
    MaxCrashes = 0
PROPERTIES
    DeletedForGood
CHECK_DEADLOCK FALSE
