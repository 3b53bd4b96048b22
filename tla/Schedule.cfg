\* One schedule: a tick races with every call and a failed write, then the daemon restarts.
SPECIFICATION Spec
CONSTANTS
    None = None
    Missing = Missing
    Empty = Empty
    Corrupt = Corrupt
    j1 = j1
    j2 = j2
    j3 = j3
    NumSchedules = 1
    Job = {j1, j2}
    Ops <- OpsRace
    Expiry <- NoLimit
    RunLimit <- Limits
    Period = 1
    MaxTime = 1
    MaxRunIds = 2
    MaxFailures = 1
    MaxCrashes = 1
INVARIANTS
    TypeOK
    OneRunPerSchedule
    ActiveHasNextRun
PROPERTIES
    NothingDueAfterRecovery
CHECK_DEADLOCK FALSE
