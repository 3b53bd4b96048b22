\* Two client calls at a time on one agent, its lifecycle changes, a failed write and a restart.
SPECIFICATION FairSpec
CONSTANTS
    None = None
    NoFile = NoFile
    Task = Task
    Hook = Hook
    r1 = r1
    r2 = r2
    Request = {r1, r2}
    Ops <- AllOps
    NumPaths = 3
    Home = 2
    InitialFiles <- NewOrMoved
    MaxAgents = 2
    MaxEvents = 1
    MaxCalls = 2
    MaxWriteFailures = 1
    MaxUnlinkFailures = 1
    MaxCrashes = 1
INVARIANTS
    TypeOK
    RemovedStaysRemoved
    RestartLoadsAcked
PROPERTIES
    LastStateStored
CHECK_DEADLOCK FALSE
