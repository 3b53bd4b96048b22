\* One archive call on a live agent and one change of its lifecycle.
SPECIFICATION Spec
CONSTANTS
    None = None
    NoFile = NoFile
    Task = Task
    Hook = Hook
    r1 = r1
    r2 = r2
    Request = {r1, r2}
    Ops <- OpsArchive
    NumPaths = 3
    Home = 2
    InitialFiles <- NewOrMoved
    MaxAgents = 2
    MaxEvents = 1
    MaxCalls = 2
    MaxWriteFailures = 0
    MaxUnlinkFailures = 0
    MaxCrashes = 0
PROPERTIES ArchivePreserved
CHECK_DEADLOCK FALSE
