\* One agent that stays registered: a run, replacements of it and cancels of it.
SPECIFICATION FairSpec
CONSTANTS
    c1 = c1
    c2 = c2
    c3 = c3
    c4 = c4
    None = None
    Turn = {c1, c2, c3}
    Ops <- OpsRuns
    FinalizedCap = 1
    MaxGen = 1
    MaxTail = 1
    MaxEvents = 2
PROPERTIES
    CancelTerminates
    CancelEndsStream
CHECK_DEADLOCK FALSE
