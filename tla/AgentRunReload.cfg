\* A reload while a run is starting, and no provider event.
SPECIFICATION Spec
CONSTANTS
    c1 = c1
    c2 = c2
    c3 = c3
    c4 = c4
    None = None
    Turn = {c1, c2}
    Ops <- OpsReload
    FinalizedCap = 1
    MaxGen = 2
    MaxTail = 2
    MaxEvents = 0
INVARIANTS SettledWaiterWakesStream
CHECK_DEADLOCK FALSE
