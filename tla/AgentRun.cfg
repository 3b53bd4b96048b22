\* Every operation against every other, on three generations of the agent.
SPECIFICATION Spec
CONSTANTS
    c1 = c1
    c2 = c2
    c3 = c3
    c4 = c4
    None = None
    Turn = {c1, c2, c3, c4}
    Ops <- OpsAll
    FinalizedCap = 1
    MaxGen = 3
    MaxTail = 1
    MaxEvents = 2
INVARIANTS
    TypeOK
    OneRunPerAgent
    PendingRunOwned
    StreamReachable
    ActiveNotFinalized
PROPERTIES
    TurnEndsOnlyFinalized
CHECK_DEADLOCK FALSE
