\* Two replacements of one running turn, and no provider event.
SPECIFICATION Spec
CONSTANTS
    c1 = c1
    c2 = c2
    c3 = c3
    c4 = c4
    None = None
    Turn = {c1, c2, c3}
    Ops <- OpsReplace
    FinalizedCap = 1
    MaxGen = 1
    MaxTail = 2
    MaxEvents = 0
PROPERTIES NoIdleDuringReplacement
CHECK_DEADLOCK FALSE
