\* Two loops in one file, a stop call, a log entry, failures of agents and writes, and a restart.
SPECIFICATION FairSpec
CONSTANTS
    l1 = l1
    l2 = l2
    Loop = {l1, l2}
    Stopper = {s1}
    NoLoop = NoLoop
    Torn = Torn
    Log = Log
    Boot = Boot
    Settings <- AgentAndCommand
    Attempts = 2
    MaxStops = 1
    MaxLogs = 1
    MaxFaults = 1
INVARIANTS
    TypeOK
    AgentsClosed
    OneAgentAfterStop
    StoppedSaved
PROPERTIES
    StopEnds
CHECK_DEADLOCK FALSE
