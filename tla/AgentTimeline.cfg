\* An app that connects, loses rows and the connection, and a daemon that restarts and reloads.
SPECIFICATION FairSpec
CONSTANTS
    None = None
    Limit = 1
    Scenarios <- PairsAndFaults
    Patterns <- TextAndOthers
    MaxRows = 3
    MaxEpochs = 3
    MaxWire = 2
    MaxRequests = 1
INVARIANTS
    TypeOK
    DisplayedIsCursor
PROPERTIES
    ImplementsView
    CatchesUp
CHECK_DEADLOCK FALSE
