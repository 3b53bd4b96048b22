\* Clients through the relay, one fault of any kind.
SPECIFICATION FairSpec
CONSTANTS
    Conn = {c1}
    MaxPending = 2
    MaxHandshake = 2
    MaxMessages = 2
    MaxLeaves = 1
    MaxFaults = 1
INVARIANTS
    TypeOK
    InOrder
PROPERTIES
    ClientServed
    DataReleased
CHECK_DEADLOCK FALSE
