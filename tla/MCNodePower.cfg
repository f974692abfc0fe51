SPECIFICATION FairSpec
CONSTANTS
    n1 = n1
    p1 = p1
    p2 = p2
    r1 = r1
    Nodes = {n1}
    Ports = {p1, p2}
    Unknown = Unknown
    Retries <- MCRetries
    Requests = {r1}
    InitialPlug <- MCInitialPlug
    MaxFaults = 1
INVARIANTS
    StatusFollowsConnections
    PortsOffKnown
    MonitorPlanned
    OwnedNotTimed
PROPERTIES
    RetriesSpent
    FreeTurnedOff
CHECK_DEADLOCK FALSE
