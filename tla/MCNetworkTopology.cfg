SPECIFICATION Spec
CONSTANTS
    Switches = {2, 3, 4}
    EndNodes = {1}
    Ports = {1, 2}
    Speakers = {2, 3}
    Bridges = {3, 4}
    InitialCabling <- MCCabling
    MaxScans = 2
    MaxChanges = 2
INVARIANTS
    Forest
    FailsOnReports
    LldpBelieved
\* the numbers of scans and changes are bounded
CHECK_DEADLOCK FALSE
