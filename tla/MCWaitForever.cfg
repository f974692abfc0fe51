SPECIFICATION Spec
CONSTANTS
    Nodes = {n1, n2}
    Tasks = {t1}
    NoTask = NoTask
    MaxEvents = 2
PROPERTIES
    BootedNodesUnblock
CHECK_DEADLOCK FALSE
