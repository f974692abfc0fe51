SPECIFICATION Spec
CONSTANTS
    Nodes = {n1, n2}
    Tasks = {t1, t2}
    NoTask = NoTask
    MaxEvents = 3
INVARIANTS
    WaitTablesAgree
    LabelsSendable
    AwaitedNotBooted
    StatusIsLastReport
PROPERTIES
    ReportsProcessed
    WaitersAnswered
CHECK_DEADLOCK FALSE
