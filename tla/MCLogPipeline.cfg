SPECIFICATION FairSpec
CONSTANTS
    PendingSize = 2
    BlockSize = 2
    MaxBatch = 4
    MaxLogs = 5
INVARIANTS
    NoLineUncounted
    HistoryMeetsRealtime
PROPERTIES
    LinesReachTable
    HistoryEnds
CHECK_DEADLOCK FALSE
