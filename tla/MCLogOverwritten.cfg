SPECIFICATION Spec
CONSTANTS
    PendingSize = 2
    BlockSize = 2
    MaxBatch = 2
    MaxLogs = 6
INVARIANTS
    LinesStoredOnce
CHECK_DEADLOCK FALSE
