SPECIFICATION RestarterFairSpec
CONSTANTS
    Callers = {wf1, wf2}
    MaxVersion = 3
    MaxFailures = 1
INVARIANTS
    OneRestartLoop
    NoLostCallback
PROPERTIES
    CallersResumed
    LastVersionServed
CHECK_DEADLOCK FALSE
