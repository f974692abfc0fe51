SPECIFICATION FairSpec
CONSTANTS
    s1 = s1
    s2 = s2
    Sessions = {s1, s2}
    NoTask = NoTask
    Commands <- MCCommands
    MaxRequests = 1
    MaxPrints = 1
    MaxEvents = 2
INVARIANTS
    CallInOnePlace
    ClientsExpectCalls
    SessionsFollowClients
PROPERTIES
    CallsReturn
    RequestsAnswered
CHECK_DEADLOCK FALSE
