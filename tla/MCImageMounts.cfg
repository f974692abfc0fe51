SPECIFICATION FairSpec
CONSTANTS
    Nodes = {n1, n2}
    Images = {a, b}
    NoImage = NoImage
    Missing = Missing
    MaxChanges = 3
    MaxFailures = 1
    MaxStarts = 2
INVARIANTS
    AssociatedImageServed
    UnexportedBeforeUmount
PROPERTIES
    GraceRespected
    UpdatesComplete
    UnusedLeavesMounts
    ImplementsService
CHECK_DEADLOCK FALSE
