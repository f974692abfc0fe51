SPECIFICATION FairSpec
CONSTANTS
    Nodes = {n1}
    Images = {a, b}
    NoImage = NoImage
    Missing = Missing
    MaxChanges = 1
    MaxFailures = 1
    MaxStarts = 1
PROPERTIES
    UpdateWorkflowEnds
CHECK_DEADLOCK FALSE
