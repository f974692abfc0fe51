SPECIFICATION Spec
CONSTANTS
    w = w
    v = v
    d = d
    n1 = n1
    i1 = i1
    i2 = i2
    Mine = {w, v}
    Others = {d}
    Default = d
    Nodes = {n1}
    Ids = {i1, i2}
    None = None
    Temp = Temp
    MaxJobs = 2
    MaxRequests = 3
SYMMETRY Symmetry
INVARIANTS
    NodeImageKept
    CatalogueTrue
    OneTask
PROPERTIES
    CloneAtomic
CHECK_DEADLOCK FALSE
