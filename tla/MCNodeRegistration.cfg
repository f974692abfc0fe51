SPECIFICATION FairSpec
CONSTANTS
    m1 = m1
    m2 = m2
    Macs = {m1, m2}
    MaxForgets = 2
INVARIANTS
    NodesServed
PROPERTIES
    RegistrationsEnd
