SPECIFICATION Spec
CONSTANTS
    j1 = j1
    j2 = j2
    j3 = j3
    m1 = m1
    m2 = m2
    h1 = h1
    h2 = h2
    Job = {j1, j2, j3}
    Hash = {h1, h2}
    Model = {m1, m2}
    ModelOf <- MCModelOf
    OldModel = m1
    Unknown = unknown
    Old = old

    
PROPERTIES
    EntriesSurvive
CHECK_DEADLOCK FALSE
