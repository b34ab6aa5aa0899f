SPECIFICATION Spec
CONSTANTS
    j1 = j1
    j2 = j2
    j3 = j3
    p1 = p1
    p2 = p2
    e1 = e1
    e2 = e2
    Job = {j1, j2, j3}
    Project = {p1, p2}
    ProjectOf <- MCProjectOf
    Entity = {e1, e2}
    Documented = {e1}
    Resembles <- MCResembles
    EntitiesOf <- MCEntitiesOf
    Edited <- MCEdited
SYMMETRY MCSymmetry
INVARIANTS
    IngestReplaces
    DescriptionFitsText
PROPERTIES
    NoWipeWindow
CHECK_DEADLOCK FALSE
