SPECIFICATION Spec
CONSTANTS
    Node = {1, 2, 3, 4}
    Graphs <- MCGraphs
    Center = 1
    MaxDepth = 3
INVARIANTS
    HopsAreDistances
    FarthestDropFirst
    PathIsShortest
CHECK_DEADLOCK FALSE
