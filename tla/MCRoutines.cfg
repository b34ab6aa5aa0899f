SPECIFICATION RoutineFairSpec
CONSTANTS
    j1 = j1
    j2 = j2
    p1 = p1
    Job = {j1, j2}
    Project = {p1}
    ProjectOf <- MCProjectOf
    Routine = {j1}
    MaxReports = 1
INVARIANTS
    RowTrailsMemory
    
    
PROPERTIES
    RunMovesForward
    JobsSpec
    LockSpec
    LaunchLeavesNoOrphan
