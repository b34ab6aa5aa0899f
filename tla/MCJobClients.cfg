SPECIFICATION ClientSpec
CONSTANTS
    j1 = j1
    p1 = p1
    Job = {j1}
    Project = {p1}
    ProjectOf <- MCProjectOfOne
    MaxReports = 0
    Reader = {"cli", "web"}
    Worlds <- MCWorlds
    MaxFaults = 1
INVARIANTS
    
    OutcomeIsTold
PROPERTIES
    ProgressOnlyGrows
    
    ScreenSettles
CHECK_DEADLOCK FALSE
