SPECIFICATION Spec
CONSTANTS
    p1 = p1
    p2 = p2
    Project = {p1, p2}
    MaxRuns = 3
INVARIANTS
    
    ReadIsRecent
    
PROPERTIES
    CanonicalOnlyAdvances
