SPECIFICATION Spec
CONSTANTS
    Chunk = {1, 2, 3, 4}
    Corpora <- MCCorpora
    TopSeeds = 2
    MaxHops = 2
    MaxNodes = 3
    MaxFanout = 1
    HubThreshold = 2
    MaxChars = 9
INVARIANTS
    ParentsAreReturned
    DropsArePaidFor
    ContextIsFull
CHECK_DEADLOCK FALSE
