SPECIFICATION Spec
CONSTANTS
    PlaybookNames = {"p", "q"}
    SkillNames = {"s", "t"}
    BodySizes = {2}
    MaxContent = 5
    InjectionMax = 4
    MaxPlaybooks = 2
    Tools = {"get_file", "load_skill"}
    Args = {"x"}
    MaxCalls = 1
    MaxRounds = 3
    PushbackRounds = 2
    PayloadBudget = 3
    BudgetTruncate = 1
    ResultSizes = {1}
    MaxLoadedSkills = 1
    Answers <- MCAnswers
    Spans <- MCSpans
    DiskFiles = {"disk"}
    InScope = {"known", "disk"}
    GitContext = 2
    Tolerance = 1
    PadLines = 1
    ExcerptBudget = 4
    MaxFiles = 3
    MaxSelectedSkills = 2
    SkillInjectionMax = 4
    Picks <- MCPicks
    Findings <- MCFindings
    Launches <- MCHunts
INVARIANT SkillCapHolds
CHECK_DEADLOCK FALSE
