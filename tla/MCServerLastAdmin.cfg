SPECIFICATION Spec
CONSTANTS
    Slots = {r1, r2}
    MaxRequests = 3
    MaxFaults = 1
    MaxUsers = 3
    Names = {"root", "admin", "ann"}
    Passwords = {"p", "q"}
    Credentials <- MCCredentials
    NewUsers <- MCNewUsers
    Tokens = {t1, t2}
    NoValue = NoValue
    RootName = "root"
    RootPassword = NoValue
    DefaultName = "admin"
    DefaultPassword = "p"
    ProviderIds = {"openai", "corp", "lan"}
    BuiltinIds = {"openai"}
    Files <- MCFiles
    EnvVars = {"KEY"}
    EnvModel = "m"
    NoModel = NoModel
    ConfigRequests <- MCConfigRequests
    QuestionSizes = {2}
    AnswerSizes = {4}
    PromptSize = 3
    Windows = {16}
    CharsPerToken = 2
    HistoryCap = 4
    MinContext = 8
    MaxContext = 30
    StartUsers <- MCStartUsers
    LoggedIn = {1, 2}
    StartHistory <- MCStartHistory
    StartFile <- MCStartFile
INVARIANTS AnAdminRemains
SYMMETRY Symmetric
CHECK_DEADLOCK FALSE
