\* Deadlock: a behaviour ends when its input is chosen.
SPECIFICATION ToolsSpec
CONSTANTS
    Rows = 2
    Steps = 3
    Budget = 10
    Context = 7
    Codes = 5
    Time = 3
    ChecksumSize = 7
    Speeds = {2, 5}
    CpuSpeeds = {2, 3}
    PromptTokens = {2, 5, 2000}
    AnswerTokens = {0, 4}
    FreeMemory = {10, 30, 90}
    SaveTimes = {0, 4}
    ColdTimes = {2, 5, 900}
CHECK_DEADLOCK FALSE
INVARIANTS
    DecisionsAgree
    CapturesKeepTheirLabels
    PagesFitTheBudget
    KvTiersAddUp
    ProjectionsAgree
    PlannerAgrees
