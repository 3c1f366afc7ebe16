SPECIFICATION Spec
CONSTANTS
    N = 3
    Deps <- RaceDeps
    Fan <- RaceFan
    Quota <- RaceQuota
    ReplyJoin = {1}
    RetryMax <- RaceRetry
    Timeout = {}
    Kickoff = {1}
    Condition = {}
    Agent <- RaceAgent
    Run = {1}
    Cap = 3
    MaxForeign = 0
    SpawnFails = {2}
    KickoffFails = {}
    SemanticDone = FALSE
    Operator = {}
    Cancels = FALSE
INVARIANTS
    NoEarlyStart
    RetryBudget
PROPERTIES
    RowsAdvance
CHECK_DEADLOCK FALSE
