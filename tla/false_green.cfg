SPECIFICATION RecoverySpec
CONSTANTS
    N = 2
    Deps <- FanDeps
    Fan <- FanFan
    Quota <- JoinAll
    ReplyJoin = {}
    RetryMax <- NoRetry
    Timeout = {}
    Kickoff = {}
    Condition = {}
    Agent <- FanAgent
    Run = {1}
    Cap = 2
    MaxForeign = 0
    SpawnFails = {}
    KickoffFails = {}
    SemanticDone = FALSE
    Operator = {}
    Cancels = FALSE
    Handoff <- NoHandoff
    Discards = FALSE
    MaxCrash = 1
INVARIANTS
    VerdictExact
CHECK_DEADLOCK FALSE
