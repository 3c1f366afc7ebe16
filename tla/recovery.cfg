SPECIFICATION RecoverySpec
CONSTANTS
    N = 3
    Deps <- GateDeps
    Fan <- Single
    Quota <- JoinAll
    ReplyJoin = {}
    RetryMax <- NoRetry
    Timeout = {}
    Kickoff = {1, 3}
    Condition = {2}
    Agent <- GateAgent
    Run = {1}
    Cap = 2
    MaxForeign = 0
    SpawnFails = {}
    KickoffFails = {}
    SemanticDone = FALSE
    Operator = {}
    Cancels = TRUE
    Handoff <- GateHandoff
    Discards = TRUE
    MaxCrash = 1
INVARIANTS
    SkipJustified
    VerdictExact
    Recoverable
PROPERTIES
    CarryKept
CHECK_DEADLOCK FALSE
