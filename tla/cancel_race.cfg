SPECIFICATION Spec
CONSTANTS
    N = 2
    Deps <- ChainDeps
    Fan <- Single
    Quota <- JoinAll
    ReplyJoin = {}
    RetryMax <- NoRetry
    Timeout = {}
    Kickoff = {}
    Condition = {}
    Agent <- ChainAgent
    Run = {1}
    Cap = 3
    MaxForeign = 0
    SpawnFails = {}
    KickoffFails = {}
    SemanticDone = FALSE
    Operator = {}
    Cancels = TRUE
PROPERTIES
    TerminalOnce
CHECK_DEADLOCK FALSE
