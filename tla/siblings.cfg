SPECIFICATION Spec
CONSTANTS
    N = 2
    Deps <- SiblingDeps
    Fan <- Single
    Quota <- JoinAll
    ReplyJoin = {}
    RetryMax <- SiblingRetry
    Timeout = {1}
    Kickoff = {}
    Condition = {}
    Agent <- SiblingAgent
    Run = {1}
    Cap = 1
    MaxForeign = 0
    SpawnFails = {}
    KickoffFails = {}
    SemanticDone = TRUE
    Operator = {"close", "restart"}
    Cancels = TRUE
INVARIANTS
    OneOwner
CHECK_DEADLOCK FALSE
