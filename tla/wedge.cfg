SPECIFICATION FairSpec
CONSTANTS
    N = 2
    Deps <- CrowdDeps
    Fan <- CrowdFan
    Quota <- CrowdQuota
    ReplyJoin = {2}
    RetryMax <- CrowdRetry
    Timeout = {1, 2}
    Kickoff = {2}
    Condition = {}
    Agent <- CrowdAgent
    Run = {1}
    Cap = 2
    MaxForeign = 1
    SpawnFails = {}
    KickoffFails = {2}
    SemanticDone = FALSE
    Operator = {}
    Cancels = FALSE
INVARIANTS
    ToldOnce
PROPERTIES
    Termination
CHECK_DEADLOCK FALSE
