\* Each of these is refuted; leave the one whose trace is wanted.
SPECIFICATION Spec
CONSTANTS
    N = 2
    Deps <- FanDeps
    Fan <- FanFan
    Quota <- FanFan
    ReplyJoin = {}
    RetryMax <- FanRetry
    Timeout = {}
    Kickoff = {}
    Condition = {}
    Agent <- FanAgent
    Run = {1}
    Cap = 2
    MaxForeign = 1
    SpawnFails = {}
    KickoffFails = {}
    SemanticDone = FALSE
    Operator = {"close", "restart"}
    Cancels = FALSE
INVARIANTS
    FanAllOrNothing
    VerdictExact
CHECK_DEADLOCK FALSE
