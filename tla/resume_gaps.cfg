\* Each of these is refuted; leave the one whose trace is wanted.
SPECIFICATION RecoverySpec
CONSTANTS
    N = 2
    Deps <- RelayDeps
    Fan <- Single
    Quota <- JoinAll
    ReplyJoin = {}
    RetryMax <- RelayRetry
    Timeout = {}
    Kickoff = {1, 2}
    Condition = {}
    Agent <- RelayAgent
    Run = {1}
    Cap = 2
    MaxForeign = 1
    SpawnFails = {}
    KickoffFails = {}
    SemanticDone = FALSE
    Operator = {}
    Cancels = FALSE
    Handoff <- RelayHandoff
    Discards = FALSE
    MaxCrash = 1
PROPERTIES
    CarryKept
    RestartsOwnPane
CHECK_DEADLOCK FALSE
