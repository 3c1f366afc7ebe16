\* Each of these is refuted; leave the one whose trace is wanted.
SPECIFICATION RecoverySpec
CONSTANTS
    N = 1
    Deps <- SoloDeps
    Fan <- Single
    Quota <- JoinAll
    ReplyJoin = {}
    RetryMax <- NoRetry
    Timeout = {}
    Kickoff = {}
    Condition = {}
    Agent <- SoloAgent
    Run = {1}
    Cap = 2
    MaxForeign = 0
    SpawnFails = {}
    KickoffFails = {}
    SemanticDone = FALSE
    Operator = {}
    Cancels = TRUE
    Handoff <- NoHandoff
    Discards = TRUE
    MaxCrash = 0
INVARIANTS
    CancelStays
PROPERTIES
    DiscardsTheDead
CHECK_DEADLOCK FALSE
