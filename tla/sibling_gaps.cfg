\* Each of these is refuted; leave the one whose trace is wanted.
SPECIFICATION Spec
CONSTANTS
    N = 2
    Deps <- SiblingDeps
    Fan <- Single
    Quota <- JoinAll
    ReplyJoin = {1}
    RetryMax <- SiblingRetry
    Timeout = {1}
    Kickoff = {1}
    Condition = {}
    Agent <- SiblingAgent
    Run = {1}
    Cap = 2
    MaxForeign = 1
    SpawnFails = {1, 2}
    KickoffFails = {1}
    SemanticDone = FALSE
    Operator = {}
    Cancels = FALSE
INVARIANTS
    OneOwner
    RetriesSpent
PROPERTIES
    AdoptsLivePane
CHECK_DEADLOCK FALSE
