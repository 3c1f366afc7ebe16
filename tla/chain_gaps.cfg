\* Each of these is refuted; leave the one whose trace is wanted.
SPECIFICATION Spec
CONSTANTS
    N = 2
    Deps <- ChainDeps
    Fan <- Single
    Quota <- JoinAll
    ReplyJoin = {1}
    RetryMax <- NoRetry
    Timeout = {}
    Kickoff = {1}
    Condition = {}
    Agent <- ChainAgent
    Run = {1, 2}
    Cap = 3
    MaxForeign = 0
    SpawnFails = {}
    KickoffFails = {}
    SemanticDone = TRUE
    Operator = {}
    Cancels = FALSE
INVARIANTS
    RunsApart
PROPERTIES
    NoInheritedDone
CHECK_DEADLOCK FALSE
