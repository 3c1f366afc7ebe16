\* Each of these is refuted; leave the one whose trace is wanted.
SPECIFICATION Spec
CONSTANTS
    Target = {1}
    MaxUnits = 2
    Window = 3
    Cells = 2
    Attempts <- Once
    Limited = {0}
    FailFast = TRUE
    MaxMail = 3
    MaxNoise = 1
INVARIANTS
    PastLimitFails
    EveryReplyCut
PROPERTIES
    GivenUpToOthers
CHECK_DEADLOCK FALSE
