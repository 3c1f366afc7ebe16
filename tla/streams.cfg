SPECIFICATION FairSpec
CONSTANTS
    Target = {1}
    MaxUnits = 2
    Window = 2
    Cells = 2
    Attempts <- TwiceFirst
    Limited = {0}
    FailFast = TRUE
    MaxMail = 3
    MaxNoise = 1
INVARIANTS
    NothingSwallowed
    NeverDeaf
PROPERTIES
    RunEnds
CHECK_DEADLOCK FALSE
