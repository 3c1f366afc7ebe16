\* Each of these is refuted; leave the one whose trace is wanted.
SPECIFICATION Spec
CONSTANTS
    Pane = {1}
    MaxGen = 4
    MaxAutorestarts = 1
    ReconnectCap = 0
    Remotes = {1}
    Policy <- FirstOnFailure
INVARIANTS
    ToldTruth
    NoGhost
    NothingDropped
CHECK_DEADLOCK FALSE
