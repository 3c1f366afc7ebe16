SPECIFICATION FairSpec
CONSTANTS
    Pane = {1}
    MaxGen = 4
    MaxAutorestarts = 1
    ReconnectCap = 1
    Remotes = {1}
    Policy <- FirstOnFailure
INVARIANTS
    NoOrphan
    NotStranded
    RespawnsBounded
PROPERTIES
    Settles
    KeepsTheTable
CHECK_DEADLOCK FALSE
