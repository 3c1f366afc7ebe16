\* Each of these is refuted; leave the one whose trace is wanted.
SPECIFICATION FairSpec
CONSTANTS
    Agent = {a, b}
    MaxPanes = 2
    GlobalMaxPanes = 2
    GridMaxPanes = 3
    Ordinary = 2
    Window = 1
    MaxId = 2
    MaxClock = 2
    MaxText = 1
    MaxLeadExits = 1
INVARIANTS
    ActiveUntilStop
    PaneForEach
PROPERTIES
    TranscriptsInGrid
    EveryExitTold
    RestartedExitTold
CHECK_DEADLOCK FALSE
