SPECIFICATION FairSpec
CONSTANTS
    Agent = {a}
    MaxPanes = 2
    GlobalMaxPanes = 2
    GridMaxPanes = 3
    Ordinary = 2
    Window = 1
    MaxId = 2
    MaxClock = 3
    MaxText = 1
    MaxLeadExits = 1
PROPERTIES
    NotGivenUpForNothing
    StoppedIsQuiet
    ExitTold
CHECK_DEADLOCK FALSE
