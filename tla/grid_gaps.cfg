\* Each of these is refuted; leave the one whose trace is wanted.
SPECIFICATION MCSpec
CONSTANTS
    Cell = {1, 2, 3}
    Members = 3
    Standby = {2}
    Cap = 1
    Call = {"window", "tool"}
    Tile = {1, 2}
    MaxPanes = 1
    Ephemeral = {2}
    CloseMode <- FirstOnSuccess
    Saved = 1
    MaxAsked = 1
    MaxTurns = 2
    MaxUnseen = 2
    MaxSaves = 1
INVARIANTS
    NoDuplicates
    MaxHolds
    GoneIsShown
    ShownInTheEnd
    LayoutDurable
PROPERTIES
    ClosedStaysClosed
    FailedStays
CHECK_DEADLOCK FALSE
