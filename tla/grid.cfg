SPECIFICATION MCSpec
CONSTANTS
    Cell = {1, 2, 3}
    Members = 3
    Standby = {2}
    Cap = 1
    Call = {"window", "tool"}
    Tile = {1, 2}
    MaxPanes = 1
    Ephemeral = {2}
    CloseMode <- FirstOnSuccess
    Saved = 1
    MaxAsked = 1
    MaxTurns = 2
    MaxUnseen = 2
    MaxSaves = 1
INVARIANTS
    OvershootBounded
    ShownTruth
    NoListenerLeak
    SavedIsCurrent
CHECK_DEADLOCK FALSE
