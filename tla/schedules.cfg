SPECIFICATION MCSpec
CONSTANTS
    Name = {1}
    Every <- DayAndHour
    At <- Two
    Panes <- OnePane
    MaxFailures = 2
    Grace <- NoGrace
    DayHours = 3
    Week = 3
    Zone <- Zones
    Horizon = 13
    MaxFree = 1
    MaxEdits = 1
    Jumps = {"sleep", "back", "travel", "remove"}
    Session = {1}
    MaxReloads = 1
INVARIANTS
    OnceADay
    UnseenIsMarked
PROPERTIES
    NeverSilent
    StreakStands
    DoneDecays
CHECK_DEADLOCK FALSE
