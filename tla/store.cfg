SPECIFICATION MCSpec
CONSTANTS
    w1 = w1
    w2 = w2
    a = a
    b = b
    Agent = {a1, a2}
    Key = {k1}
    MaxPins = 1
    MaxNotes = 2
    MaxWrites = 3
    Run = {1, 2, 3, 4}
    ProjectOf <- TwoProjects
    ShownCap = 1
    KeptCap = 2
    MaxLive = 1
    MaxClock = 2
    MaxCrash = 1
    Waiter = {w1, w2}
    Address = {a, b}
    Box <- BoxOf
    Channel = {c1, c2}
    NoChannel = NoChannel
    NoOne = NoOne
    PageSize = 1
    MaxMessages = 2
INVARIANTS
    NoteRevisionNamesContent
    PinRevisionNamesContent
    ShownIsStored
    NoLostWakeup
    NoLeak
PROPERTIES
    Woken
CHECK_DEADLOCK FALSE
