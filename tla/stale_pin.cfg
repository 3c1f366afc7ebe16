SPECIFICATION Spec
CONSTANTS
    Agent = {a1, a2}
    Key = {k1}
    MaxPins = 1
    MaxNotes = 1
    MaxWrites = 2
PROPERTIES
    StaleDeleteFails
CHECK_DEADLOCK FALSE
