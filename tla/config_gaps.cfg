\* Each of these is refuted; leave the one whose trace is wanted.
SPECIFICATION Spec
CONSTANTS
    AgentDefs = {"worker", "lead"}
    DefaultPort = 1
    PortTries = 2
    Taken = {1}
    MaxEpoch = 3
    Place <- TwoPlaces
    Legacy = "legacy"
    InitPlace = {"project"}
    Text <- Texts
    Generated <- BuiltIn
    Corpus <- AllCorpus
    DefaultText <- BuiltIn
    MaxEdits = 3
    MaxLoads = 2
INVARIANTS
    EnabledIsServed
    ConditionsUnambiguous
    NoEditLost
PROPERTIES
    NothingMasked
    InitOverwritesNothing
    ToastOutlivesLoad
CHECK_DEADLOCK FALSE
