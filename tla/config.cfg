SPECIFICATION Spec
CONSTANTS
    AgentDefs = {"worker", "lead"}
    DefaultPort = 1
    PortTries = 2
    Taken = {1}
    MaxEpoch = 2
    Place <- TwoPlaces
    Legacy = "legacy"
    InitPlace = {"project"}
    Text <- Texts
    Generated <- BuiltIn
    Corpus <- AllCorpus
    DefaultText <- BuiltIn
    MaxEdits = 3
    MaxLoads = 1
INVARIANTS
    ChangeIsOnItsWay
    LoadedIsRunnable
    NoStrayServer
    ServedUnlessOvertaken
CHECK_DEADLOCK FALSE
