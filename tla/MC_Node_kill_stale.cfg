\* A killed component stays registered after it exits.
CONSTANTS
    Actors = {a1}
    FS = fs
    NoLabel = nolabel
    StatusIds = {}
    HavePcap = FALSE
    IssueSend = FALSE
    Commands <- MCSourceCommands
    PutTypes <- MCNoPut
    ExplicitLabels <- MCNoExplicitLabels
SPECIFICATION Spec
CHECK_DEADLOCK FALSE
INVARIANT
    RegistryEntriesLive
