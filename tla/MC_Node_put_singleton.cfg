\* An importer announced by put and one spawned by label both register.
CONSTANTS
    Actors = {a1, a2}
    FS = fs
    NoLabel = nolabel
    StatusIds = {}
    HavePcap = FALSE
    IssueSend = FALSE
    Commands <- MCImporterCommands
    PutTypes <- MCPutTypes
    ExplicitLabels <- MCNoExplicitLabels
SPECIFICATION Spec
CHECK_DEADLOCK FALSE
INVARIANT
    SingletonUnique
