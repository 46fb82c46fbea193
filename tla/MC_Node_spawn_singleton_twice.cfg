\* A second label-less importer spawn is constructed and handed out unregistered.
CONSTANTS
    Actors = {a1, a2}
    FS = fs
    NoLabel = nolabel
    StatusIds = {}
    HavePcap = FALSE
    IssueSend = FALSE
    Commands <- MCImporterCommands
    PutTypes <- MCNoPut
    ExplicitLabels <- MCNoExplicitLabels
SPECIFICATION Spec
CHECK_DEADLOCK FALSE
INVARIANT
    SpawnedRegistered
