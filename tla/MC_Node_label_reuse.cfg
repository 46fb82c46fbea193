\* After source-1 dies the next generated label is source-2 again.
CONSTANTS
    Actors = {a1, a2, a3}
    FS = fs
    NoLabel = nolabel
    StatusIds = {}
    HavePcap = FALSE
    IssueSend = FALSE
    Commands <- MCSourceCommands
    PutTypes <- MCNoPut
    ExplicitLabels <- MCNoExplicitLabels
SPECIFICATION Spec
CHECK_DEADLOCK FALSE
INVARIANT
    SpawnedRegistered
