\* A send to a live component that never answers keeps a crash unreaped.
CONSTANTS
    Actors = {a1, a2}
    FS = fs
    NoLabel = nolabel
    StatusIds = {}
    HavePcap = FALSE
    IssueSend = TRUE
    Commands <- MCSourceCommands
    PutTypes <- MCNoPut
    ExplicitLabels <- MCNoExplicitLabels
SPECIFICATION Spec
CHECK_DEADLOCK FALSE
PROPERTY
    CrashedComponentReaped
