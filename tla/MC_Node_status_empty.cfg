\* A status invocation on an empty registry is never answered.
CONSTANTS
    Actors = {a1}
    FS = fs
    NoLabel = nolabel
    StatusIds = {s1}
    HavePcap = FALSE
    IssueSend = FALSE
    Commands <- MCSourceCommands
    PutTypes <- MCNoPut
    ExplicitLabels <- MCNoExplicitLabels
SPECIFICATION Spec
CHECK_DEADLOCK FALSE
PROPERTY
    StatusAlwaysAnswered
