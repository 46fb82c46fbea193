\* Liveness of a node with two component handles, one status invocation and
\* the file system: status is answered, a crash is reaped and the shutdown
\* ends once every exit request is honoured.
CONSTANTS
    Actors = {a1, a2}
    FS = fs
    NoLabel = nolabel
    StatusIds = {s1}
    HavePcap = FALSE
    IssueSend = FALSE
    Commands <- MCSourceCommands
    PutTypes <- MCSinkPut
    ExplicitLabels <- MCNoExplicitLabels
SPECIFICATION Spec
CHECK_DEADLOCK FALSE
PROPERTIES
    StatusAnswered
    CrashedComponentReaped
    ShutdownCompletes
