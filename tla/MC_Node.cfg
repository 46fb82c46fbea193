\* Spawn, put, kill, crash, status, send and shutdown of a node with two
\* component handles and the file system.
CONSTANTS
    Actors = {a1, a2}
    FS = fs
    NoLabel = nolabel
    StatusIds = {s1}
    HavePcap = FALSE
    IssueSend = TRUE
    Commands <- MCCommands
    PutTypes <- MCSinkPut
    ExplicitLabels <- MCSinkLabel
SPECIFICATION Spec
CHECK_DEADLOCK FALSE
INVARIANTS
    TypeOK
    StatusDeliveredOnceComplete
    StrictTeardownOrder
PROPERTIES
    StatusRefined
