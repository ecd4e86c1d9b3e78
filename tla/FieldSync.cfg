SPECIFICATION FieldSpec
CONSTANTS
    Stop = {s1}
    Photo = {p1}
    Kind = {completion, safety}
    NoKind = NoKind
    Safety = safety
    MaxActions = 3
    Reloads = TRUE
INVARIANTS
    FieldTypeOK
    NoWorkForgotten
    QueuedPhotoIsEvidence
PROPERTY
    ServerKeepsRecord
CHECK_DEADLOCK FALSE
