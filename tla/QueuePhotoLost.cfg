\* A second photo joins an upload that the replay has already read.
CONSTANTS
    Stop = {s1}
    Photo = {p1, p2}
    Kind = {completion}
    NoKind = NoKind
    MaxActions = 3
    Reloads = FALSE
SPECIFICATION Spec
INVARIANT DoneUploadIsDelivered
