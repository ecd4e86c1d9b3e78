\* One stop, two photos, three actions; reloads, lost requests, sign-out.
CONSTANTS
    Stop = {s1}
    Photo = {p1, p2}
    Kind = {completion}
    NoKind = NoKind
    MaxActions = 3
    Reloads = TRUE
SPECIFICATION Spec
SYMMETRY PhotoSymmetry
INVARIANTS
    TypeOK
    WaitingUploadHasBlobs
    DoneWasAcknowledged
    CompletionGoesLast
PROPERTIES
    BlobOutlivesUpload
    AckedIsNotResent
