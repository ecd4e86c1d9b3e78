\* Two actions, no reload, an environment that owes nothing.
CONSTANTS
    Stop = {s1}
    Photo = {p1}
    Kind = {completion}
    NoKind = NoKind
    MaxActions = 2
    Reloads = FALSE
SPECIFICATION FairSpec
PROPERTY NoActionWaitsForever
