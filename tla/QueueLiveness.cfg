\* One stop, one photo, three actions, one sitting of the page.
CONSTANTS
    Stop = {s1}
    Photo = {p1}
    Kind = {completion}
    NoKind = NoKind
    MaxActions = 3
    Reloads = FALSE
SPECIFICATION ReconnectSpec
PROPERTIES
    ReplayEnds
    EveryActionSettles
