\* Two stops, two requests in flight, any of which may die at any point.
CONSTANTS
    Stop = {s1, s2}
    NoStop = NoStop
    Request = {r1, r2}
    Hazard = {fire}
    Reported <- AnyHazards
    Kind = {safety, after}
    Safety = safety
    Connections = 2
    Failures = TRUE
SPECIFICATION Spec
SYMMETRY StopOrRequest
INVARIANTS
    TypeOK
    VisitMirrorsStop
    
    LockedReadStillHolds
    FinishedRunIsAllTerminal
PROPERTIES
    
    TerminalIsForever
    
