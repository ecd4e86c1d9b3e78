\* Refuted: a failure between the commit of a skip and its observations.
CONSTANTS
    Stop = {s1, s2}
    NoStop = NoStop
    Request = {r1, r2}
    Hazard = {fire}
    Reported <- NoHazards
    Kind = {safety}
    Safety = safety
    Connections = 3
    Failures = TRUE
SPECIFICATION Spec
INVARIANT SkippedStopHasHazard
