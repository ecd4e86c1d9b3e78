\* Refuted: a skip overwrites the completion it did not see.
CONSTANTS
    Stop = {s1, s2}
    NoStop = NoStop
    Request = {r1, r2}
    Hazard = {fire}
    Reported <- NoHazards
    Kind = {safety}
    Safety = safety
    Connections = 3
    Failures = FALSE
SPECIFICATION Spec
PROPERTY DoneIsNotSkipped
