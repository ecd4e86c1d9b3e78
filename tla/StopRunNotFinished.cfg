\* Refuted: two completions of the last two stops miss each other.
CONSTANTS
    Stop = {s1, s2}
    NoStop = NoStop
    Request = {r1, r2}
    Hazard = {fire}
    Reported <- NoHazards
    Kind = {safety}
    Safety = safety
    Connections = 3
    Failures = FALSE
SPECIFICATION Spec
INVARIANT AllTerminalRunFinished
