SPECIFICATION Spec
CONSTANTS
    Friend = {a, b}
    Suspect = {s}
    ToolUser = {a}
    MaxContext = 2
    Keep = 1
    Hard = 3
    KeepTurns = 1
    MaxEvents = 1
PROPERTY ClearedStaysCleared
CHECK_DEADLOCK FALSE
