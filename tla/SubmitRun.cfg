SPECIFICATION Spec
CONSTANTS
    c1 = c1
    c2 = c2
    A = A
    B = B
    None = None
    Calls = {c1, c2}
    Commands = {A, B}
    CommandMaps <- Both
    Forwarded = {c1}
    Disconnects = {c1}
    MaxTurns = 1
    ContextRetries = 1
    MaxTrouble = 2
INVARIANTS
    ValidRuns
    RunsDontOverlap
    OneRunPerCommand
CHECK_DEADLOCK FALSE
