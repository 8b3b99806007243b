SPECIFICATION Spec
CONSTANTS
    a = a
    b = b
    None = None
    Convs = {a, b}
    Resumable = {b}
    MaxTurns = 2
    MaxTroubles = 0
PROPERTIES
    ClaimsWaitForTheTurn
CHECK_DEADLOCK FALSE
