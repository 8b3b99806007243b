SPECIFICATION FairSpec
CONSTANTS
    a = a
    b = b
    None = None
    Convs = {a, b}
    Resumable = {b}
    MaxTurns = 3
    MaxTroubles = 1
INVARIANTS
    TypeOK
    NoStrandedWaiter
    MapIsTrue
    ToolsReachTheirWorkspace
    FinishIsOwn
PROPERTIES
    TurnEnds
CHECK_DEADLOCK FALSE
