SPECIFICATION FairSpec
CONSTANTS
    t1 = t1
    t2 = t2
    i1 = i1
    i2 = i2
    NoInst = NoInst
    Turns = {t1, t2}
    Insts = {i1, i2}
    Kinds = {"acp", "aionrs", "openclaw", "nanobot"}
    MaxStops = 3
INVARIANTS
    TypeOK
    NeverStuck
    RunningHasTurn
PROPERTIES
    TurnEnds
CHECK_DEADLOCK FALSE
