SPECIFICATION Spec
CONSTANTS
    t1 = t1
    t2 = t2
    i1 = i1
    i2 = i2
    NoInst = NoInst
    Turns = {t1, t2}
    Insts = {i1, i2}
    Kinds = {"openclaw"}
    MaxStops = 0
SYMMETRY AnyTurn
INVARIANTS
    NoRelayStuck
CHECK_DEADLOCK FALSE
