SPECIFICATION FairSpec
CONSTANTS
    j1 = j1
    c1 = c1
    c2 = c2
    s1 = s1
    s2 = s2
    NoConv = NoConv
    NoJob = NoJob
    NoRow = NoRow
    Fresh = Fresh
    Gone = Gone
    Jobs = {j1}
    Convs = {c1}
    InitialConvs = {}
    Slots = {s1, s2}
    DefaultMax = 1
    Limits = {2}
    NewModes = {"existing"}
    MaxEdits = 2
    MaxFaults = 0
PROPERTIES
    RemovedStops
    KeepsTicking
CHECK_DEADLOCK FALSE
