SPECIFICATION Spec
CONSTANTS
    j1 = j1
    c1 = c1
    c2 = c2
    s1 = s1
    s2 = s2
    NoConv = NoConv
    NoJob = NoJob
    NoRow = NoRow
    Fresh = Fresh
    Gone = Gone
    Jobs = {j1}
    Convs = {c1, c2}
    InitialConvs = {}
    Slots = {s1, s2}
    DefaultMax = 1
    Limits = {2}
    NewModes = {"existing", "new"}
    MaxEdits = 1
    MaxFaults = 0
INVARIANTS
    CascadeSparesNew
CHECK_DEADLOCK FALSE
