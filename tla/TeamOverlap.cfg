SPECIFICATION Spec
CONSTANTS
    lead = lead
    t1 = t1
    user = user
    Agents = {lead, t1}
    Lead = lead
    User = user
    Initial = {lead, t1}
    Leavers = {}
    Detached = {}
    MaxMsgs = 1
    MaxChats = 1
    MaxLate = 0
    MaxFaults = 0
INVARIANTS
    TurnsDoNotOverlap
CHECK_DEADLOCK FALSE
