SPECIFICATION Spec
CONSTANTS
    lead = lead
    t1 = t1
    user = user
    Agents = {lead, t1}
    Lead = lead
    User = user
    Initial = {lead}
    Leavers = {lead, t1}
    Detached = {}
    MaxMsgs = 1
    MaxChats = 1
    MaxLate = 0
    MaxFaults = 1
INVARIANTS
    TypeOK
    NoLostWake
PROPERTIES
    ReadOnlyWhenHanded
    ImplementsMailbox
CHECK_DEADLOCK FALSE
