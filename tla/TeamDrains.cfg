SPECIFICATION FairSpec
CONSTANTS
    lead = lead
    t1 = t1
    user = user
    Agents = {lead, t1}
    Lead = lead
    User = user
    Initial = {lead, t1}
    Leavers = {}
    Detached = {t1}
    MaxMsgs = 2
    MaxChats = 0
    MaxLate = 1
    MaxFaults = 0
INVARIANTS
    NoLostWake
    WorkingHasTurn
    NoRedelivery
    LeadHearsBack
PROPERTIES
    Drains
CHECK_DEADLOCK FALSE
