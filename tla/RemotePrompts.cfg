SPECIFICATION FairSpec
CONSTANTS
    p1 = p1
    p2 = p2
    q = q
    s = s
    s2 = s2
    f = f
    e = e
    NoCall = NoCall
    Permissions = {p1, p2}
    Questions = {q}
    Approvals = {s, s2, f}
    FsOps = {f}
    Elicitations = {e}
    InTree = {p1, p2}
    InSession = {p1, q, s}
    TextInTree = {p1}
    TextInWorkspace = {p2}
    MaxAsked = 2
    MaxInputs = 1
INVARIANTS
    TypeOK
    NobodyForgotten
    
    DeadCardsGo
PROPERTIES
    PromptEnds
CHECK_DEADLOCK FALSE
