SPECIFICATION Spec
CONSTANTS
    a1 = a1
    a2 = a2
    x = x
    y = y
    z = z
    noTask = noTask
    Tasks = {x, y, z}
    Callers = {a1, a2}
    NoTask = noTask
    MaxUpdates = 2
    MaxFaults = 1
SYMMETRY Interchangeable
INVARIANTS
    TypeOK
    LinksBothWays
    LinkedDependentsReleased
    DependsOnOlder
PROPERTIES
    OnlyCompletionReleases
CHECK_DEADLOCK FALSE
