\* Two callers at once, as the broker's API and its tests allow.
SPECIFICATION Spec
CONSTANTS
    a = a
    b = b
    x = x
    y = y
    Callers = {a, b}
    Extensions = {x, y}
    Keys = {k}
    Operations = {"dialog", "set", "editor", "poll"}
    Deadlines = {TRUE}
    QueueCapacity = 1
    NotificationCapacity = 1
    MaxRequests = 3
    Unloads = TRUE
SYMMETRY Symmetry
INVARIANTS BrokerIsSound
CHECK_DEADLOCK FALSE
