\* The program: one JS runtime, whose requests may have a deadline or none.
SPECIFICATION FairSpec
CONSTANTS
    Callers = {js}
    Extensions = {x}
    Keys = {k}
    Operations = {"dialog", "set", "editor", "notify", "poll"}
    Deadlines = {TRUE, FALSE}
    QueueCapacity = 2
    NotificationCapacity = 1
    MaxRequests = 3
    Unloads = FALSE
INVARIANTS ScreenIsFaithful
PROPERTIES WaitsAtTheScreenEnd
CHECK_DEADLOCK FALSE
