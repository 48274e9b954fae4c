SPECIFICATION Spec
CONSTANTS
    None = None
    Orders = {o1, o2}
    Sales = {s1, s2}
    Linked = {s2}
    MaxReminders = 2
    Customers = {c1}
    Broadcasts = {b1, b2}
    Events = {1, 2, 3}
    Photos = {3}
    Scheduled = {x1, x2}
    Limit = 2
    Unreachable = {o1}
    Worlds <- MCWorlds
    MaxStops = 1
INVARIANTS
    MarkedWasSent
    BroadcastLimits
    ReportedOnce
PROPERTIES
    StaleOrderIsReminded
    BroadcastEnds
CHECK_DEADLOCK FALSE
