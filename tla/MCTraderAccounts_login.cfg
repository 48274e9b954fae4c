SPECIFICATION AccountsSpec
CONSTANTS
    Traders = {t1}
    Customers = {c1}
    Tenants = {n1, n2}
    r1 = r1
    r2 = r2
    Requests = {r1, r2}
    Limit = 2
    MaxOrders = 1
    Worlds <- MCWorlds
INVARIANTS
    AccountOwnsTheStore
    OrdersFollowTheOwner
    CodesWithinLimit
PROPERTIES
    LockoutEnds
    RoutingSettles
