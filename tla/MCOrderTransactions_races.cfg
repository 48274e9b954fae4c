SPECIFICATION Spec
CONSTANTS
    o1 = o1
    o2 = o2
    c1 = c1
    h1 = h1
    Orders <- TwoOrders
    Customers <- OneCustomer
    CustomerOf <- SameCustomer
    HttpRequests <- OneRequest
    Faults = TRUE
    MaxTxns = 6
CHECK_DEADLOCK FALSE
 
INVARIANT VisibleWasAnnounced
PROPERTY ImplementsSharedOrders
