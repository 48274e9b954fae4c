SPECIFICATION FairSpec
CONSTANTS
    o1 = o1
    o2 = o2
    c1 = c1
    h1 = h1
    Orders <- TwoOrders
    Customers <- OneCustomer
    CustomerOf <- SameCustomer
    HttpRequests <- NoRequest
    Faults = TRUE
    MaxTxns = 7
CHECK_DEADLOCK FALSE
INVARIANT TotalsAreSales
PROPERTY EveryTxnEnds
