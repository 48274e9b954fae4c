SPECIFICATION FairSpec
CONSTANTS
    o1 = o1
    p1 = p1
    p2 = p2
    r1 = r1
    r2 = r2
    Orders <- OneOrder
    Payments <- TwoPayments
    OrderOf <- SameOrder
    Requests <- TwoRequests
    Priced <- OneOrder
    MaxQueue = 2
INVARIANT MoneyBacksState
PROPERTY ChargedOrderIsSettled
