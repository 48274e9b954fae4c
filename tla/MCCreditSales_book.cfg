SPECIFICATION FairSpec
CONSTANTS
    o1 = o1
    x1 = x1
    x2 = x2
    d1 = d1
    h1 = h1
    NoOrder = NoOrder
    Orders <- OneOrder
    Sales <- ThreeSales
    OrderOf <- Links
    HttpRequests <- OneRequest
    Naira = 2
    Debt = 5
    MaxDebts = 1
    MaxQueue = 2
INVARIANT PartsMakeUpTheDebt
INVARIANT BookMatchesOrders
INVARIANT CompletedWasResolved
PROPERTY PublishedResolutionCompletes
