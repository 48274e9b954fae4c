SPECIFICATION Spec
CONSTANTS
    MaxOrders = 2
    MaxTrouble = 1
    ListPrice = 2
    Quantities = {2}
    Offers = {3}
INVARIANTS
    SessionOrderIsStored
    AskedOnce
    AskedIsAgreed
PROPERTY
    CancelledIsNotAsked
