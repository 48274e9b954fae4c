------------------------ MODULE MCOrderTransactions ------------------------
(* Small instances of OrderTransactions for TLC.                           *)
EXTENDS OrderTransactions

CONSTANTS o1, o2, c1, h1

OneOrder == {o1}
TwoOrders == {o1, o2}
OneCustomer == {c1}
OneRequest == {h1}
NoRequest == {}

\* Every order belongs to the same customer, so that sales meet in one entry.
SameCustomer == [o \in Orders |-> c1]
=============================================================================
