----------------------------- MODULE MCPayments -----------------------------
(* Small instances of Payments for TLC: two payments of one order.         *)
EXTENDS Payments

CONSTANTS o1, p1, p2, r1, r2

OneOrder == {o1}
TwoPayments == {p1, p2}
TwoRequests == {r1, r2}
SameOrder == [p \in Payments |-> o1]
=============================================================================
