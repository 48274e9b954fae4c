--------------------------- MODULE MCCreditSales ---------------------------
(* Small instances of CreditSales for TLC: two sales that claim one order, *)
(* and a debt without an order.                                            *)
EXTENDS CreditSales

CONSTANTS o1, x1, x2, d1, h1

OneOrder == {o1}
ThreeSales == {x1, x2, d1}
OneRequest == {h1}

Links == [x \in Sales |-> IF x = d1 THEN NoOrder ELSE o1]
=============================================================================
