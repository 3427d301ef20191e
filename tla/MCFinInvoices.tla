---------------------------- MODULE MCFinInvoices ----------------------------
(* FinInvoices for TLC: two clients and two payments of one unit each, so that *)
(* with the totals of the configurations the second may or may not fit.        *)
EXTENDS FinInvoices

CONSTANTS k1, k2, p1, p2

Payments == {p1, p2}
Amounts == [p \in Payments |-> 1]
=============================================================================
