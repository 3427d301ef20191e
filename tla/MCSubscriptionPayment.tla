------------------------ MODULE MCSubscriptionPayment ------------------------
(***************************************************************************)
(* Instances of SubscriptionPayment: the first payment is delivered twice, *)
(* the second once.  Both are Stripe checkouts of one organization, for    *)
(* the same offer or for different ones.                                   *)
(***************************************************************************)
EXTENDS SubscriptionPayment

CONSTANTS c1, c2, c3, p1, p2, basic, pro

Calls == {c1, c2, c3}
Payments == {p1, p2}
PaymentOf == [c \in Calls |-> IF c = c3 THEN p2 ELSE p1]
SameOffer == [p \in Payments |-> basic]
OtherOffer == [p \in Payments |-> IF p = p1 THEN basic ELSE pro]
AllStripe == {p1, p2}
=============================================================================
