----------------------- MODULE MCSubscriptionLifecycle -----------------------
(***************************************************************************)
(* Two rows, one of them billed by Stripe, over a few days.                *)
(***************************************************************************)
EXTENDS SubscriptionLifecycle

CONSTANTS r1, r2

Rows == {r1, r2}
OneStripe == {r1}
=============================================================================
