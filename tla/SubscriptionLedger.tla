-------------------------- MODULE SubscriptionLedger --------------------------
(***************************************************************************)
(* What checkout promises of the table of subscription rows of one         *)
(* organization, whatever transactions, locks, failures and crashes there  *)
(* are underneath: a payment takes effect in one step or not at all.  That *)
(* step adds an ACTIVE row, closes the row it replaces, and happens only   *)
(* if no row of the same request is as young as the window.                *)
(***************************************************************************)
EXTENDS Integers

CONSTANTS Call, Payment, Trial, None, paymentOf, offerOf, StripePayment, Window, MaxTime

VARIABLES now, rows

vars == <<now, rows>>

Row == Call \cup {Trial}

SameRequest(c, d) ==
    /\ offerOf[paymentOf[c]] = offerOf[paymentOf[d]]
    /\ paymentOf[c] \in StripePayment <=> paymentOf[d] \in StripePayment

Present(r) == rows[r].status # "ABSENT"

Init ==
    /\ now = 0
    /\ \E s \in {"ABSENT", "TRIAL"} :
         rows = [r \in Row |-> [status |-> IF r = Trial THEN s ELSE "ABSENT",
                                created |-> 0, linked |-> FALSE]]

Tick ==
    /\ now' = now + 1
    /\ UNCHANGED rows

\* The payment of call c takes effect, with createdAt = t, in place of row e.
Apply(c, e, t) ==
    /\ ~Present(c)
    /\ e # None => e # c /\ Present(e)
    /\ t <= now
    /\ \A d \in Call : Present(d) /\ SameRequest(c, d) => rows[d].created + Window < t
    /\ \E l \in BOOLEAN :
         rows' = [r \in Row |->
                    IF r = c THEN [status |-> "ACTIVE", created |-> t, linked |-> l]
                    ELSE IF r = e THEN [rows[r] EXCEPT !.status = "CANCELLED"]
                    ELSE rows[r]]
    /\ UNCHANGED now

\* The row learns the id of the Stripe subscription that pays for it.
Link(c) ==
    /\ Present(c)
    /\ rows' = [rows EXCEPT ![c].linked = TRUE]
    /\ UNCHANGED now

Next ==
    \/ Tick
    \/ \E c \in Call : \/ \E e \in Row \cup {None}, t \in 0..MaxTime : Apply(c, e, t)
                       \/ Link(c)

Spec == Init /\ [][Next]_vars
=============================================================================
