------------------------- MODULE SubscriptionPayment -------------------------
(***************************************************************************)
(* Checkout of a paid subscription, for one organization.                  *)
(*                                                                         *)
(* A checkout is opened by initiatePayment, which snapshots the row the    *)
(* new one will replace; the customer pays at the provider; then one or    *)
(* several calls of processPayment run for the same payment: one for each  *)
(* delivery of the Stripe webhook (the endpoint answers 200 before it has  *)
(* processed anything and keeps no record of delivered events), or one for *)
(* each verify-payment request of the UI (Razorpay).                       *)
(*                                                                         *)
(* processPayment is one SERIALIZABLE transaction of MySQL.  Its plain     *)
(* SELECT takes shared next-key locks on the organization's rows, so:      *)
(*   - a call cannot read those rows while another has written them;       *)
(*   - a call cannot write them while another has read them;               *)
(*   - two calls that wait for each other are a deadlock, and the database *)
(*     rolls one of them back.                                             *)
(* Locks last until commit or rollback, so who holds what follows from the *)
(* program counters.  The writes of an open transaction stay in `draft`    *)
(* until Commit publishes them; the PAID invoice, created in the same      *)
(* transaction, exists exactly when the row does and is not modelled apart.*)
(***************************************************************************)
EXTENDS Integers

CONSTANTS
    Call,            \* executions of processPayment
    Payment,         \* checkouts
    Trial,           \* the row the default-subscription job made
    None,
    paymentOf,       \* [Call -> Payment]: the payment a call was made for
    offerOf,         \* [Payment -> offers]: plan, user count and billing cycle
    StripePayment,   \* the payments that go through Stripe, the others Razorpay
    Window,          \* the two minutes of the idempotency check
    MaxTime          \* bound on the clock

ASSUME PaymentAssumption ==
    /\ paymentOf \in [Call -> Payment]
    /\ StripePayment \subseteq Payment
    /\ Trial \notin Call
    /\ None \notin Call \cup {Trial}
    /\ Window \in Nat
    /\ MaxTime \in Nat

VARIABLES
    now,        \* the server's clock
    session,    \* session[p]: the checkout of p is "none", "open" or "paid"
    existing,   \* existing[p]: existingSubscriptionId in the metadata of p
    canceled,   \* payments whose Stripe subscription the code cancelled
    rows,       \* the committed rows of table subscriptions
    pc,         \* where each call is
    since,      \* since[c]: Date.now() when c computed twoMinutesAgo
    draft       \* draft[c]: createdAt and stripe link of the row c inserts

vars == <<now, session, existing, canceled, rows, pc, since, draft>>

Row == Call \cup {Trial}
Time == 0..MaxTime

\* The row a call replaces, if its checkout found one.
Old(c) == existing[paymentOf[c]]

SameRequest(c, d) ==
    /\ offerOf[paymentOf[c]] = offerOf[paymentOf[d]]
    /\ paymentOf[c] \in StripePayment <=> paymentOf[d] \in StripePayment

Present(r) == rows[r].status # "ABSENT"
Live(r) == rows[r].status \in {"TRIAL", "ACTIVE"}

-----------------------------------------------------------------------------
(* Locks of the open transactions *)

\* Mutant: a transaction of READ COMMITTED, whose SELECT locks nothing.
HasReadUnlocked(c) == FALSE

\* Mutant: the skip returns without the rollback and keeps its locks.
HasReadSkipLeaks(c) ==
    pc[c] \in {"checked", "locked", "replaced", "stamped", "inserted", "skipped"}

\* Shared locks on the organization's rows, from the idempotency SELECT on.
HasRead(c) == pc[c] \in {"checked", "locked", "replaced", "stamped", "inserted"}

\* The organization's row, locked FOR UPDATE.
HoldsOrg(c) == pc[c] \in {"locked", "replaced", "stamped", "inserted"}

\* Exclusive locks on rows of the organization.
HasWritten(c) ==
    \/ pc[c] = "inserted"
    \/ pc[c] \in {"replaced", "stamped"} /\ Old(c) # None

WaitsFor(c, d) ==
    \/ pc[c] = "checked" /\ HoldsOrg(d)
    \/ pc[c] = "locked" /\ Old(c) # None /\ HasRead(d)
    \/ pc[c] = "stamped" /\ HasRead(d)

-----------------------------------------------------------------------------
Init ==
    /\ now = 0
    /\ session = [p \in Payment |-> "none"]
    /\ existing = [p \in Payment |-> None]
    /\ canceled = {}
    /\ \E s \in {"ABSENT", "TRIAL"} :
         rows = [r \in Row |-> [status |-> IF r = Trial THEN s ELSE "ABSENT",
                                created |-> 0, linked |-> FALSE]]
    /\ pc = [c \in Call |-> "idle"]
    /\ since = [c \in Call |-> 0]
    /\ draft = [c \in Call |-> [created |-> 0, linked |-> FALSE]]

Tick ==
    /\ now < MaxTime
    /\ now' = now + 1
    /\ UNCHANGED <<session, existing, canceled, rows, pc, since, draft>>

\* Mutant: the metadata gets the id of the checkout in place of the row's.
initiatePaymentOwnId(p) ==
    /\ session[p] = "none"
    /\ existing' = [existing EXCEPT ![p] = p]
    /\ session' = [session EXCEPT ![p] = "open"]
    /\ UNCHANGED <<now, canceled, rows, pc, since, draft>>

\* The newest TRIAL or ACTIVE row goes into the metadata of the checkout; an
\* ACTIVE row with the same plan, users and cycle is refused: no changes.
initiatePayment(p) ==
    /\ session[p] = "none"
    /\ \E e \in Row \cup {None} :
         /\ IF e = None
            THEN \A r \in Row : ~Live(r)
            ELSE /\ Live(e)
                 /\ \A r \in Row : Live(r) => rows[r].created <= rows[e].created
                 /\ e \in Call => offerOf[paymentOf[e]] # offerOf[p]
         /\ existing' = [existing EXCEPT ![p] = e]
    /\ session' = [session EXCEPT ![p] = "open"]
    /\ UNCHANGED <<now, canceled, rows, pc, since, draft>>

\* The customer pays at the provider; for Stripe this starts a subscription.
Pay(p) ==
    /\ session[p] = "open"
    /\ session' = [session EXCEPT ![p] = "paid"]
    /\ UNCHANGED <<now, existing, canceled, rows, pc, since, draft>>

-----------------------------------------------------------------------------
(* processPayment, statement by statement *)

\* The transaction begins and the clock is read, before the SELECT may wait.
Begin(c) ==
    /\ pc[c] = "idle"
    /\ session[paymentOf[c]] = "paid"
    /\ pc' = [pc EXCEPT ![c] = "begun"]
    /\ since' = [since EXCEPT ![c] = now]
    /\ UNCHANGED <<now, session, existing, canceled, rows, draft>>

\* Mutant: Op.gt in place of Op.gte.
RecentDuplicateStrict(c) ==
    \E d \in Call : /\ Present(d)
                    /\ SameRequest(c, d)
                    /\ rows[d].created > since[c] - Window

RecentDuplicate(c) ==
    \E d \in Call : /\ Present(d)
                    /\ SameRequest(c, d)
                    /\ rows[d].created >= since[c] - Window

\* The idempotency SELECT.  When it finds a row the transaction is rolled back,
\* and the query for the invoice that follows uses that finished transaction,
\* which Sequelize refuses: the caller gets an error and never links.
Check(c) ==
    /\ pc[c] = "begun"
    /\ \A d \in Call \ {c} : ~HasWritten(d)
    /\ pc' = [pc EXCEPT ![c] = IF RecentDuplicate(c) THEN "skipped" ELSE "checked"]
    /\ UNCHANGED <<now, session, existing, canceled, rows, since, draft>>

\* After the provider has confirmed the payment: SELECT ... FOR UPDATE of the
\* organization.
LockOrganization(c) ==
    /\ pc[c] = "checked"
    /\ \A d \in Call \ {c} : ~HoldsOrg(d)
    /\ pc' = [pc EXCEPT ![c] = "locked"]
    /\ UNCHANGED <<now, session, existing, canceled, rows, since, draft>>

\* Mutant: the update of the old row is not given the transaction.
ReplaceOldAutocommit(c) ==
    /\ pc[c] = "locked"
    /\ Old(c) # None
    /\ \A d \in Call \ {c} : ~HasRead(d)
    /\ pc' = [pc EXCEPT ![c] = "replaced"]
    /\ rows' = [rows EXCEPT ![Old(c)].status = "CANCELLED"]
    /\ UNCHANGED <<now, session, existing, canceled, since, draft>>

\* The old row is locked, its Stripe subscription is cancelled at once (an
\* error there is only logged) and the row is set CANCELLED in the transaction.
ReplaceOld(c) ==
    /\ pc[c] = "locked"
    /\ Old(c) # None
    /\ \A d \in Call \ {c} : ~HasRead(d)
    /\ pc' = [pc EXCEPT ![c] = "replaced"]
    /\ \/ /\ paymentOf[c] \in StripePayment
          /\ Old(c) \in Call
          /\ rows[Old(c)].linked
          /\ canceled' = canceled \cup {paymentOf[Old(c)]}
       \/ canceled' = canceled
    /\ UNCHANGED <<now, session, existing, rows, since, draft>>

\* Sequelize stamps createdAt before the INSERT is sent.  Without a payment
\* intent the subscription of the checkout session is stored with the row.
Stamp(c) ==
    /\ \/ pc[c] = "replaced"
       \/ pc[c] = "locked" /\ Old(c) = None
    /\ pc' = [pc EXCEPT ![c] = "stamped"]
    /\ \E l \in BOOLEAN :
         /\ l => paymentOf[c] \in StripePayment
         /\ draft' = [draft EXCEPT ![c] = [created |-> now, linked |-> l]]
    /\ UNCHANGED <<now, session, existing, canceled, rows, since>>

Insert(c) ==
    /\ pc[c] = "stamped"
    /\ \A d \in Call \ {c} : ~HasRead(d)
    /\ pc' = [pc EXCEPT ![c] = "inserted"]
    /\ UNCHANGED <<now, session, existing, canceled, rows, since, draft>>

\* Mutant: the old row is left as it is.
CommitKeepsOld(c) ==
    /\ pc[c] = "inserted"
    /\ rows' = [rows EXCEPT ![c] = [status |-> "ACTIVE", created |-> draft[c].created,
                                    linked |-> draft[c].linked]]
    /\ pc' = [pc EXCEPT ![c] = IF paymentOf[c] \in StripePayment
                               THEN "committed" ELSE "done"]
    /\ UNCHANGED <<now, session, existing, canceled, since, draft>>

\* The new ACTIVE row and its invoice appear, the old row becomes CANCELLED.
Commit(c) ==
    /\ pc[c] = "inserted"
    /\ rows' = [r \in Row |->
                  IF r = c THEN [status |-> "ACTIVE", created |-> draft[c].created,
                                 linked |-> draft[c].linked]
                  ELSE IF r = Old(c) THEN [rows[r] EXCEPT !.status = "CANCELLED"]
                  ELSE rows[r]]
    /\ pc' = [pc EXCEPT ![c] = IF paymentOf[c] \in StripePayment
                               THEN "committed" ELSE "done"]
    /\ UNCHANGED <<now, session, existing, canceled, since, draft>>

\* The webhook handler stores the Stripe id, in a statement of its own.
LinkStripe(c) ==
    /\ pc[c] = "committed"
    /\ \A d \in Call \ {c} : ~HasRead(d)
    /\ rows' = [rows EXCEPT ![c].linked = TRUE]
    /\ pc' = [pc EXCEPT ![c] = "done"]
    /\ UNCHANGED <<now, session, existing, canceled, since, draft>>

-----------------------------------------------------------------------------
(* Failures *)

InFlight(c) == pc[c] \notin {"idle", "skipped", "failed", "done"}

\* The provider refuses, a row is missing, an invoice number collides, a lock
\* wait times out, any query fails: rollback and rethrow.
Fail(c) ==
    /\ InFlight(c)
    /\ pc' = [pc EXCEPT ![c] = "failed"]
    /\ UNCHANGED <<now, session, existing, canceled, rows, since, draft>>

\* The database breaks a cycle of waits.
DeadlockVictim(c) ==
    /\ \E d \in Call \ {c} : WaitsFor(c, d) /\ WaitsFor(d, c)
    /\ pc' = [pc EXCEPT ![c] = "failed"]
    /\ UNCHANGED <<now, session, existing, canceled, rows, since, draft>>

\* The server stops: the database rolls every open transaction back, and as
\* every delivery was answered 200 nothing resumes the calls.
Crash ==
    /\ \E c \in Call : InFlight(c)
    /\ pc' = [c \in Call |-> IF InFlight(c) THEN "failed" ELSE pc[c]]
    /\ UNCHANGED <<now, session, existing, canceled, rows, since, draft>>

-----------------------------------------------------------------------------
Advance(c) ==
    \/ Check(c)
    \/ LockOrganization(c)
    \/ ReplaceOld(c)
    \/ Stamp(c)
    \/ Insert(c)
    \/ Commit(c)
    \/ LinkStripe(c)
    \/ DeadlockVictim(c)

Next ==
    \/ Tick
    \/ \E p \in Payment : initiatePayment(p) \/ Pay(p)
    \/ \E c \in Call : Begin(c) \/ Advance(c) \/ Fail(c)
    \/ Crash

Spec == Init /\ [][Next]_vars

\* The event loop runs every pending statement to its answer, and the database
\* detects deadlocks; nothing makes a customer pay or Stripe deliver.
FairSpec == Spec /\ \A c \in Call : WF_vars(Advance(c))

-----------------------------------------------------------------------------
(* Properties *)

TypeOK ==
    /\ now \in Time
    /\ session \in [Payment -> {"none", "open", "paid"}]
    /\ existing \in [Payment -> Row \cup {None}]
    /\ canceled \subseteq Payment
    /\ rows \in [Row -> [status: {"ABSENT", "TRIAL", "ACTIVE", "CANCELLED"},
                         created: Time, linked: BOOLEAN]]
    /\ pc \in [Call -> {"idle", "begun", "checked", "locked", "replaced", "stamped",
                        "inserted", "committed", "done", "skipped", "failed"}]
    /\ since \in [Call -> Time]
    /\ draft \in [Call -> [created: Time, linked: BOOLEAN]]

\* Two rows of the same plan, user count, cycle and provider are created more
\* than the window apart, however the calls that make them interleave: the
\* idempotency check of processPayment and its insert act as one step.
SameRequestFarApart ==
    \A c, d \in Call :
        c # d /\ Present(c) /\ Present(d) /\ SameRequest(c, d) =>
            \/ rows[c].created + Window < rows[d].created
            \/ rows[d].created + Window < rows[c].created

\* An organization that has a subscription row keeps one in TRIAL or ACTIVE
\* through every checkout, whichever of its steps fail: the old row is never
\* closed without its successor.
NeverWithoutService ==
    (\E r \in Row : Present(r)) => \E r \in Row : Live(r)

\* A live row whose Stripe subscription the code has cancelled is explained by a
\* replacement that is under way or has failed after the cancellation, which no
\* rollback undoes, or by a replacement of another row of the same payment.
StripeCancelExplained ==
    \A c \in Call :
        Live(c) /\ rows[c].linked /\ paymentOf[c] \in canceled =>
            \E d \in Call :
                /\ Old(d) \in Call
                /\ paymentOf[Old(d)] = paymentOf[c]
                /\ \/ pc[d] = "failed"
                   \/ HasWritten(d)
                   \/ Old(d) # c /\ Present(d)

\* Every call of processPayment that begins ends; the locks of calls for the
\* same organization never leave them all waiting.
CallsEnd ==
    \A c \in Call : pc[c] = "begun" ~> ~InFlight(c)

\* Checkout implements the ledger: the committed rows change only as if each
\* payment took effect in one step.
Ledger == INSTANCE SubscriptionLedger
ImplementsLedger == Ledger!Spec

\* The comment of the idempotency check: it prevents duplicate processing of
\* the same payment when webhooks are retried or called several times.
PaymentProcessedOnce ==
    \A c, d \in Call :
        Present(c) /\ Present(d) /\ paymentOf[c] = paymentOf[d] => c = d
=============================================================================
