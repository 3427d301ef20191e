------------------------ MODULE SubscriptionLifecycle ------------------------
(***************************************************************************)
(* The life of the subscription rows of one organization after checkout:   *)
(* the requests that create, replace and cancel rows, the Stripe webhook   *)
(* handlers that overwrite them, and the daily job that closes them.       *)
(*                                                                         *)
(* Checkout is one step here, processPayment, as SubscriptionPayment       *)
(* implements SubscriptionLedger.  Nothing else runs in a transaction that *)
(* locks what it read: a request, a handler and the job interleave between *)
(* any two of their statements.                                            *)
(*                                                                         *)
(* Stripe (external) renews, fails to charge, gives up; each change sends  *)
(* events.  The endpoint answers 200 and processes without awaiting, so    *)
(* events are handled in any order, an event is lost when its processing   *)
(* fails or the server stops, and a delivery can be repeated.              *)
(***************************************************************************)
EXTENDS Integers

CONSTANTS
    Row,         \* rows of table subscriptions, by id
    StripeRow,   \* the rows whose checkout starts a Stripe subscription
    None,
    Process,     \* the processes that run the daily job: API, workers, scheduler
    Redeliveries,\* bound on the events that are delivered once more
    Period,      \* length of a billing cycle, in days
    MaxTime      \* bound on the clock; periods that would reach it do not start

ASSUME LifecycleAssumption ==
    /\ StripeRow \subseteq Row
    /\ None \notin Row
    /\ Redeliveries \in Nat
    /\ Period \in Nat \ {0}
    /\ MaxTime \in Nat

VARIABLES
    now,        \* the day
    rows,       \* rows[r]: status, end = currentPeriodEnd, cancelAt
    maker,      \* maker[r]: where the request that makes row r is
    target,     \* target[r]: the row an admin upgrade found and will close
    asked,      \* asked[r]: the date a request is about to store as cancelAt of r
    replaced,   \* rows closed because another row took their place
    stripe,     \* the Stripe subscription of a row: status, end
    events,     \* webhook events still to be handled
    again,      \* repeated deliveries still to come
    job,        \* job[p]: the job in p is "idle", "expiring" or "cancelling"
    due,        \* due[p][r]: how it has listed r, "no", "trial" or "paid"
    marked      \* marked[p]: the row whose re-read told it to close that row

vars ==
    <<now, rows, maker, target, asked, replaced, stripe, events, again, job, due, marked>>

Time == 0..MaxTime
Never == MaxTime + 1     \* cancelAt = null

Status == {"ABSENT", "TRIAL", "ACTIVE", "PAST_DUE", "CANCELLED"}

Event == [type: {"updated", "deleted", "paid", "failed"}, row: Row,
          status: {"active", "past_due", "canceled"}, end: Time]

\* What a running job remembers of each row.
Listing == [Row -> {"no", "trial", "paid"}]

Present(r) == rows[r].status # "ABSENT"
Live(r) == rows[r].status \in {"TRIAL", "ACTIVE"}

-----------------------------------------------------------------------------
Init ==
    /\ now = 0
    /\ rows = [r \in Row |-> [status |-> "ABSENT", end |-> 0, cancelAt |-> Never]]
    /\ maker = [r \in Row |-> "free"]
    /\ target = [r \in Row |-> None]
    /\ asked = [r \in Row |-> Never]
    /\ replaced = {}
    /\ stripe = [r \in Row |-> [status |-> "none", end |-> 0]]
    /\ events = {}
    /\ again = Redeliveries
    /\ job = [p \in Process |-> "idle"]
    /\ due = [p \in Process |-> [r \in Row |-> "no"]]
    /\ marked = [p \in Process |-> None]

Tick ==
    /\ now < MaxTime
    /\ now' = now + 1
    /\ UNCHANGED <<rows, maker, target, asked, replaced, stripe, events, again, job, due, marked>>

-----------------------------------------------------------------------------
(* Requests that make rows *)

NewRow(status) == [status |-> status, end |-> now + Period, cancelAt |-> Never]

Sent(type, r, status, end) ==
    [type |-> type, row |-> r, status |-> status, end |-> end]

\* Row r takes the place of row e, and of its Stripe subscription if cancelled
\* holds it.
Replace(r, e, cancelled) ==
    /\ rows' = [q \in Row |-> IF q = r THEN NewRow("ACTIVE")
                              ELSE IF q = e THEN [rows[q] EXCEPT !.status = "CANCELLED"]
                              ELSE rows[q]]
    /\ replaced' = replaced \cup {q \in Row : q = e}
    /\ stripe' = [q \in Row |->
                    IF q = r /\ r \in StripeRow
                    THEN [status |-> "active", end |-> now + Period]
                    ELSE IF q \in cancelled THEN [stripe[q] EXCEPT !.status = "canceled"]
                    ELSE stripe[q]]
    /\ events' = events \cup {Sent("deleted", q, "canceled", stripe[q].end) : q \in cancelled}

\* A paid checkout: the new row is ACTIVE and the row of its metadata, which may
\* have changed or been replaced since, is CANCELLED; its Stripe subscription is
\* cancelled if the new one is with Stripe too, and an error there is swallowed.
processPayment(r) ==
    /\ maker[r] = "free"
    /\ now + Period < MaxTime
    /\ \E e \in {q \in Row : Present(q)} \cup {None} :
         \E cancelled \in SUBSET {q \in Row : q = e /\ r \in StripeRow
                                             /\ stripe[q].status \in {"active", "past_due"}} :
             Replace(r, e, cancelled)
    /\ maker' = [maker EXCEPT ![r] = "made"]
    /\ UNCHANGED <<now, target, asked, again, job, due, marked>>

\* The job of a new organization.  A worker has no user in context, so the
\* tenant filter turns its two checks for a subscription into no check at all.
createDefaultSubscription(r) ==
    /\ maker[r] = "free"
    /\ now + Period < MaxTime
    /\ rows' = [rows EXCEPT ![r] = NewRow("TRIAL")]
    /\ maker' = [maker EXCEPT ![r] = "made"]
    /\ UNCHANGED <<now, target, asked, replaced, stripe, events, again, job, due, marked>>

\* adminUpgradeSubscription finds a live row, outside its transaction.
adminUpgradeFind(r) ==
    /\ maker[r] = "free"
    /\ \E q \in Row : /\ Live(q)
                      /\ target' = [target EXCEPT ![r] = q]
    /\ maker' = [maker EXCEPT ![r] = "found"]
    /\ UNCHANGED <<now, rows, asked, replaced, stripe, events, again, job, due, marked>>

\* The check of createSubscription, called by the admin upgrade, which has
\* closed its target in the same transaction, or for a request to create.  A
\* conflict ends the request and rolls the transaction back.
createSubscriptionCheck(r) ==
    /\ maker[r] \in {"free", "found"}
    /\ IF \E q \in Row : Live(q) /\ q # target[r]
       THEN /\ maker' = [maker EXCEPT ![r] = "free"]
            /\ target' = [target EXCEPT ![r] = None]
       ELSE /\ maker' = [maker EXCEPT ![r] = "checked"]
            /\ target' = target
    /\ UNCHANGED <<now, rows, asked, replaced, stripe, events, again, job, due, marked>>

\* Its insert, a later statement, and the commit.  Stripe is not told.
createSubscriptionInsert(r) ==
    /\ maker[r] = "checked"
    /\ now + Period < MaxTime
    /\ rows' = [q \in Row |->
                  IF q = r THEN NewRow("ACTIVE")
                  ELSE IF q = target[r]
                  THEN [status |-> "CANCELLED", end |-> rows[q].end, cancelAt |-> now]
                  ELSE rows[q]]
    /\ replaced' = replaced \cup {q \in Row : q = target[r]}
    /\ maker' = [maker EXCEPT ![r] = "made"]
    /\ target' = [target EXCEPT ![r] = None]
    /\ UNCHANGED <<now, asked, stripe, events, again, job, due, marked>>

\* The user cancels and keeps access until the end of the period, as the
\* request reads it.  Stripe is not told.  Bound: one such request at a time.
cancelSubscription(r) ==
    /\ Live(r)
    /\ \A q \in Row : asked[q] = Never
    /\ asked' = [asked EXCEPT ![r] = rows[r].end]
    /\ UNCHANGED <<now, rows, maker, target, replaced, stripe, events, again, job, due, marked>>

\* Its update, a later statement.
cancelSubscriptionWrite(r) ==
    /\ asked[r] # Never
    /\ rows' = [rows EXCEPT ![r].cancelAt = asked[r]]
    /\ asked' = [asked EXCEPT ![r] = Never]
    /\ UNCHANGED <<now, maker, target, replaced, stripe, events, again, job, due, marked>>

-----------------------------------------------------------------------------
(* Stripe (external) *)

StripeOnly == UNCHANGED <<now, rows, maker, target, asked, replaced, again, job, due, marked>>

\* The period is over: the next one is charged, or the charge fails.
StripeRenews(r) ==
    /\ stripe[r].status = "active"
    /\ stripe[r].end <= now
    /\ stripe[r].end + Period < MaxTime
    /\ LET end == stripe[r].end + Period IN
         \/ /\ stripe' = [stripe EXCEPT ![r].end = end]
            /\ events' = events \cup {Sent("updated", r, "active", end),
                                      Sent("paid", r, "active", end)}
         \/ /\ stripe' = [stripe EXCEPT ![r] = [status |-> "past_due", end |-> end]]
            /\ events' = events \cup {Sent("updated", r, "past_due", end),
                                      Sent("failed", r, "past_due", end)}
    /\ StripeOnly

\* A retry of the charge succeeds, or Stripe gives the subscription up.
StripeRetries(r) ==
    /\ stripe[r].status = "past_due"
    /\ \/ /\ stripe' = [stripe EXCEPT ![r].status = "active"]
          /\ events' = events \cup {Sent("updated", r, "active", stripe[r].end),
                                    Sent("paid", r, "active", stripe[r].end)}
       \/ /\ stripe' = [stripe EXCEPT ![r].status = "canceled"]
          /\ events' = events \cup {Sent("deleted", r, "canceled", stripe[r].end)}
    /\ StripeOnly

-----------------------------------------------------------------------------
(* Webhook handlers: each finds the row by its Stripe id and overwrites it *)

HandlerOnly == UNCHANGED <<now, maker, target, asked, replaced, stripe, job, due, marked>>

handleSubscriptionUpdated(e) ==
    /\ e.type = "updated"
    /\ rows' = [rows EXCEPT ![e.row] =
                  [status |-> CASE e.status = "canceled" -> "CANCELLED"
                                [] e.status = "past_due" -> "PAST_DUE"
                                [] OTHER -> "ACTIVE",
                   end |-> e.end,
                   cancelAt |-> Never]]

handleSubscriptionDeleted(e) ==
    /\ e.type = "deleted"
    /\ rows' = [rows EXCEPT ![e.row].status = "CANCELLED"]

handleInvoicePaymentSucceeded(e) ==
    /\ e.type = "paid"
    /\ rows' = [rows EXCEPT ![e.row].status = "ACTIVE", ![e.row].end = e.end]

\* Mutant: Stripe's word for the status is stored as it is.
handleInvoicePaymentFailedRaw(e) ==
    /\ e.type = "failed"
    /\ rows' = [rows EXCEPT ![e.row].status = e.status]

handleInvoicePaymentFailed(e) ==
    /\ e.type = "failed"
    /\ rows' = [rows EXCEPT ![e.row].status = "PAST_DUE"]

processEvent(e) ==
    /\ \/ handleSubscriptionUpdated(e)
       \/ handleSubscriptionDeleted(e)
       \/ handleInvoicePaymentSucceeded(e)
       \/ handleInvoicePaymentFailed(e)
    /\ \/ events' = events \ {e} /\ again' = again
       \/ events' = events /\ again > 0 /\ again' = again - 1
    /\ HandlerOnly

\* Processing failed or the server stopped, after the 200.
LoseEvent(e) ==
    /\ events' = events \ {e}
    /\ UNCHANGED <<rows, again>>
    /\ HandlerOnly

-----------------------------------------------------------------------------
(* The daily job: CommonModule, which schedules it, is part of the API server, *)
(* of every worker and of the scheduler, so each of them runs it at midnight.  *)

JobOnly == UNCHANGED <<now, maker, target, asked, replaced, stripe, events, again>>

\* Mutant: Op.lte in place of Op.lt.
checkExpiredSubscriptionsLte(p) ==
    /\ job[p] = "idle"
    /\ job' = [job EXCEPT ![p] = "expiring"]
    /\ due' = [due EXCEPT ![p] = [r \in Row |->
                 IF rows[r].end > now THEN "no"
                 ELSE IF rows[r].status = "TRIAL" THEN "trial"
                 ELSE IF rows[r].status \in {"ACTIVE", "PAST_DUE"} THEN "paid"
                 ELSE "no"]]
    /\ UNCHANGED <<rows, marked>>
    /\ JobOnly

\* Mutant: trials are left out of the list.
checkExpiredSubscriptionsNoTrials(p) ==
    /\ job[p] = "idle"
    /\ job' = [job EXCEPT ![p] = "expiring"]
    /\ due' = [due EXCEPT ![p] = [r \in Row |->
                 IF rows[r].end >= now THEN "no"
                 ELSE IF rows[r].status \in {"ACTIVE", "PAST_DUE"} THEN "paid"
                 ELSE "no"]]
    /\ UNCHANGED <<rows, marked>>
    /\ JobOnly

\* The list of rows past their period end, with the status they have now.
checkExpiredSubscriptions(p) ==
    /\ job[p] = "idle"
    /\ job' = [job EXCEPT ![p] = "expiring"]
    /\ due' = [due EXCEPT ![p] = [r \in Row |->
                 IF rows[r].end >= now THEN "no"
                 ELSE IF rows[r].status = "TRIAL" THEN "trial"
                 ELSE IF rows[r].status \in {"ACTIVE", "PAST_DUE"} THEN "paid"
                 ELSE "no"]]
    /\ UNCHANGED <<rows, marked>>
    /\ JobOnly

\* handleTrialExpiry re-reads the status, handleSubscriptionExpiry only cancelAt.
handleExpiryRead(p, r) ==
    /\ job[p] = "expiring"
    /\ marked[p] = None
    /\ due[p][r] # "no"
    /\ IF \/ due[p][r] = "trial" /\ rows[r].status = "TRIAL"
          \/ due[p][r] = "paid" /\ rows[r].cancelAt = Never
       THEN marked' = [marked EXCEPT ![p] = r] /\ due' = due
       ELSE marked' = marked /\ due' = [due EXCEPT ![p][r] = "no"]
    /\ UNCHANGED <<rows, job>>
    /\ JobOnly

\* The update that follows the re-read.
handleExpiryWrite(p, r) ==
    /\ job[p] = "expiring"
    /\ marked[p] = r
    /\ rows' = [rows EXCEPT ![r].status = "CANCELLED"]
    /\ marked' = [marked EXCEPT ![p] = None]
    /\ due' = [due EXCEPT ![p][r] = "no"]
    /\ UNCHANGED job
    /\ JobOnly

\* Once the expired rows are done: the list of rows whose cancelAt has passed.
processScheduledCancellations(p) ==
    /\ job[p] = "expiring"
    /\ marked[p] = None
    /\ \A r \in Row : due[p][r] = "no"
    /\ job' = [job EXCEPT ![p] = "cancelling"]
    /\ due' = [due EXCEPT ![p] = [r \in Row |->
                 IF Present(r) /\ rows[r].status # "CANCELLED" /\ rows[r].cancelAt <= now
                 THEN "paid" ELSE "no"]]
    /\ UNCHANGED <<rows, marked>>
    /\ JobOnly

cancelScheduled(p, r) ==
    /\ job[p] = "cancelling"
    /\ due[p][r] # "no"
    /\ rows' = [rows EXCEPT ![r].status = "CANCELLED"]
    /\ due' = [due EXCEPT ![p][r] = "no"]
    /\ UNCHANGED <<job, marked>>
    /\ JobOnly

jobEnds(p) ==
    /\ job[p] = "cancelling"
    /\ \A r \in Row : due[p][r] = "no"
    /\ job' = [job EXCEPT ![p] = "idle"]
    /\ UNCHANGED <<rows, due, marked>>
    /\ JobOnly

-----------------------------------------------------------------------------
JobStep(p) ==
    \/ checkExpiredSubscriptions(p)
    \/ processScheduledCancellations(p)
    \/ jobEnds(p)
    \/ \E r \in Row : handleExpiryRead(p, r) \/ handleExpiryWrite(p, r) \/ cancelScheduled(p, r)

Next ==
    \/ Tick
    \/ \E r \in Row : \/ processPayment(r) \/ createDefaultSubscription(r)
                      \/ adminUpgradeFind(r) \/ createSubscriptionCheck(r)
                      \/ createSubscriptionInsert(r) \/ cancelSubscription(r)
                      \/ cancelSubscriptionWrite(r)
                      \/ StripeRenews(r) \/ StripeRetries(r)
    \/ \E e \in events : processEvent(e) \/ LoseEvent(e)
    \/ \E p \in Process : JobStep(p)

Spec == Init /\ [][Next]_vars

\* Days pass, every process starts the job at midnight and its loop goes on, and
\* a delivered event is handled or lost; users and Stripe owe nothing.
FairSpec ==
    /\ Spec
    /\ WF_vars(Tick)
    /\ \A p \in Process : WF_vars(JobStep(p))
    /\ WF_vars(\E e \in events : processEvent(e) \/ LoseEvent(e))

-----------------------------------------------------------------------------
(* Properties *)

TypeOK ==
    /\ now \in Time
    /\ rows \in [Row -> [status: Status, end: Time, cancelAt: Time \cup {Never}]]
    /\ maker \in [Row -> {"free", "found", "checked", "made"}]
    /\ target \in [Row -> Row \cup {None}]
    /\ asked \in [Row -> Time \cup {Never}]
    /\ replaced \subseteq Row
    /\ stripe \in [Row -> [status: {"none", "active", "past_due", "canceled"}, end: Time]]
    /\ events \subseteq Event
    /\ again \in 0..Redeliveries
    /\ job \in [Process -> {"idle", "expiring", "cancelling"}]
    /\ due \in [Process -> Listing]
    /\ marked \in [Process -> Row \cup {None}]

ClosedForAReason(r) ==
    rows[r].status = "CANCELLED" =>
        rows[r].end < now \/ rows[r].cancelAt <= now \/ r \in replaced

\* Without Stripe, no row is closed before its period is over, unless the user's
\* cancellation is due or another row took its place: neither the job's stale
\* list, nor its re-read, nor a request that comes between them cuts access short.
PaidTimeIsKept == \A r \in Row \ StripeRow : ClosedForAReason(r)

\* A row that nothing will renew any more, as it never had a Stripe subscription
\* or Stripe has cancelled it, ends up CANCELLED for good, whatever events are
\* late, repeated or lost: the daily job closes what they left or brought back.
UnpaidRowsClose ==
    \A r \in Row :
        (Present(r) /\ stripe[r].status \in {"none", "canceled"})
            ~> [](rows[r].status = "CANCELLED")

\* handleSubscriptionExpiry: cancel if no renewal payment.  The job never closes
\* a row whose period, renewed and paid, has not ended.
RenewedRowIsKept ==
    [][\A p \in Process, r \in Row :
           marked[p] = r /\ marked'[p] = None => rows[r].end < now]_vars

\* cancelSubscription: the row keeps its status until cancelAt and the scheduler
\* then makes it CANCELLED.  Nothing takes the date back while the row is live.
CancellationStands ==
    [][\A r \in Row : Live(r) /\ rows[r].cancelAt # Never =>
           rows'[r].cancelAt # Never \/ rows'[r].status = "CANCELLED"]_vars

\* The comment of createSubscription: checking for a live row and creating the
\* new one is atomic.  A request that passed the check creates its row only
\* while there is still no live row but the one it has closed itself.
CheckAndCreateAtomic ==
    [][\A r \in Row : maker[r] = "checked" /\ maker'[r] = "made" =>
           \A q \in Row \ {r, target[r]} : ~Live(q)]_vars
=============================================================================
