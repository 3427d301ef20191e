---------------------- MODULE SubscriptionLifecycleProofs ----------------------
(***************************************************************************)
(* Proofs about SubscriptionLifecycle for any rows, period and clock: types*)
(* and the access a paid row without Stripe keeps.                         *)
(*                                                                         *)
(* The job closes what a list it made earlier names.  For a row that no    *)
(* Stripe event rewrites the list stays right (ListStaysRight): the period *)
(* end never moves, time only advances, and a request can set cancelAt to  *)
(* nothing but that same period end.                                       *)
(***************************************************************************)
EXTENDS SubscriptionLifecycle, TLAPS

\* A request makes its row once.
MadeOnce == \A r \in Row : Present(r) <=> maker[r] = "made"

\* What an admin upgrade found is a row that exists.
TargetPresent == \A r \in Row : target[r] # None => Present(target[r])

\* Events concern rows billed by Stripe only, and only once they are made.
EventsOfStripeRows ==
    /\ \A r \in Row : stripe[r].status # "none" => r \in StripeRow /\ Present(r)
    /\ \A e \in events : e.row \in StripeRow /\ Present(e.row)

\* Without Stripe, a live row is cancelled at its period end or not at all.
CancelAtPeriodEnd ==
    \A r \in Row \ StripeRow :
        rows[r].cancelAt = Never \/ rows[r].cancelAt = rows[r].end \/ r \in replaced

\* Nor does a cancellation in progress name another date.
AskedIsPeriodEnd ==
    \A r \in Row : /\ asked[r] # Never => Present(r)
                   /\ r \notin StripeRow => asked[r] = Never \/ asked[r] = rows[r].end

\* The list of the job that runs in p is still right when the job acts on it.
ListRight(p) ==
    /\ job[p] = "idle" => \A r \in Row : due[p][r] = "no"
    /\ \A r \in Row : due[p][r] # "no" => Present(r)
    /\ marked[p] # None => job[p] = "expiring" /\ due[p][marked[p]] # "no"
    /\ \A r \in Row \ StripeRow :
         /\ job[p] = "expiring" /\ due[p][r] # "no" => rows[r].end < now
         /\ job[p] = "cancelling" /\ due[p][r] # "no" =>
              rows[r].cancelAt <= now \/ r \in replaced

ListStaysRight == \A p \in Process : ListRight(p)

IInv ==
    /\ MadeOnce
    /\ TargetPresent
    /\ EventsOfStripeRows
    /\ CancelAtPeriodEnd
    /\ AskedIsPeriodEnd
    /\ ListStaysRight
    /\ PaidTimeIsKept

-----------------------------------------------------------------------------
\* Every variable keeps its type, for any rows, period and bound on the clock.
THEOREM TypeCorrect == Spec => []TypeOK
<1>1. Init => TypeOK
  BY LifecycleAssumption DEF Init, TypeOK, Time, Never, Status, Event, Listing
<1>2. TypeOK /\ [Next]_vars => TypeOK'
  <2> SUFFICES ASSUME TypeOK, [Next]_vars PROVE TypeOK'
    OBVIOUS
  <2> DEFINE Rows == [status: Status, end: Time, cancelAt: Time \cup {Never}]
             StripeRows == [status: {"none", "active", "past_due", "canceled"}, end: Time]
  <2> USE LifecycleAssumption DEF TypeOK, Time, Never, Status
  <2>1. CASE Tick
    BY <2>1 DEF Tick
  <2>2. ASSUME NEW r \in Row, processPayment(r) PROVE TypeOK'
    <3>1. PICK e \in {q \in Row : Present(q)} \cup {None} :
            \E cancelled \in SUBSET {q \in Row : q = e /\ r \in StripeRow
                                    /\ stripe[q].status \in {"active", "past_due"}} :
                Replace(r, e, cancelled)
      BY <2>2 DEF processPayment
    <3>2. PICK cancelled \in SUBSET Row : Replace(r, e, cancelled)
      BY <3>1
    <3>3. now + Period \in Time
      BY <2>2 DEF processPayment
    <3>4. rows' \in [Row -> Rows]
      BY <3>2, <3>3 DEF Replace, NewRow
    <3>5. /\ [status |-> "active", end |-> now + Period] \in StripeRows
          /\ \A q \in Row : [stripe[q] EXCEPT !.status = "canceled"] \in StripeRows
      BY <3>3
    <3>6. stripe' \in [Row -> StripeRows]
      BY <3>2, <3>5 DEF Replace
    <3>7. \A q \in Row : Sent("deleted", q, "canceled", stripe[q].end) \in Event
      BY DEF Sent, Event
    <3>8. events' \subseteq Event /\ replaced' \subseteq Row
      BY <3>2, <3>7 DEF Replace
    <3> QED
      BY <2>2, <3>4, <3>6, <3>8 DEF processPayment
  <2>3. ASSUME NEW r \in Row, createDefaultSubscription(r) PROVE TypeOK'
    BY <2>3 DEF createDefaultSubscription, NewRow
  <2>4. ASSUME NEW r \in Row, adminUpgradeFind(r) PROVE TypeOK'
    BY <2>4 DEF adminUpgradeFind
  <2>5. ASSUME NEW r \in Row, createSubscriptionCheck(r) PROVE TypeOK'
    BY <2>5 DEF createSubscriptionCheck
  <2>6. ASSUME NEW r \in Row, createSubscriptionInsert(r) PROVE TypeOK'
    <3>1. now + Period \in Time
      BY <2>6 DEF createSubscriptionInsert
    <3>2. rows' \in [Row -> Rows]
      BY <2>6, <3>1 DEF createSubscriptionInsert, NewRow
    <3> QED
      BY <2>6, <3>2 DEF createSubscriptionInsert
  <2>7. ASSUME NEW r \in Row, cancelSubscription(r) PROVE TypeOK'
    BY <2>7 DEF cancelSubscription
  <2>8. ASSUME NEW r \in Row, cancelSubscriptionWrite(r) PROVE TypeOK'
    BY <2>8 DEF cancelSubscriptionWrite
  <2>9. ASSUME NEW r \in Row, StripeRenews(r) PROVE TypeOK'
    <3>1. stripe[r].end + Period \in Time
      BY <2>9 DEF StripeRenews
    <3>2. /\ [stripe[r] EXCEPT !.end = stripe[r].end + Period] \in StripeRows
          /\ [status |-> "past_due", end |-> stripe[r].end + Period] \in StripeRows
      BY <3>1
    <3>3. \/ stripe' = [stripe EXCEPT ![r].end = stripe[r].end + Period]
          \/ stripe' = [stripe EXCEPT ![r] = [status |-> "past_due",
                                             end |-> stripe[r].end + Period]]
      BY <2>9 DEF StripeRenews
    <3>4. stripe' \in [Row -> StripeRows]
      BY <3>2, <3>3
    <3>5. events' \subseteq Event
      BY <2>9, <3>1 DEF StripeRenews, Sent, Event
    <3> QED
      BY <2>9, <3>4, <3>5 DEF StripeRenews, StripeOnly
  <2>10. ASSUME NEW r \in Row, StripeRetries(r) PROVE TypeOK'
    <3>1. stripe' \in [Row -> StripeRows]
      BY <2>10 DEF StripeRetries
    <3>2. events' \subseteq Event
      BY <2>10 DEF StripeRetries, Sent, Event
    <3> QED
      BY <2>10, <3>1, <3>2 DEF StripeRetries, StripeOnly
  <2>11. ASSUME NEW e \in events, processEvent(e) PROVE TypeOK'
    <3>1. e.row \in Row /\ e.end \in Time /\ rows \in [Row -> Rows]
      BY DEF Event
    <3>2. rows' \in [Row -> Rows]
      <4> HIDE DEF TypeOK
      <4>1. CASE handleSubscriptionUpdated(e)
        BY <4>1, <3>1 DEF handleSubscriptionUpdated
      <4>2. CASE handleSubscriptionDeleted(e)
        BY <4>2, <3>1 DEF handleSubscriptionDeleted
      <4>3. CASE handleInvoicePaymentSucceeded(e)
        BY <4>3, <3>1 DEF handleInvoicePaymentSucceeded
      <4>4. CASE handleInvoicePaymentFailed(e)
        BY <4>4, <3>1 DEF handleInvoicePaymentFailed
      <4> QED
        BY <2>11, <4>1, <4>2, <4>3, <4>4 DEF processEvent
    <3> QED
      BY <2>11, <3>2 DEF processEvent, HandlerOnly
  <2>12. ASSUME NEW e \in events, LoseEvent(e) PROVE TypeOK'
    BY <2>12 DEF LoseEvent, HandlerOnly
  <2>13. ASSUME NEW p \in Process, JobStep(p) PROVE TypeOK'
    <3>1. CASE checkExpiredSubscriptions(p)
      BY <3>1 DEF checkExpiredSubscriptions, JobOnly, Listing
    <3>2. CASE processScheduledCancellations(p)
      BY <3>2 DEF processScheduledCancellations, JobOnly, Listing
    <3>3. CASE jobEnds(p)
      BY <3>3 DEF jobEnds, JobOnly
    <3>4. ASSUME NEW r \in Row, handleExpiryRead(p, r) PROVE TypeOK'
      <4>1. [due[p] EXCEPT ![r] = "no"] \in Listing
        BY DEF Listing
      <4>2. due' = due \/ due' = [due EXCEPT ![p] = [due[p] EXCEPT ![r] = "no"]]
        BY <3>4 DEF handleExpiryRead
      <4>3. due' \in [Process -> Listing]
        BY <4>1, <4>2
      <4> QED
        BY <3>4, <4>3 DEF handleExpiryRead, JobOnly
    <3>5. ASSUME NEW r \in Row, handleExpiryWrite(p, r) PROVE TypeOK'
      <4>1. [due[p] EXCEPT ![r] = "no"] \in Listing
        BY DEF Listing
      <4>2. due' = due \/ due' = [due EXCEPT ![p] = [due[p] EXCEPT ![r] = "no"]]
        BY <3>5 DEF handleExpiryWrite
      <4>3. due' \in [Process -> Listing]
        BY <4>1, <4>2
      <4> QED
        BY <3>5, <4>3 DEF handleExpiryWrite, JobOnly
    <3>6. ASSUME NEW r \in Row, cancelScheduled(p, r) PROVE TypeOK'
      <4>1. [due[p] EXCEPT ![r] = "no"] \in Listing
        BY DEF Listing
      <4>2. due' = due \/ due' = [due EXCEPT ![p] = [due[p] EXCEPT ![r] = "no"]]
        BY <3>6 DEF cancelScheduled
      <4>3. due' \in [Process -> Listing]
        BY <4>1, <4>2
      <4>4. rows' \in [Row -> Rows]
        BY <3>6 DEF cancelScheduled
      <4>5. job' = job /\ marked' = marked /\ JobOnly
        BY <3>6 DEF cancelScheduled
      <4> QED
        BY <4>3, <4>4, <4>5 DEF JobOnly
    <3> QED
      BY <2>13, <3>1, <3>2, <3>3, <3>4, <3>5, <3>6 DEF JobStep
  <2>14. CASE UNCHANGED vars
    BY <2>14 DEF vars
  <2> QED
    BY <2>1, <2>2, <2>3, <2>4, <2>5, <2>6, <2>7, <2>8, <2>9, <2>10, <2>11, <2>12, <2>13, <2>14
       DEF Next
<1> QED
  BY <1>1, <1>2, PTL DEF Spec

-----------------------------------------------------------------------------
LEMMA InitInv == Init => IInv
BY LifecycleAssumption
   DEF Init, IInv, MadeOnce, TargetPresent, EventsOfStripeRows, CancelAtPeriodEnd,
       AskedIsPeriodEnd, ListStaysRight, ListRight, PaidTimeIsKept, ClosedForAReason, Present, Never

\* A request makes a row, closes what it replaces or asks for a cancellation.
LEMMA RequestStep ==
    ASSUME TypeOK, IInv, NEW r \in Row,
           \/ processPayment(r)
           \/ createDefaultSubscription(r)
           \/ adminUpgradeFind(r)
           \/ createSubscriptionCheck(r)
           \/ createSubscriptionInsert(r)
           \/ cancelSubscription(r)
           \/ cancelSubscriptionWrite(r)
    PROVE  IInv'
<1> USE LifecycleAssumption DEF TypeOK, Time, Never, Status
<1>0. /\ MadeOnce /\ TargetPresent /\ EventsOfStripeRows
      /\ CancelAtPeriodEnd /\ AskedIsPeriodEnd /\ ListStaysRight /\ PaidTimeIsKept
  BY DEF IInv
<1>1. CASE processPayment(r)
  <2>1. maker' = [maker EXCEPT ![r] = "made"] /\ maker[r] = "free"
    BY <1>1 DEF processPayment
  <2>2. UNCHANGED <<now, target, job, due, marked>>
    BY <1>1 DEF processPayment
  <2>3. PICK e \in {q \in Row : Present(q)} \cup {None} :
          \E cancelled \in SUBSET {q \in Row : q = e /\ r \in StripeRow
                                  /\ stripe[q].status \in {"active", "past_due"}} :
              Replace(r, e, cancelled)
    BY <1>1 DEF processPayment
  <2>4. PICK cancelled \in SUBSET {q \in Row : q = e /\ r \in StripeRow
                                  /\ stripe[q].status \in {"active", "past_due"}} :
            Replace(r, e, cancelled)
    BY <2>3
  <2>5. ~Present(r) /\ e # r
    BY <1>0, <2>1, <2>3 DEF MadeOnce
  <2>6. \A q \in Row : /\ Present(q) => Present(q)'
                       /\ q # r => (Present(q)' <=> Present(q))
    BY <2>4, <2>5 DEF Present, Replace, NewRow
  <2>7. Present(r)'
    BY <2>4 DEF Present, Replace, NewRow
  <2>8. MadeOnce'
    BY <1>0, <2>1, <2>6, <2>7 DEF MadeOnce
  <2>9. TargetPresent'
    BY <1>0, <2>2, <2>6 DEF TargetPresent
  <2>10. EventsOfStripeRows'
    BY <1>0, <2>4, <2>6, <2>7 DEF EventsOfStripeRows, Replace, Sent
  <2>11. CancelAtPeriodEnd'
    BY <1>0, <2>4 DEF CancelAtPeriodEnd, Replace, NewRow
  <2>12. ListStaysRight'
    BY <1>0, <2>2, <2>4, <2>5, <2>6 DEF ListStaysRight, ListRight, Replace, NewRow
  <2>13. PaidTimeIsKept'
    BY <1>0, <2>2, <2>4 DEF PaidTimeIsKept, ClosedForAReason, Replace, NewRow
  <2>14. AskedIsPeriodEnd'
    <3>1. asked' = asked
      BY <1>1 DEF processPayment
    <3> QED
      <4>1. \A q \in Row : q # r => rows'[q].end = rows[q].end
        BY <2>4 DEF Replace
      <4>2. asked[r] = Never
        BY <1>0, <2>5 DEF AskedIsPeriodEnd
      <4> QED
        BY <1>0, <2>6, <3>1, <4>1, <4>2 DEF AskedIsPeriodEnd
  <2> QED
    BY <2>8, <2>9, <2>10, <2>11, <2>12, <2>13, <2>14 DEF IInv
<1>2. CASE createDefaultSubscription(r)
  <2>1. ~Present(r) /\ Present(r)' /\ \A q \in Row \ {r} : rows'[q] = rows[q]
    BY <1>0, <1>2 DEF createDefaultSubscription, MadeOnce, Present, NewRow
  <2>2. MadeOnce'
    BY <1>0, <1>2, <2>1 DEF createDefaultSubscription, MadeOnce, Present
  <2>3. TargetPresent' /\ EventsOfStripeRows'
    BY <1>0, <1>2, <2>1 DEF createDefaultSubscription, TargetPresent, EventsOfStripeRows, Present
  <2>4. CancelAtPeriodEnd' /\ PaidTimeIsKept'
    BY <1>0, <1>2, <2>1 DEF createDefaultSubscription, CancelAtPeriodEnd, PaidTimeIsKept,
                            ClosedForAReason, NewRow
  <2>5. ListStaysRight'
    BY <1>0, <1>2, <2>1 DEF createDefaultSubscription, ListStaysRight, ListRight, Present
  <2>6. AskedIsPeriodEnd'
    BY <1>0, <1>2, <2>1 DEF createDefaultSubscription, AskedIsPeriodEnd, Present
  <2> QED
    BY <2>2, <2>3, <2>4, <2>5, <2>6 DEF IInv
<1>3. CASE adminUpgradeFind(r)
  BY <1>0, <1>3 DEF adminUpgradeFind, IInv, MadeOnce, TargetPresent, EventsOfStripeRows,
     CancelAtPeriodEnd, AskedIsPeriodEnd, ListStaysRight, ListRight, PaidTimeIsKept, ClosedForAReason,
     Present, Live
<1>4. CASE createSubscriptionCheck(r)
  <2>1. /\ \A q \in Row : maker'[q] = "made" <=> maker[q] = "made"
        /\ \A q \in Row : target'[q] = target[q] \/ target'[q] = None
    BY <1>4 DEF createSubscriptionCheck
  <2>2. UNCHANGED <<now, rows, asked, replaced, stripe, events, job, due, marked>>
    BY <1>4 DEF createSubscriptionCheck
  <2>3. MadeOnce' /\ TargetPresent'
    BY <1>0, <2>1, <2>2 DEF MadeOnce, TargetPresent, Present
  <2>4. /\ EventsOfStripeRows' /\ CancelAtPeriodEnd' /\ AskedIsPeriodEnd'
        /\ ListStaysRight' /\ PaidTimeIsKept'
    BY <1>0, <2>2 DEF EventsOfStripeRows, CancelAtPeriodEnd, AskedIsPeriodEnd, ListStaysRight, ListRight,
                      PaidTimeIsKept, ClosedForAReason, Present
  <2> QED
    BY <2>3, <2>4 DEF IInv
<1>5. CASE createSubscriptionInsert(r)
  <2>1. ~Present(r) /\ target[r] # r
    BY <1>0, <1>5 DEF createSubscriptionInsert, MadeOnce, TargetPresent
  <2>2. Present(r)' /\ \A q \in Row \ {r} : Present(q)' <=> Present(q)
    BY <1>0, <1>5, <2>1 DEF createSubscriptionInsert, TargetPresent, Present, NewRow
  <2>3. MadeOnce'
    BY <1>0, <1>5, <2>2 DEF createSubscriptionInsert, MadeOnce
  <2>4. TargetPresent' /\ EventsOfStripeRows'
    BY <1>0, <1>5, <2>2 DEF createSubscriptionInsert, TargetPresent, EventsOfStripeRows
  <2>5. CancelAtPeriodEnd' /\ PaidTimeIsKept'
    BY <1>0, <1>5, <2>1 DEF createSubscriptionInsert, CancelAtPeriodEnd, PaidTimeIsKept,
                            ClosedForAReason, NewRow
  <2>6. ListStaysRight'
    BY <1>0, <1>5, <2>1, <2>2 DEF createSubscriptionInsert, ListStaysRight, ListRight
  <2>7. AskedIsPeriodEnd'
    BY <1>0, <1>5, <2>1, <2>2 DEF createSubscriptionInsert, AskedIsPeriodEnd
  <2> QED
    BY <2>3, <2>4, <2>5, <2>6, <2>7 DEF IInv
<1>6. CASE cancelSubscription(r)
  BY <1>0, <1>6 DEF cancelSubscription, IInv, MadeOnce, TargetPresent, EventsOfStripeRows,
     CancelAtPeriodEnd, AskedIsPeriodEnd, ListStaysRight, ListRight, PaidTimeIsKept,
     ClosedForAReason, Present, Live
<1>7. CASE cancelSubscriptionWrite(r)
  <2>1. /\ Present(r)
        /\ \A q \in Row : rows'[q].status = rows[q].status /\ rows'[q].end = rows[q].end
        /\ r \notin StripeRow => rows'[r].cancelAt = rows[r].end
        /\ \A q \in Row \ {r} : rows'[q] = rows[q]
    BY <1>0, <1>7 DEF cancelSubscriptionWrite, AskedIsPeriodEnd
  <2>2. MadeOnce' /\ TargetPresent' /\ EventsOfStripeRows' /\ AskedIsPeriodEnd'
    BY <1>0, <1>7, <2>1 DEF cancelSubscriptionWrite, MadeOnce, TargetPresent,
                            EventsOfStripeRows, AskedIsPeriodEnd, Present
  <2>3. CancelAtPeriodEnd'
    BY <1>0, <1>7, <2>1 DEF cancelSubscriptionWrite, CancelAtPeriodEnd
  <2>4. PaidTimeIsKept'
    BY <1>0, <1>7, <2>1 DEF cancelSubscriptionWrite, CancelAtPeriodEnd, PaidTimeIsKept,
                            ClosedForAReason
  <2>5. ListStaysRight'
    BY <1>0, <1>7, <2>1 DEF cancelSubscriptionWrite, ListStaysRight, ListRight, CancelAtPeriodEnd, Present
  <2> QED
    BY <2>2, <2>3, <2>4, <2>5 DEF IInv
<1> QED
  BY <1>1, <1>2, <1>3, <1>4, <1>5, <1>6, <1>7

\* Stripe changes its own subscriptions and sends events about them.
LEMMA StripeStep ==
    ASSUME TypeOK, IInv, NEW r \in Row, StripeRenews(r) \/ StripeRetries(r)
    PROVE  IInv'
<1>1. UNCHANGED <<now, rows, maker, target, asked, replaced, job, due, marked>>
  BY DEF StripeRenews, StripeRetries, StripeOnly
<1>2. /\ MadeOnce' /\ TargetPresent' /\ CancelAtPeriodEnd' /\ AskedIsPeriodEnd'
      /\ ListStaysRight' /\ PaidTimeIsKept'
  BY <1>1 DEF IInv, MadeOnce, TargetPresent, CancelAtPeriodEnd, AskedIsPeriodEnd, ListStaysRight, ListRight,
              PaidTimeIsKept, ClosedForAReason, Present
<1>3. r \in StripeRow /\ Present(r)
  BY DEF IInv, EventsOfStripeRows, StripeRenews, StripeRetries
<1>4. /\ \A q \in Row : stripe'[q].status # "none" => stripe[q].status # "none"
      /\ \A e \in events' : e \in events \/ e.row = r
  BY DEF StripeRenews, StripeRetries, Sent, TypeOK
<1>5. EventsOfStripeRows'
  BY <1>1, <1>3, <1>4 DEF IInv, EventsOfStripeRows, Present
<1> QED
  BY <1>2, <1>5 DEF IInv

\* A handler writes the row of its event, which exists and is billed by Stripe.
LEMMA WebhookStep ==
    ASSUME TypeOK, IInv, NEW e \in events, processEvent(e) \/ LoseEvent(e)
    PROVE  IInv'
<1>1. e.row \in StripeRow /\ Present(e.row) /\ e.row \in Row
  BY LifecycleAssumption DEF IInv, EventsOfStripeRows
<1>2. UNCHANGED <<now, maker, target, asked, replaced, stripe, job, due, marked>>
  BY DEF processEvent, LoseEvent, HandlerOnly
<1>3. events' \subseteq events
  BY DEF processEvent, LoseEvent
<1>4. \A q \in Row \ {e.row} : rows'[q] = rows[q]
  BY DEF TypeOK, processEvent, LoseEvent, handleSubscriptionUpdated, handleSubscriptionDeleted,
         handleInvoicePaymentSucceeded, handleInvoicePaymentFailed
<1>5. Present(e.row)'
  <2>1. CASE handleSubscriptionUpdated(e)
    BY <1>1, <2>1 DEF TypeOK, handleSubscriptionUpdated, Present
  <2>2. CASE handleSubscriptionDeleted(e)
    BY <1>1, <2>2 DEF TypeOK, handleSubscriptionDeleted, Present
  <2>3. CASE handleInvoicePaymentSucceeded(e)
    BY <1>1, <2>3 DEF TypeOK, handleInvoicePaymentSucceeded, Present
  <2>4. CASE handleInvoicePaymentFailed(e)
    BY <1>1, <2>4 DEF TypeOK, handleInvoicePaymentFailed, Present
  <2>5. CASE LoseEvent(e)
    BY <1>1, <2>5 DEF LoseEvent, Present
  <2> QED
    BY <2>1, <2>2, <2>3, <2>4, <2>5 DEF processEvent
<1>6. \A q \in Row : Present(q)' <=> Present(q)
  BY <1>1, <1>4, <1>5 DEF Present
<1>7. MadeOnce' /\ TargetPresent' /\ EventsOfStripeRows'
  BY <1>1, <1>2, <1>3, <1>6 DEF IInv, MadeOnce, TargetPresent, EventsOfStripeRows, TypeOK, Event
<1>8. CancelAtPeriodEnd' /\ PaidTimeIsKept'
  BY <1>1, <1>2, <1>4 DEF IInv, CancelAtPeriodEnd, PaidTimeIsKept, ClosedForAReason
<1>10. AskedIsPeriodEnd'
  BY <1>1, <1>2, <1>4, <1>6 DEF IInv, AskedIsPeriodEnd
<1>9. ListStaysRight'
  BY <1>1, <1>2, <1>4, <1>6 DEF IInv, ListStaysRight, ListRight
<1> QED
  BY <1>7, <1>8, <1>9, <1>10 DEF IInv

\* The job lists rows, and closes a listed row for the reason it was listed.
LEMMA JobInv ==
    ASSUME TypeOK, IInv, NEW p \in Process, JobStep(p)
    PROVE  IInv'
<1> USE LifecycleAssumption DEF TypeOK, Time, Never, Listing
<1>0. /\ MadeOnce /\ TargetPresent /\ EventsOfStripeRows
      /\ CancelAtPeriodEnd /\ AskedIsPeriodEnd /\ ListStaysRight /\ PaidTimeIsKept
  BY DEF IInv
<1>1. ASSUME JobOnly,
             \A q \in Row : Present(q)' <=> Present(q),
             \A q \in Row : rows'[q].end = rows[q].end /\ rows'[q].cancelAt = rows[q].cancelAt,
             \A o \in Process \ {p} :
                 job'[o] = job[o] /\ due'[o] = due[o] /\ marked'[o] = marked[o],
             PaidTimeIsKept', ListRight(p)'
      PROVE  IInv'
  <2>1. ASSUME NEW o \in Process \ {p} PROVE ListRight(o)'
    BY <1>0, <1>1 DEF ListStaysRight, ListRight, JobOnly
  <2>2. ListStaysRight'
    BY <1>1, <2>1 DEF ListStaysRight
  <2> QED
    BY <1>0, <1>1, <2>2 DEF IInv, JobOnly, MadeOnce, TargetPresent, EventsOfStripeRows,
                            CancelAtPeriodEnd, AskedIsPeriodEnd
<1>2. ASSUME JobOnly, UNCHANGED rows, ListRight(p)',
             \A o \in Process \ {p} :
                 job'[o] = job[o] /\ due'[o] = due[o] /\ marked'[o] = marked[o]
      PROVE  IInv'
  BY <1>0, <1>1, <1>2 DEF JobOnly, Present, PaidTimeIsKept, ClosedForAReason
<1>3. CASE checkExpiredSubscriptions(p)
  <2>1. ListRight(p)'
    BY <1>0, <1>3 DEF checkExpiredSubscriptions, JobOnly, ListStaysRight, ListRight, Present
  <2> QED
    BY <1>2, <1>3, <2>1 DEF checkExpiredSubscriptions
<1>4. CASE processScheduledCancellations(p)
  <2>1. ListRight(p)'
    BY <1>0, <1>4 DEF processScheduledCancellations, JobOnly, ListStaysRight, ListRight, Present
  <2> QED
    BY <1>2, <1>4, <2>1 DEF processScheduledCancellations
<1>5. CASE jobEnds(p)
  <2>1. ListRight(p)'
    BY <1>0, <1>5 DEF jobEnds, JobOnly, ListStaysRight, ListRight, Present
  <2> QED
    BY <1>2, <1>5, <2>1 DEF jobEnds
<1>6. ASSUME NEW r \in Row, handleExpiryRead(p, r) PROVE IInv'
  <2>1. ListRight(p)'
    BY <1>0, <1>6 DEF handleExpiryRead, JobOnly, ListStaysRight, ListRight, Present
  <2> QED
    BY <1>2, <1>6, <2>1 DEF handleExpiryRead
<1>7. ASSUME NEW r \in Row, handleExpiryWrite(p, r) PROVE IInv'
  <2>1. /\ \A q \in Row : rows'[q].end = rows[q].end /\ rows'[q].cancelAt = rows[q].cancelAt
        /\ \A q \in Row \ {r} : rows'[q] = rows[q]
        /\ rows'[r].status = "CANCELLED" /\ r # None /\ job' = job
    BY <1>7 DEF handleExpiryWrite
  <2>2. Present(r)
    BY <1>0, <1>7, <2>1 DEF handleExpiryWrite, ListStaysRight, ListRight
  <2>3. \A q \in Row : Present(q)' <=> Present(q)
    BY <2>1, <2>2 DEF Present
  <2>4. PaidTimeIsKept'
    BY <1>0, <1>7, <2>1 DEF handleExpiryWrite, JobOnly, PaidTimeIsKept, ClosedForAReason,
                            ListStaysRight, ListRight
  <2>5. ListRight(p)'
    BY <1>0, <1>7, <2>1, <2>3 DEF handleExpiryWrite, JobOnly, ListStaysRight, ListRight
  <2> QED
    BY <1>1, <1>7, <2>1, <2>3, <2>4, <2>5 DEF handleExpiryWrite
<1>8. ASSUME NEW r \in Row, cancelScheduled(p, r) PROVE IInv'
  <2>1. /\ \A q \in Row : rows'[q].end = rows[q].end /\ rows'[q].cancelAt = rows[q].cancelAt
        /\ \A q \in Row \ {r} : rows'[q] = rows[q]
        /\ rows'[r].status = "CANCELLED" /\ job' = job /\ marked' = marked
    BY <1>8 DEF cancelScheduled
  <2>2. Present(r)
    BY <1>0, <1>8 DEF cancelScheduled, ListStaysRight, ListRight
  <2>3. \A q \in Row : Present(q)' <=> Present(q)
    BY <2>1, <2>2 DEF Present
  <2>4. PaidTimeIsKept'
    BY <1>0, <1>8, <2>1 DEF cancelScheduled, JobOnly, PaidTimeIsKept, ClosedForAReason,
                            ListStaysRight, ListRight
  <2>5. ListRight(p)'
    BY <1>0, <1>8, <2>1, <2>3 DEF cancelScheduled, JobOnly, ListStaysRight, ListRight
  <2> QED
    BY <1>1, <1>8, <2>1, <2>3, <2>4, <2>5 DEF cancelScheduled
<1> QED
  BY <1>3, <1>4, <1>5, <1>6, <1>7, <1>8 DEF JobStep

LEMMA Inductive == TypeOK /\ IInv /\ [Next]_vars => IInv'
<1> SUFFICES ASSUME TypeOK, IInv, [Next]_vars PROVE IInv'
  OBVIOUS
<1>1. CASE Tick
  <2>1. UNCHANGED <<rows, maker, target, asked, replaced, stripe, events, job, due, marked>>
        /\ now' = now + 1
    BY <1>1 DEF Tick
  <2>2. /\ MadeOnce' /\ TargetPresent' /\ EventsOfStripeRows'
        /\ CancelAtPeriodEnd' /\ AskedIsPeriodEnd'
    BY <2>1 DEF IInv, MadeOnce, TargetPresent, EventsOfStripeRows, CancelAtPeriodEnd,
                AskedIsPeriodEnd, Present
  <2>3. ListStaysRight'
    BY <2>1, LifecycleAssumption DEF IInv, ListStaysRight, ListRight, Present, TypeOK, Time, Never
  <2>4. PaidTimeIsKept'
    BY <2>1, LifecycleAssumption
       DEF IInv, PaidTimeIsKept, ClosedForAReason, TypeOK, Time, Never
  <2> QED
    BY <2>2, <2>3, <2>4 DEF IInv
<1>2. CASE UNCHANGED vars
  BY <1>2 DEF vars, IInv, MadeOnce, TargetPresent, EventsOfStripeRows, CancelAtPeriodEnd,
              AskedIsPeriodEnd, ListStaysRight, ListRight, PaidTimeIsKept, ClosedForAReason, Present
<1> QED
  BY <1>1, <1>2, RequestStep, StripeStep, WebhookStep, JobInv DEF Next

LEMMA Invariance == Spec => []IInv
BY InitInv, Inductive, TypeCorrect, PTL DEF Spec

\* For any rows, period and bounds: no row without Stripe is closed before its
\* period is over, unless a cancellation is due or another row replaced it,
\* however the daily job interleaves with requests.
THEOREM PaidTime == Spec => []PaidTimeIsKept
<1>1. IInv => PaidTimeIsKept
  BY DEF IInv
<1> QED
  BY Invariance, <1>1, PTL
=============================================================================
