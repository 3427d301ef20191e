----------------------- MODULE SubscriptionPaymentProofs -----------------------
(***************************************************************************)
(* Proofs about SubscriptionPayment for any calls, payments and window.    *)
(*                                                                         *)
(* The argument: the shared locks of the idempotency SELECT keep what it   *)
(* saw true until the call ends (CheckHolds), because a row of the same    *)
(* request can only appear while no other call holds them (Isolation).  A  *)
(* new row is stamped after the check read the clock (StampAfterCheck), so *)
(* at the commit it is more than the window younger than every row of the  *)
(* same request.                                                           *)
(***************************************************************************)
EXTENDS SubscriptionPayment, TLAPS

\* A call runs only for a checkout that is paid, so what the call replaces is fixed.
SessionPaid == \A c \in Call : pc[c] # "idle" => session[paymentOf[c]] = "paid"

\* The row in the metadata of a checkout exists.
ExistingPresent == \A p \in Payment : existing[p] # None => Present(existing[p])

\* The row of a call exists from its commit on.
PresentWhenCommitted ==
    \A c \in Call : /\ Present(c) => pc[c] \in {"committed", "done", "failed"}
                    /\ pc[c] = "committed" => Present(c)

\* While a call has written rows no other call has read them.
Isolation == \A c, d \in Call : c # d /\ HasWritten(c) => ~HasRead(d)

\* What the idempotency check saw stays true until the call ends.
CheckHolds ==
    \A c, d \in Call :
        HasRead(c) /\ Present(d) /\ SameRequest(c, d) =>
            rows[d].created + Window < since[c]

\* createdAt of a new row is not before the clock reading of its check.
StampAfterCheck ==
    \A c \in Call :
        /\ since[c] <= now
        /\ pc[c] \in {"stamped", "inserted"} =>
               since[c] <= draft[c].created /\ draft[c].created <= now

IInv ==
    /\ SessionPaid
    /\ ExistingPresent
    /\ PresentWhenCommitted
    /\ Isolation
    /\ CheckHolds
    /\ StampAfterCheck
    /\ SameRequestFarApart
    /\ NeverWithoutService

-----------------------------------------------------------------------------
\* Every variable keeps its type, for any calls, payments and bound on the clock.
THEOREM TypeCorrect == Spec => []TypeOK
<1>1. Init => TypeOK
  BY PaymentAssumption DEF Init, TypeOK, Row, Time
<1>2. TypeOK /\ [Next]_vars => TypeOK'
  <2> SUFFICES ASSUME TypeOK, [Next]_vars PROVE TypeOK'
    OBVIOUS
  <2> USE PaymentAssumption DEF TypeOK, Row, Time
  <2>1. CASE Tick
    BY <2>1 DEF Tick
  <2>2. ASSUME NEW p \in Payment, initiatePayment(p) PROVE TypeOK'
    BY <2>2 DEF initiatePayment
  <2>3. ASSUME NEW p \in Payment, Pay(p) PROVE TypeOK'
    BY <2>3 DEF Pay
  <2>4. ASSUME NEW c \in Call, Begin(c) PROVE TypeOK'
    BY <2>4 DEF Begin
  <2>5. ASSUME NEW c \in Call, Check(c) PROVE TypeOK'
    BY <2>5 DEF Check
  <2>6. ASSUME NEW c \in Call, LockOrganization(c) PROVE TypeOK'
    BY <2>6 DEF LockOrganization
  <2>7. ASSUME NEW c \in Call, ReplaceOld(c) PROVE TypeOK'
    BY <2>7 DEF ReplaceOld
  <2>8. ASSUME NEW c \in Call, Stamp(c) PROVE TypeOK'
    BY <2>8 DEF Stamp
  <2>9. ASSUME NEW c \in Call, Insert(c) PROVE TypeOK'
    BY <2>9 DEF Insert
  <2>10. ASSUME NEW c \in Call, Commit(c) PROVE TypeOK'
    BY <2>10 DEF Commit
  <2>11. ASSUME NEW c \in Call, LinkStripe(c) PROVE TypeOK'
    BY <2>11 DEF LinkStripe
  <2>12. ASSUME NEW c \in Call, DeadlockVictim(c) \/ Fail(c) PROVE TypeOK'
    BY <2>12 DEF DeadlockVictim, Fail
  <2>13. CASE Crash
    BY <2>13 DEF Crash
  <2>14. CASE UNCHANGED vars
    BY <2>14 DEF vars
  <2>15. QED
    BY <2>1, <2>2, <2>3, <2>4, <2>5, <2>6, <2>7, <2>8, <2>9, <2>10, <2>11, <2>12,
       <2>13, <2>14 DEF Next, Advance
<1>3. QED
  BY <1>1, <1>2, PTL DEF Spec

-----------------------------------------------------------------------------
\* The invariant holds at the start: no call has begun and there is at most a trial.
LEMMA InitInv == Init => IInv
<1> SUFFICES ASSUME Init PROVE IInv
  OBVIOUS
<1> USE PaymentAssumption DEF Init, Row
<1>1. SessionPaid /\ ExistingPresent /\ PresentWhenCommitted
  BY DEF SessionPaid, ExistingPresent, PresentWhenCommitted, Present
<1>2. Isolation /\ CheckHolds /\ StampAfterCheck
  BY DEF Isolation, CheckHolds, StampAfterCheck, HasRead, HasWritten
<1>3. SameRequestFarApart
  BY DEF SameRequestFarApart, Present
<1>4. NeverWithoutService
  <2> SUFFICES ASSUME NEW r \in Row, Present(r) PROVE Live(Trial)
    BY DEF NeverWithoutService
  <2>1. PICK s \in {"ABSENT", "TRIAL"} :
          rows = [q \in Row |-> [status |-> IF q = Trial THEN s ELSE "ABSENT",
                                 created |-> 0, linked |-> FALSE]]
    OBVIOUS
  <2>2. rows[r].status = IF r = Trial THEN s ELSE "ABSENT"
    BY <2>1
  <2>3. rows[Trial].status = s
    BY <2>1
  <2>4. QED
    BY <2>2, <2>3 DEF Present, Live
<1>5. QED
  BY <1>1, <1>2, <1>3, <1>4 DEF IInv

\* The clock, the customer and the provider touch neither rows nor calls.
LEMMA EnvironmentStep ==
  ASSUME TypeOK, IInv, Tick \/ \E p \in Payment : initiatePayment(p) \/ Pay(p)
  PROVE  IInv'
<1> USE PaymentAssumption DEF TypeOK, Row, Time
<1>1. CASE Tick
  <2> USE <1>1 DEF Tick
  <2>1. SessionPaid' /\ ExistingPresent' /\ PresentWhenCommitted'
    BY DEF IInv, SessionPaid, ExistingPresent, PresentWhenCommitted, Present
  <2>2. Isolation' /\ CheckHolds'
    BY DEF IInv, Isolation, CheckHolds, HasRead, HasWritten, Old, Present, SameRequest
  <2>3. StampAfterCheck'
    BY DEF IInv, StampAfterCheck
  <2>4. SameRequestFarApart' /\ NeverWithoutService'
    BY DEF IInv, SameRequestFarApart, NeverWithoutService, Present, Live, SameRequest
  <2>5. QED
    BY <2>1, <2>2, <2>3, <2>4 DEF IInv
<1>2. ASSUME NEW p \in Payment, initiatePayment(p) PROVE IInv'
  <2> USE <1>2
  <2>1. PICK e \in Row \cup {None} :
          /\ e # None => Live(e)
          /\ existing' = [existing EXCEPT ![p] = e]
    BY DEF initiatePayment
  <2>2. SessionPaid'
    BY DEF IInv, SessionPaid, initiatePayment
  <2>3. ExistingPresent'
    BY <2>1 DEF IInv, ExistingPresent, Present, Live, initiatePayment
  <2>4. ASSUME NEW c \in Call, pc[c] # "idle" PROVE Old(c)' = Old(c)
    BY <2>1, <2>4 DEF IInv, SessionPaid, Old, initiatePayment
  <2>5. PresentWhenCommitted' /\ CheckHolds' /\ StampAfterCheck'
    BY DEF IInv, PresentWhenCommitted, CheckHolds, StampAfterCheck, HasRead, Present,
           SameRequest, initiatePayment
  <2>6. Isolation'
    <3>1. ASSUME NEW c \in Call PROVE HasWritten(c)' <=> HasWritten(c)
      BY <2>4 DEF HasWritten, initiatePayment
    <3>2. QED
      BY <3>1 DEF IInv, Isolation, HasRead, initiatePayment
  <2>7. SameRequestFarApart' /\ NeverWithoutService'
    BY DEF IInv, SameRequestFarApart, NeverWithoutService, Present, Live, SameRequest,
           initiatePayment
  <2>8. QED
    BY <2>2, <2>3, <2>5, <2>6, <2>7 DEF IInv
<1>3. ASSUME NEW p \in Payment, Pay(p) PROVE IInv'
  <2> USE <1>3 DEF Pay
  <2>1. SessionPaid'
    BY DEF IInv, SessionPaid
  <2>2. ExistingPresent' /\ PresentWhenCommitted' /\ StampAfterCheck'
    BY DEF IInv, ExistingPresent, PresentWhenCommitted, StampAfterCheck, Present
  <2>3. Isolation' /\ CheckHolds'
    BY DEF IInv, Isolation, CheckHolds, HasRead, HasWritten, Old, Present, SameRequest
  <2>4. SameRequestFarApart' /\ NeverWithoutService'
    BY DEF IInv, SameRequestFarApart, NeverWithoutService, Present, Live, SameRequest
  <2>5. QED
    BY <2>1, <2>2, <2>3, <2>4 DEF IInv
<1>4. QED
  BY <1>1, <1>2, <1>3

\* A call that only moves its program counter: Begin, Check, LockOrganization.
LEMMA ReadStep ==
  ASSUME TypeOK, IInv, NEW c \in Call,
         Begin(c) \/ Check(c) \/ LockOrganization(c)
  PROVE  IInv'
<1> USE PaymentAssumption DEF TypeOK, Row, Time
<1>1. /\ rows' = rows /\ session' = session /\ existing' = existing
      /\ draft' = draft /\ now' = now
  BY DEF Begin, Check, LockOrganization
<1>2. SameRequestFarApart' /\ NeverWithoutService' /\ ExistingPresent'
  BY <1>1 DEF IInv, SameRequestFarApart, NeverWithoutService, ExistingPresent, Present, Live,
              SameRequest
<1>3. CASE Begin(c)
  <2> USE <1>3 DEF Begin
  <2>1. SessionPaid' /\ PresentWhenCommitted' /\ StampAfterCheck'
    BY DEF IInv, SessionPaid, PresentWhenCommitted, StampAfterCheck, Present
  <2>2. Isolation'
    BY DEF IInv, Isolation, HasRead, HasWritten, Old
  <2>3. CheckHolds'
    BY DEF IInv, CheckHolds, HasRead, Present, SameRequest
  <2>4. QED
    BY <1>2, <2>1, <2>2, <2>3 DEF IInv
<1>4. CASE Check(c)
  <2> USE <1>4 DEF Check
  <2>1. SessionPaid' /\ PresentWhenCommitted' /\ StampAfterCheck'
    BY DEF IInv, SessionPaid, PresentWhenCommitted, StampAfterCheck, Present
  <2>2. Isolation'
    BY DEF IInv, Isolation, HasRead, HasWritten, Old
  <2>3. CheckHolds'
    <3>1. ASSUME NEW d \in Call, ~RecentDuplicate(c), Present(d), SameRequest(c, d)
          PROVE  rows[d].created + Window < since[c]
      BY <3>1 DEF RecentDuplicate
    <3>2. QED
      BY <3>1 DEF IInv, CheckHolds, HasRead, Present, SameRequest
  <2>4. QED
    BY <1>2, <2>1, <2>2, <2>3 DEF IInv
<1>5. CASE LockOrganization(c)
  <2> USE <1>5 DEF LockOrganization
  <2>1. SessionPaid' /\ PresentWhenCommitted' /\ StampAfterCheck'
    BY DEF IInv, SessionPaid, PresentWhenCommitted, StampAfterCheck, Present
  <2>2. Isolation' /\ CheckHolds'
    BY DEF IInv, Isolation, CheckHolds, HasRead, HasWritten, Old, Present, SameRequest
  <2>3. QED
    BY <1>2, <2>1, <2>2 DEF IInv
<1>6. QED
  BY <1>3, <1>4, <1>5

\* A call that takes its exclusive locks: the old row, the stamp, the insert.
LEMMA WriteStep ==
  ASSUME TypeOK, IInv, NEW c \in Call, ReplaceOld(c) \/ Stamp(c) \/ Insert(c)
  PROVE  IInv'
<1> USE PaymentAssumption DEF TypeOK, Row, Time
<1>1. /\ rows' = rows /\ session' = session /\ existing' = existing
      /\ since' = since /\ now' = now
  BY DEF ReplaceOld, Stamp, Insert
<1>2. SameRequestFarApart' /\ NeverWithoutService' /\ ExistingPresent'
  BY <1>1 DEF IInv, SameRequestFarApart, NeverWithoutService, ExistingPresent, Present, Live,
              SameRequest
<1>3. SessionPaid' /\ PresentWhenCommitted' /\ CheckHolds'
  BY <1>1 DEF IInv, SessionPaid, PresentWhenCommitted, CheckHolds, HasRead, Present,
              SameRequest, ReplaceOld, Stamp, Insert
<1>4. StampAfterCheck'
  <2>1. CASE ReplaceOld(c)
    BY <1>1, <2>1 DEF IInv, StampAfterCheck, ReplaceOld
  <2>2. CASE Stamp(c)
    <3>1. draft'[c].created = now /\ \A d \in Call \ {c} : draft'[d] = draft[d]
      BY <2>2 DEF Stamp
    <3>2. \A d \in Call \ {c} : pc'[d] = pc[d]
      BY <2>2 DEF Stamp
    <3>3. QED
      BY <1>1, <3>1, <3>2 DEF IInv, StampAfterCheck
  <2>3. CASE Insert(c)
    BY <1>1, <2>3 DEF IInv, StampAfterCheck, Insert
  <2>4. QED
    BY <2>1, <2>2, <2>3
<1>5. Isolation'
  <2>1. CASE ReplaceOld(c)
    BY <2>1 DEF ReplaceOld, IInv, Isolation, HasRead, HasWritten, Old
  <2>2. CASE Stamp(c)
    BY <2>2 DEF Stamp, IInv, Isolation, HasRead, HasWritten, Old
  <2>3. CASE Insert(c)
    BY <2>3 DEF Insert, IInv, Isolation, HasRead, HasWritten, Old
  <2>4. QED
    BY <2>1, <2>2, <2>3
<1>6. QED
  BY <1>2, <1>3, <1>4, <1>5 DEF IInv

\* The commit publishes a row that is younger than every row of its request by
\* more than the window, and no other call is holding the locks of its check.
LEMMA CommitStep ==
  ASSUME TypeOK, IInv, NEW c \in Call, Commit(c)
  PROVE  IInv'
<1> USE PaymentAssumption, Commit(c) DEF TypeOK, Row, Time
<1>1. /\ rows'[c].status = "ACTIVE"
      /\ rows'[c].created = draft[c].created
  BY DEF Commit
<1>2. ASSUME NEW r \in Row, r # c
      PROVE  /\ rows'[r].created = rows[r].created
             /\ Present(r)' <=> Present(r) \/ (r = Old(c) /\ Old(c) # None)
             /\ r # Old(c) => rows'[r] = rows[r]
  BY <1>2 DEF Commit, Present
<1>3. Old(c) # None => Present(Old(c))
  BY DEF IInv, ExistingPresent, Old
<1>4. ASSUME NEW r \in Row, r # c PROVE Present(r)' <=> Present(r)
  BY <1>2, <1>3, <1>4
<1>5. ~Present(c) /\ Present(c)'
  BY <1>1 DEF IInv, PresentWhenCommitted, Commit, Present
<1>6. ASSUME NEW d \in Call, d # c PROVE ~HasRead(d) /\ ~HasRead(d)'
  BY <1>6 DEF Commit, IInv, Isolation, HasWritten, HasRead
<1>7. ~HasRead(c)'
  BY DEF Commit, HasRead
<1>8. ASSUME NEW d \in Call, Present(d), SameRequest(c, d)
      PROVE  rows[d].created + Window < draft[c].created
  <2>1. HasRead(c)
    BY DEF Commit, HasRead
  <2>2. rows[d].created + Window < since[c]
    BY <1>8, <2>1 DEF IInv, CheckHolds
  <2>3. since[c] <= draft[c].created
    BY DEF Commit, IInv, StampAfterCheck
  <2>4. QED
    BY <2>2, <2>3
<1>9. SessionPaid' /\ StampAfterCheck'
  BY DEF Commit, IInv, SessionPaid, StampAfterCheck
<1>10. ExistingPresent'
  BY <1>4, <1>5 DEF Commit, IInv, ExistingPresent
<1>11. PresentWhenCommitted'
  BY <1>4, <1>5 DEF Commit, IInv, PresentWhenCommitted
<1>12. Isolation' /\ CheckHolds'
  BY <1>6, <1>7 DEF Isolation, CheckHolds
<1>13. SameRequestFarApart'
  <2> SUFFICES ASSUME NEW d \in Call, NEW e \in Call, d # e, Present(d)', Present(e)',
                      SameRequest(d, e)
               PROVE  \/ rows'[d].created + Window < rows'[e].created
                      \/ rows'[e].created + Window < rows'[d].created
    BY DEF SameRequestFarApart, SameRequest
  <2>1. CASE d = c
    BY <1>1, <1>2, <1>4, <1>8, <2>1
  <2>2. CASE e = c
    <3>1. SameRequest(c, d)
      BY <2>2 DEF SameRequest
    <3>2. QED
      BY <1>1, <1>2, <1>4, <1>8, <2>2, <3>1
  <2>3. CASE d # c /\ e # c
    BY <1>2, <1>4, <2>3 DEF IInv, SameRequestFarApart
  <2>4. QED
    BY <2>1, <2>2, <2>3
<1>14. NeverWithoutService'
  BY <1>1 DEF NeverWithoutService, Live
<1>15. QED
  BY <1>9, <1>10, <1>11, <1>12, <1>13, <1>14 DEF IInv

\* The link touches a row that exists, and neither its status nor its stamp.
LEMMA LinkStep ==
  ASSUME TypeOK, IInv, NEW c \in Call, LinkStripe(c)
  PROVE  IInv'
<1> USE PaymentAssumption, LinkStripe(c) DEF TypeOK, Row, Time
<1>1. ASSUME NEW r \in Row
      PROVE  rows'[r].status = rows[r].status /\ rows'[r].created = rows[r].created
  BY DEF LinkStripe
<1>2. ASSUME NEW r \in Row PROVE Present(r)' <=> Present(r)
  BY <1>1 DEF Present
<1>3. SessionPaid' /\ StampAfterCheck'
  BY DEF LinkStripe, IInv, SessionPaid, StampAfterCheck
<1>4. ExistingPresent'
  BY <1>2 DEF LinkStripe, IInv, ExistingPresent
<1>5. PresentWhenCommitted'
  BY <1>2 DEF LinkStripe, IInv, PresentWhenCommitted
<1>6. Isolation'
  BY DEF LinkStripe, IInv, Isolation, HasRead, HasWritten, Old
<1>7. CheckHolds'
  BY <1>1, <1>2 DEF LinkStripe, IInv, CheckHolds, HasRead, SameRequest
<1>8. SameRequestFarApart'
  BY <1>1, <1>2 DEF IInv, SameRequestFarApart, SameRequest
<1>9. NeverWithoutService'
  BY <1>1, <1>2 DEF IInv, NeverWithoutService, Live
<1>10. QED
  BY <1>3, <1>4, <1>5, <1>6, <1>7, <1>8, <1>9 DEF IInv

\* Calls that end without a commit release their locks and change nothing else.
LEMMA FailureStep ==
  ASSUME TypeOK, IInv,
         Crash \/ \E c \in Call : Fail(c) \/ DeadlockVictim(c)
  PROVE  IInv'
<1> USE PaymentAssumption DEF TypeOK, Row, Time
<1>1. /\ rows' = rows /\ session' = session /\ existing' = existing
      /\ since' = since /\ draft' = draft /\ now' = now
  BY DEF Crash, Fail, DeadlockVictim
<1>2. ASSUME NEW c \in Call
      PROVE  \/ pc'[c] = pc[c]
             \/ pc'[c] = "failed" /\ pc[c] # "idle"
  BY DEF Crash, Fail, DeadlockVictim, InFlight, WaitsFor
<1>3. ASSUME NEW c \in Call
      PROVE  (HasRead(c)' => HasRead(c)) /\ (HasWritten(c)' => HasWritten(c))
  BY <1>1, <1>2 DEF HasRead, HasWritten, Old
<1>4. SessionPaid' /\ ExistingPresent' /\ PresentWhenCommitted' /\ StampAfterCheck'
  BY <1>1, <1>2 DEF IInv, SessionPaid, ExistingPresent, PresentWhenCommitted,
                    StampAfterCheck, Present
<1>5. Isolation' /\ CheckHolds'
  BY <1>1, <1>3 DEF IInv, Isolation, CheckHolds, Present, SameRequest
<1>6. SameRequestFarApart' /\ NeverWithoutService'
  BY <1>1 DEF IInv, SameRequestFarApart, NeverWithoutService, Present, Live, SameRequest
<1>7. QED
  BY <1>4, <1>5, <1>6 DEF IInv

LEMMA Inductive == TypeOK /\ IInv /\ [Next]_vars => IInv'
<1> SUFFICES ASSUME TypeOK, IInv, [Next]_vars PROVE IInv'
  OBVIOUS
<1>1. CASE UNCHANGED vars
  BY <1>1 DEF vars, IInv, SessionPaid, ExistingPresent, PresentWhenCommitted, Isolation,
              CheckHolds, StampAfterCheck, SameRequestFarApart, NeverWithoutService,
              Present, Live, SameRequest, HasRead, HasWritten, Old
<1>2. CASE Next
  BY <1>2, EnvironmentStep, ReadStep, WriteStep, CommitStep, LinkStep, FailureStep
     DEF Next, Advance
<1>3. QED
  BY <1>1, <1>2

LEMMA Invariance == Spec => []IInv
<1>1. Spec => []TypeOK
  BY TypeCorrect
<1>2. QED
  BY <1>1, InitInv, Inductive, PTL DEF Spec

-----------------------------------------------------------------------------
\* The idempotency check and the insert act as one step: rows of one request
\* are created more than the window apart, however many calls run and interleave.
THEOREM FarApart == Spec => []SameRequestFarApart
<1>1. IInv => SameRequestFarApart
  BY DEF IInv
<1>2. QED
  BY <1>1, Invariance, PTL

\* No checkout, and no failure of one, leaves an organization without a live row.
THEOREM ServiceKept == Spec => []NeverWithoutService
<1>1. IInv => NeverWithoutService
  BY DEF IInv
<1>2. QED
  BY <1>1, Invariance, PTL

\* Checkout implements the ledger in which a payment takes effect in one step.
THEOREM Implementation == Spec => ImplementsLedger
<1>1. Init => Ledger!Init
  BY DEF Init, Ledger!Init, Row, Ledger!Row
<1>2. TypeOK /\ IInv /\ [Next]_vars => [Ledger!Next]_Ledger!vars
  <2> SUFFICES ASSUME TypeOK, IInv, [Next]_vars
               PROVE  Ledger!Next \/ UNCHANGED <<now, rows>>
    BY DEF Ledger!vars
  <2> USE PaymentAssumption
  <2>1. CASE Tick
    BY <2>1 DEF Tick, Ledger!Next, Ledger!Tick
  <2>2. ASSUME NEW c \in Call, Commit(c) PROVE Ledger!Next
    <3> DEFINE t == draft[c].created
    <3>1. t \in 0..MaxTime /\ t <= now /\ since[c] <= t
      BY <2>2 DEF Commit, TypeOK, Time, IInv, StampAfterCheck
    <3>2. ~Ledger!Present(c)
      BY <2>2 DEF Commit, IInv, PresentWhenCommitted, Present, Ledger!Present
    <3>3. Old(c) \in Row \cup {None}
      BY DEF TypeOK, Old
    <3>4. Old(c) # None => Old(c) # c /\ Ledger!Present(Old(c))
      BY <3>2 DEF IInv, ExistingPresent, Old, Present, Ledger!Present
    <3>5. ASSUME NEW d \in Call, Ledger!Present(d), Ledger!SameRequest(c, d)
          PROVE  rows[d].created + Window < t
      <4>1. HasRead(c) /\ Present(d) /\ SameRequest(c, d)
        BY <2>2, <3>5 DEF Commit, HasRead, Present, SameRequest, Ledger!Present,
                          Ledger!SameRequest
      <4>2. rows[d].created + Window < since[c]
        BY <4>1 DEF IInv, CheckHolds
      <4>3. rows[d].created \in Nat /\ since[c] \in Nat
        BY DEF TypeOK, Time, Row
      <4>4. QED
        BY <3>1, <4>2, <4>3
    <3>6. draft[c].linked \in BOOLEAN
      BY DEF TypeOK
    <3>7. Ledger!Apply(c, Old(c), t)
      <4>1. rows' = [r \in Ledger!Row |->
                       IF r = c THEN [status |-> "ACTIVE", created |-> t,
                                      linked |-> draft[c].linked]
                       ELSE IF r = Old(c) THEN [rows[r] EXCEPT !.status = "CANCELLED"]
                       ELSE rows[r]]
        BY <2>2 DEF Commit, Row, Ledger!Row
      <4>2. now' = now
        BY <2>2 DEF Commit
      <4>3. QED
        BY <3>1, <3>2, <3>4, <3>5, <3>6, <4>1, <4>2 DEF Ledger!Apply
    <3>8. QED
      BY <3>1, <3>3, <3>7 DEF Ledger!Next, Ledger!Row, Row
  <2>3. ASSUME NEW c \in Call, LinkStripe(c) PROVE Ledger!Next
    <3>1. Ledger!Link(c)
      BY <2>3 DEF LinkStripe, Ledger!Link, IInv, PresentWhenCommitted, Present, Ledger!Present
    <3>2. QED
      BY <3>1 DEF Ledger!Next
  <2>4. CASE Crash \/ \E p \in Payment : initiatePayment(p) \/ Pay(p)
    BY <2>4 DEF Crash, initiatePayment, Pay
  <2>5. ASSUME NEW c \in Call,
               \/ Begin(c) \/ Check(c) \/ LockOrganization(c) \/ ReplaceOld(c)
               \/ Stamp(c) \/ Insert(c) \/ DeadlockVictim(c) \/ Fail(c)
        PROVE  UNCHANGED <<now, rows>>
    BY <2>5 DEF Begin, Check, LockOrganization, ReplaceOld, Stamp, Insert,
                DeadlockVictim, Fail
  <2>6. CASE UNCHANGED vars
    BY <2>6 DEF vars
  <2>7. QED
    BY <2>1, <2>2, <2>3, <2>4, <2>5, <2>6 DEF Next, Advance
<1>3. QED
  BY <1>1, <1>2, TypeCorrect, Invariance, PTL DEF Spec, ImplementsLedger, Ledger!Spec
-----------------------------------------------------------------------------
(* Cancellations at the provider *)

\* The call d explains why the Stripe subscription of payment p was cancelled.
Explains(d, p) ==
    /\ Old(d) \in Call
    /\ paymentOf[Old(d)] = p
    /\ pc[d] = "failed" \/ HasWritten(d) \/ Present(d)

\* A cancellation has its call for ever, and the row that a finished call has
\* replaced stays closed.
CancelInv ==
    /\ \A p \in canceled : \E d \in Call : Explains(d, p)
    /\ \A d \in Call : Present(d) /\ Old(d) # None => rows[Old(d)].status = "CANCELLED"

\* What a step keeps of the calls that have begun and of the rows there are.
LEMMA Keeps ==
    ASSUME TypeOK, IInv, [Next]_vars
    PROVE  /\ \A d \in Call : pc[d] # "idle" => Old(d)' = Old(d)
           /\ \A r \in Row : Present(r) => Present(r)'
           /\ \A r \in Row : rows[r].status = "CANCELLED" => rows'[r].status = "CANCELLED"
<1> USE PaymentAssumption DEF TypeOK, Row
<1>1. \A d \in Call : pc[d] # "idle" => Old(d)' = Old(d)
  <2>1. ASSUME NEW p \in Payment, initiatePayment(p), NEW d \in Call, pc[d] # "idle"
        PROVE  Old(d)' = Old(d)
    <3>1. session[p] = "none" /\ \A q \in Payment \ {p} : existing'[q] = existing[q]
      BY <2>1 DEF initiatePayment
    <3> QED BY <2>1, <3>1 DEF Old, IInv, SessionPaid
  <2>2. CASE existing' = existing
    BY <2>2 DEF Old
  <2> QED
    BY <2>1, <2>2 DEF Next, Advance, Tick, Pay, Begin, Check, LockOrganization, ReplaceOld,
       Stamp, Insert, Commit, LinkStripe, DeadlockVictim, Fail, Crash, vars
<1>2. ASSUME NEW c \in Call, Commit(c), NEW r \in Row
      PROVE  /\ Present(r) => Present(r)'
             /\ rows[r].status = "CANCELLED" => rows'[r].status = "CANCELLED"
  <2>1. ~Present(c)
    BY <1>2 DEF Commit, IInv, PresentWhenCommitted
  <2> QED BY <1>2, <2>1 DEF Commit, Present
<1>3. ASSUME NEW c \in Call, LinkStripe(c), NEW r \in Row
      PROVE  rows'[r].status = rows[r].status
  BY <1>3 DEF LinkStripe
<1>4. CASE rows' = rows
  BY <1>1, <1>4 DEF Present
<1> QED
  BY <1>1, <1>2, <1>3, <1>4 DEF Present, Next, Advance, Tick, initiatePayment, Pay, Begin,
     Check, LockOrganization, ReplaceOld, Stamp, Insert, DeadlockVictim, Fail, Crash, vars

\* A call that has failed, has written or has committed goes on doing so, or the
\* first becomes the second or the third.
LEMMA ExplainsKept ==
    ASSUME TypeOK, IInv, [Next]_vars, NEW d \in Call, NEW p, Explains(d, p)
    PROVE  Explains(d, p)'
<1>1. pc[d] # "idle"
  BY DEF Explains, HasWritten, IInv, PresentWhenCommitted
<1>2. Old(d)' = Old(d)
  BY <1>1, Keeps
<1>3. Present(d) => Present(d)'
  BY Keeps DEF Row
<1>4. pc[d] = "failed" => pc'[d] = "failed"
  BY DEF TypeOK, Next, Advance, Tick, initiatePayment, Pay, Begin, Check, LockOrganization,
     ReplaceOld, Stamp, Insert, Commit, LinkStripe, DeadlockVictim, WaitsFor, Fail, Crash,
     InFlight, vars
<1>5. HasWritten(d) => pc'[d] = "failed" \/ HasWritten(d)' \/ Present(d)'
  <2>1. ASSUME HasWritten(d), pc'[d] = pc[d] \/ pc'[d] = "failed"
        PROVE  pc'[d] = "failed" \/ HasWritten(d)'
    BY <1>2, <2>1 DEF HasWritten
  <2>2. ASSUME HasWritten(d), Stamp(d) \/ Insert(d)
        PROVE  HasWritten(d)'
    BY <1>2, <2>2 DEF HasWritten, Stamp, Insert, TypeOK
  <2>3. ASSUME Commit(d) PROVE Present(d)'
    BY <2>3 DEF Commit, Present, Row
  <2> QED
    BY <2>1, <2>2, <2>3 DEF HasWritten, TypeOK, Next, Advance, Tick, initiatePayment, Pay,
       Begin, Check, LockOrganization, ReplaceOld, Stamp, Insert, Commit, LinkStripe,
       DeadlockVictim, Fail, Crash, vars
<1> QED BY <1>2, <1>3, <1>4, <1>5 DEF Explains

LEMMA CancelStep == TypeOK /\ IInv /\ CancelInv /\ [Next]_vars => CancelInv'
<1> SUFFICES ASSUME TypeOK, IInv, CancelInv, [Next]_vars PROVE CancelInv'
  OBVIOUS
<1>0. \A d \in Call : Old(d) # None => Old(d) \in Row /\ Present(Old(d))
  BY PaymentAssumption DEF TypeOK, IInv, ExistingPresent, Old
<1>1. ASSUME NEW p \in canceled' PROVE \E d \in Call : Explains(d, p)'
  <2>1. CASE p \in canceled
    BY <2>1, ExplainsKept DEF CancelInv
  <2>2. CASE p \notin canceled
    <3>1. PICK d \in Call : ReplaceOld(d)
      BY <2>2 DEF Next, Advance, Tick, initiatePayment, Pay, Begin, Check, LockOrganization,
         Stamp, Insert, Commit, LinkStripe, DeadlockVictim, Fail, Crash, vars
    <3>2. Old(d) \in Call /\ p = paymentOf[Old(d)]
      BY <2>2, <3>1 DEF ReplaceOld
    <3>3. pc'[d] = "replaced" /\ Old(d)' = Old(d)
      BY <3>1 DEF ReplaceOld, TypeOK, Old
    <3> QED BY <3>2, <3>3, PaymentAssumption DEF Explains, HasWritten
  <2> QED BY <2>1, <2>2
<1>2. ASSUME NEW d \in Call, Present(d)', Old(d)' # None
      PROVE  rows'[Old(d)'].status = "CANCELLED"
  <2>1. CASE Present(d)
    <3>1. pc[d] # "idle"
      BY <2>1 DEF IInv, PresentWhenCommitted
    <3>2. Old(d)' = Old(d)
      BY <3>1, Keeps
    <3>3. Old(d) \in Row
      BY <1>0, <1>2, <3>2
    <3> QED BY <1>2, <2>1, <3>2, <3>3, Keeps DEF CancelInv
  <2>2. CASE ~Present(d)
    <3>1. Commit(d)
      <4>1. ASSUME NEW c \in Call, LinkStripe(c) PROVE rows'[d].status = rows[d].status
        BY <4>1 DEF LinkStripe, TypeOK, Row
      <4>2. ASSUME NEW c \in Call, Commit(c), c # d PROVE ~Present(d)'
        <5>1. Old(c) = d => Present(d)
          BY PaymentAssumption DEF IInv, ExistingPresent, Old
        <5> QED BY <2>2, <4>2, <5>1 DEF Commit, Present, Row
      <4> QED
        BY <1>2, <2>2, <4>1, <4>2 DEF Present, Next, Advance, Tick, initiatePayment, Pay,
           Begin, Check, LockOrganization, ReplaceOld, Stamp, Insert, DeadlockVictim, Fail,
           Crash, vars
    <3>2. Old(d)' = Old(d)
      BY <3>1, Keeps DEF Commit
    <3>3. Old(d) \in Row /\ Old(d) # d
      BY <1>0, <1>2, <2>2, <3>2
    <3> QED BY <3>1, <3>2, <3>3 DEF Commit, TypeOK
  <2> QED BY <2>1, <2>2
<1> QED BY <1>1, <1>2 DEF CancelInv

\* A live row whose Stripe subscription the code has cancelled is explained by the
\* replacement that cancelled it, however calls fail or crash after it.
THEOREM CancellationsExplained == Spec => []StripeCancelExplained
<1>1. Init => CancelInv
  BY PaymentAssumption DEF Init, CancelInv, Present, Row
<1>2. CancelInv /\ TypeOK => StripeCancelExplained
  <2> SUFFICES ASSUME CancelInv, NEW c \in Call, Live(c), paymentOf[c] \in canceled
               PROVE  \E d \in Call : /\ Old(d) \in Call
                                      /\ paymentOf[Old(d)] = paymentOf[c]
                                      /\ \/ pc[d] = "failed"
                                         \/ HasWritten(d)
                                         \/ Old(d) # c /\ Present(d)
    BY DEF StripeCancelExplained
  <2>1. PICK d \in Call : Explains(d, paymentOf[c])
    BY DEF CancelInv
  <2>2. Present(d) => Old(d) # c
    BY <2>1, PaymentAssumption DEF CancelInv, Explains, Live
  <2> QED BY <2>1, <2>2 DEF Explains
<1> QED BY <1>1, <1>2, CancelStep, TypeCorrect, Invariance, PTL DEF Spec
=============================================================================
