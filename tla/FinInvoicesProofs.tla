-------------------------- MODULE FinInvoicesProofs --------------------------
(* Type correctness of FinInvoices, what amountDue and amountPaid are worth,   *)
(* and that requests served one after the other never compute with an outdated *)
(* invoice.                                                                    *)
EXTENDS FinInvoices, SumLemmas, TLAPS

-----------------------------------------------------------------------------
(* The inductive invariant *)

Computes(k) == req[k].op \in {"recordPayment", "deletePayment"} \/ ReplacesItems(k)

\* What a request carries while it is open: its payment, and the columns that
\* its operation computes with.
Carries(q, at) ==
    LET money == q.op \in {"recordPayment", "deletePayment"} IN
    /\ at = "found" => q.op = "deletePayment"
    /\ money => q.rows # {}
    /\ money \/ (q.op = "updateInvoice" /\ q.total # None) =>
           at = "found" \/ q.read \in Read
    /\ money => at = "found" \/ q.read.total \in Int
    /\ q.op = "recordPayment" => q.read.status \in Status

IInv == TypeOK /\ \A k \in Client : pc[k] # "idle" => Carries(req[k], pc[k])

-----------------------------------------------------------------------------
(* What the UPDATE of a request writes is an invoice *)

LEMMA recordPaymentType ==
    ASSUME invoice \in Invoice, NEW q, NEW a \in Int,
           q.read \in Read, q.read.total \in Int, q.read.status \in Status
    PROVE  recordPaymentUpdate(q, a) \in Invoice
<1> DEFINE paid == q.read.amountPaid + a
           due  == q.read.total - paid
<1>1. paid \in Int /\ due \in Int
  BY DEF Read
<1>2. PaymentStatus(q.read.status, paid, due) \in Status
  BY DEF PaymentStatus, Status
<1> HIDE DEF paid, due
<1>3. [invoice EXCEPT !.amountPaid = paid, !.amountDue = due,
                      !.status = PaymentStatus(q.read.status, paid, due)] \in Invoice
  BY <1>1, <1>2 DEF Invoice
<1> QED  BY <1>3 DEF recordPaymentUpdate, paid, due

LEMMA deletePaymentType ==
    ASSUME invoice \in Invoice, NEW q, NEW a \in Int,
           q.read \in Read, q.read.total \in Int
    PROVE  deletePaymentUpdate(q, a) \in Invoice
<1> DEFINE paid == q.read.amountPaid - a
           due  == q.read.total - paid
           s    == IF paid <= 0 THEN "SENT" ELSE "PARTIALLY_PAID"
<1>1. paid \in Int /\ due \in Int
  BY DEF Read
<1>2. s \in Status
  BY DEF Status
<1> HIDE DEF paid, due, s
<1>3. [invoice EXCEPT !.amountPaid = paid, !.amountDue = due, !.status = s] \in Invoice
  BY <1>1, <1>2 DEF Invoice
<1> QED  BY <1>3 DEF deletePaymentUpdate, paid, due, s

LEMMA updateInvoiceType ==
    ASSUME invoice \in Invoice, NEW q \in Request, q.total # None => q.read \in Read
    PROVE  updateInvoiceUpdate(q) \in Invoice
<1> DEFINE s == IF q.status = None THEN invoice.status ELSE q.status
           t == IF q.total = None THEN invoice.total ELSE q.total
           d == IF q.total = None THEN invoice.amountDue
                ELSE q.total - q.read.amountPaid
<1>1. s \in Status
  BY DEF Request, Invoice
<1>2. t \in Int /\ d \in Int
  <2>1. invoice.total \in Int /\ invoice.amountDue \in Int
    BY DEF Invoice
  <2>2. q.total \in Total \cup {None}
    BY DEF Request
  <2>3. q.total # None => q.total \in Int
    <3>1. \A n \in Total : n \in Int
      BY InvoiceAssumption
    <3> QED  BY <2>2, <3>1, Zenon
  <2>4. q.total # None => q.read.amountPaid \in Int
    <3> SUFFICES ASSUME q.read \in Read PROVE q.read.amountPaid \in Int
      OBVIOUS
    <3> QED  BY DEF Read
  <2> QED  BY <2>1, <2>3, <2>4
<1> HIDE DEF s, t, d
<1>3. [invoice EXCEPT !.status = s, !.total = t, !.amountDue = d] \in Invoice
  BY <1>1, <1>2 DEF Invoice
<1> QED  BY <1>3 DEF updateInvoiceUpdate, s, t, d

LEMMA AmountIsInt == ASSUME NEW q \in Request, q.rows # {} PROVE Amount(q) \in Int
BY InvoiceAssumption DEF Amount, Request

LEMMA UpdatedType ==
    ASSUME invoice \in Invoice, NEW q \in Request, Carries(q, "written")
    PROVE  Updated(q) \in Invoice
<1>1. CASE q.op = "recordPayment"
  <2>1. recordPaymentUpdate(q, Amount(q)) \in Invoice
    BY <1>1, recordPaymentType, AmountIsInt DEF Carries
  <2> QED  BY <1>1, <2>1 DEF Updated
<1>2. CASE q.op = "deletePayment"
  <2>1. deletePaymentUpdate(q, Amount(q)) \in Invoice
    BY <1>2, deletePaymentType, AmountIsInt DEF Carries
  <2> QED  BY <1>2, <2>1 DEF Updated
<1>3. CASE q.op = "updateInvoice"
  <2>1. updateInvoiceUpdate(q) \in Invoice
    BY <1>3, updateInvoiceType DEF Carries
  <2> QED  BY <1>3, <2>1 DEF Updated
<1>4. CASE q.op \in {"deleteInvoice", "markInvoiceSent", "cancelInvoice"}
  BY <1>4 DEF Updated, Invoice, Status
<1> QED  BY <1>1, <1>2, <1>3, <1>4 DEF Request, Operation

-----------------------------------------------------------------------------
(* The invariant is inductive *)

LEMMA ReadingType ==
    ASSUME invoice \in Invoice
    PROVE  /\ Reading \in Read
           /\ Reading.status \in Status
           /\ Reading.total \in Int
           /\ [Reading EXCEPT !.status = None] \in Read
           /\ [Reading EXCEPT !.status = None].total \in Int
           /\ [Reading EXCEPT !.status = None, !.total = None] \in Read
BY DEF Reading, Read, Invoice

\* A request that begins with a well-formed record keeps the invariant.
LEMMA BeginsStep ==
    ASSUME IInv, NEW k \in Client, NEW q \in Request, Carries(q, "read"),
           Begins(k, q.op, q.read, q.rows, q.status, q.total)
    PROVE  IInv'
<1>1. [op |-> q.op, read |-> q.read, rows |-> q.rows, status |-> q.status,
       total |-> q.total] = q
  BY DEF Request
<1>2. /\ req' = [req EXCEPT ![k] = q]
      /\ pc' = [pc EXCEPT ![k] = "read"]
      /\ UNCHANGED <<invoice, payments, stale>>
  BY <1>1 DEF Begins
<1>3. ASSUME NEW l \in Client
      PROVE  /\ IF pc'[l] = "idle" THEN req'[l] = None ELSE req'[l] \in Request
             /\ pc'[l] # "idle" => Carries(req'[l], pc'[l])
  BY <1>2 DEF IInv, TypeOK
<1> QED  BY <1>2, <1>3 DEF IInv, TypeOK

\* A request that ends takes its record with it.
LEMMA EndsStep ==
    ASSUME IInv, NEW k \in Client, Ends(k), invoice' \in Invoice,
           payments' \in [Payment -> {"new", "stored", "deleted"}], stale' \in BOOLEAN
    PROVE  IInv'
<1>1. ASSUME NEW l \in Client
      PROVE  /\ IF pc'[l] = "idle" THEN req'[l] = None ELSE req'[l] \in Request
             /\ pc'[l] # "idle" => Carries(req'[l], pc'[l])
  BY DEF Ends, IInv, TypeOK
<1> QED  BY <1>1 DEF Ends, IInv, TypeOK

LEMMA StartStep == ASSUME IInv, NEW k \in Client, Start(k) PROVE IInv'
<1>0. invoice \in Invoice
  BY DEF IInv, TypeOK
<1>1. ASSUME recordPayment(k) PROVE IInv'
  <2>1. PICK p \in Payment : Begins(k, "recordPayment", Reading, {p}, None, None)
    BY <1>1 DEF recordPayment
  <2> DEFINE q == [op |-> "recordPayment", read |-> Reading, rows |-> {p},
                   status |-> None, total |-> None]
  <2>2. q \in Request /\ Carries(q, "read")
    BY <1>0, ReadingType DEF Request, Operation, Carries
  <2> QED  BY <2>1, <2>2, BeginsStep
<1>2. ASSUME deletePayment(k) PROVE IInv'
  <2>1. PICK p \in Payment :
          req' = [req EXCEPT ![k] = [op |-> "deletePayment", read |-> None,
                                     rows |-> {p}, status |-> None, total |-> None]]
    BY <1>2 DEF deletePayment
  <2> DEFINE q == [op |-> "deletePayment", read |-> None, rows |-> {p},
                   status |-> None, total |-> None]
  <2>2. q \in Request /\ Carries(q, "found")
    BY DEF Request, Operation, Carries
  <2>3. /\ pc' = [pc EXCEPT ![k] = "found"]
        /\ UNCHANGED <<invoice, payments, stale>>
    BY <1>2 DEF deletePayment
  <2>4. ASSUME NEW l \in Client
        PROVE  /\ IF pc'[l] = "idle" THEN req'[l] = None ELSE req'[l] \in Request
               /\ pc'[l] # "idle" => Carries(req'[l], pc'[l])
    BY <2>1, <2>2, <2>3 DEF IInv, TypeOK
  <2> QED  BY <2>1, <2>3, <2>4 DEF IInv, TypeOK
<1>3. ASSUME updateInvoice(k) PROVE IInv'
  <2>1. PICK s \in Patched \cup {None}, t \in Total \cup {None} :
          Begins(k, "updateInvoice", EditReading(t), {}, s, t)
    BY <1>3 DEF updateInvoice
  <2> DEFINE q == [op |-> "updateInvoice", read |-> EditReading(t), rows |-> {},
                   status |-> s, total |-> t]
  <2>2. EditReading(t) \in Read \cup {None} /\ (t # None => EditReading(t) \in Read)
    BY <1>0, ReadingType DEF EditReading
  <2>3. q \in Request /\ Carries(q, "read")
    BY <2>2, InvoiceAssumption DEF Request, Operation, Carries
  <2> QED  BY <2>1, <2>3, BeginsStep
<1>4. ASSUME NEW op \in {"deleteInvoice", "markInvoiceSent", "cancelInvoice"},
             Begins(k, op, None, {}, None, None)
      PROVE  IInv'
  <2> DEFINE q == [op |-> op, read |-> None, rows |-> {}, status |-> None, total |-> None]
  <2>1. q \in Request /\ Carries(q, "read")
    BY DEF Request, Operation, Carries
  <2> QED  BY <1>4, <2>1, BeginsStep
<1> QED  BY <1>1, <1>2, <1>3, <1>4 DEF Start, deleteInvoice, markInvoiceSent, cancelInvoice

LEMMA AdvanceStep == ASSUME IInv, NEW k \in Client, Advance(k) PROVE IInv'
<1>0. invoice \in Invoice
  BY DEF IInv, TypeOK
<1>1. ASSUME deletePaymentRead(k) PROVE IInv'
  <2> DEFINE q == [req[k] EXCEPT !.read = [Reading EXCEPT !.status = None]]
  <2>1. /\ pc[k] = "found"
        /\ pc' = [pc EXCEPT ![k] = "read"]
        /\ req' = [req EXCEPT ![k] = q]
        /\ UNCHANGED <<invoice, payments, stale>>
    BY <1>1 DEF deletePaymentRead
  <2>2. req[k] \in Request /\ Carries(req[k], "found")
    BY <2>1 DEF IInv, TypeOK
  <2>3. q \in Request /\ Carries(q, "read")
    BY <1>0, <2>2, ReadingType DEF Request, Carries
  <2>4. ASSUME NEW l \in Client
        PROVE  /\ IF pc'[l] = "idle" THEN req'[l] = None ELSE req'[l] \in Request
               /\ pc'[l] # "idle" => Carries(req'[l], pc'[l])
    BY <2>1, <2>3 DEF IInv, TypeOK
  <2> QED  BY <2>1, <2>4 DEF IInv, TypeOK
<1>2. ASSUME deletePaymentNotFound(k) PROVE IInv'
  BY <1>2, EndsStep DEF deletePaymentNotFound, IInv, TypeOK
<1>3. ASSUME MoveRows(k) PROVE IInv'
  <2>1. /\ pc[k] = "read"
        /\ pc' = [pc EXCEPT ![k] = "moved"]
        /\ UNCHANGED <<invoice, payments, stale>>
    BY <1>3 DEF MoveRows
  <2>2. req[k] \in Request /\ Carries(req[k], "read")
    BY <2>1 DEF IInv, TypeOK
  <2>3. CASE req' = req
    <3>1. ASSUME NEW l \in Client
          PROVE  /\ IF pc'[l] = "idle" THEN req'[l] = None ELSE req'[l] \in Request
                 /\ pc'[l] # "idle" => Carries(req'[l], pc'[l])
      BY <2>1, <2>2, <2>3 DEF IInv, TypeOK, Carries
    <3> QED  BY <2>1, <2>3, <3>1 DEF IInv, TypeOK
  <2>4. CASE /\ req[k].op = "deleteInvoice"
             /\ req' = [req EXCEPT ![k].rows = {p \in Payment : payments[p] = "stored"}]
    <3> DEFINE q == [req[k] EXCEPT !.rows = {p \in Payment : payments[p] = "stored"}]
    <3>1. q \in Request /\ Carries(q, "moved") /\ req' = [req EXCEPT ![k] = q]
      BY <2>2, <2>4 DEF Request, Carries
    <3>2. ASSUME NEW l \in Client
          PROVE  /\ IF pc'[l] = "idle" THEN req'[l] = None ELSE req'[l] \in Request
                 /\ pc'[l] # "idle" => Carries(req'[l], pc'[l])
      BY <2>1, <3>1 DEF IInv, TypeOK
    <3> QED  BY <2>1, <3>1, <3>2 DEF IInv, TypeOK
  <2> QED  BY <1>3, <2>3, <2>4 DEF MoveRows
<1>4. ASSUME WriteInvoice(k) PROVE IInv'
  <2>1. /\ pc[k] \in {"read", "moved"}
        /\ pc' = [pc EXCEPT ![k] = "written"]
        /\ UNCHANGED <<invoice, payments, req, stale>>
    BY <1>4 DEF WriteInvoice
  <2>2. ASSUME NEW l \in Client
        PROVE  /\ IF pc'[l] = "idle" THEN req'[l] = None ELSE req'[l] \in Request
               /\ pc'[l] # "idle" => Carries(req'[l], pc'[l])
    BY <2>1 DEF IInv, TypeOK, Carries
  <2> QED  BY <2>1, <2>2 DEF IInv, TypeOK
<1>5. ASSUME Commit(k) PROVE IInv'
  <2>1. pc[k] = "written" /\ req[k] \in Request /\ Carries(req[k], "written")
    BY <1>5 DEF Commit, IInv, TypeOK
  <2>2. invoice' \in Invoice
    BY <1>0, <1>5, <2>1, UpdatedType DEF Commit
  <2>3. payments' \in [Payment -> {"new", "stored", "deleted"}]
    BY <1>5 DEF Commit, IInv, TypeOK
  <2>4. stale' \in BOOLEAN
    BY <1>5 DEF Commit, IInv, TypeOK
  <2> QED  BY <1>5, <2>2, <2>3, <2>4, EndsStep DEF Commit
<1>6. ASSUME DeadlockVictim(k) PROVE IInv'
  BY <1>6, EndsStep DEF DeadlockVictim, IInv, TypeOK
<1> QED  BY <1>1, <1>2, <1>3, <1>4, <1>5, <1>6 DEF Advance

LEMMA InvStep == IInv /\ [Next]_vars => IInv'
<1> SUFFICES ASSUME IInv, [Next]_vars PROVE IInv'
  OBVIOUS
<1>1. ASSUME NEW k \in Client, Start(k) \/ Advance(k) PROVE IInv'
  BY <1>1, StartStep, AdvanceStep
<1>2. ASSUME NEW k \in Client, Fail(k) PROVE IInv'
  BY <1>2, EndsStep DEF Fail, IInv, TypeOK
<1>3. ASSUME markOverdueInvoices PROVE IInv'
  <2>1. invoice' \in Invoice
    BY <1>3 DEF markOverdueInvoices, IInv, TypeOK, Invoice, Status
  <2> QED  BY <1>3, <2>1 DEF markOverdueInvoices, IInv, TypeOK
<1>4. CASE UNCHANGED vars
  BY <1>4 DEF vars, IInv, TypeOK
<1> QED  BY <1>1, <1>2, <1>3, <1>4 DEF Next

LEMMA InvInit == Init => IInv
<1> SUFFICES ASSUME Init PROVE IInv
  OBVIOUS
<1>1. PICK s \in Patched \cup {"DRAFT"}, t \in Total :
        invoice = [status |-> s, total |-> t, amountPaid |-> 0, amountDue |-> t,
                   deleted |-> FALSE]
  BY DEF Init
<1>2. s \in Status /\ t \in Int
  BY InvoiceAssumption DEF Status
<1>3. invoice \in Invoice
  BY <1>1, <1>2 DEF Invoice
<1> QED  BY <1>3 DEF Init, IInv, TypeOK

\* Every variable keeps its type, for any clients, payments, amounts and totals.
THEOREM TypeCorrect == Spec => []TypeOK
<1>1. IInv => TypeOK
  BY DEF IInv
<1> QED  BY InvInit, InvStep, <1>1, PTL DEF Spec

-----------------------------------------------------------------------------
(* What an UPDATE does to the amounts *)

\* An UPDATE whose amounts were read after their last change leaves amountDue what
\* is left of the total.
LEMMA UpdatedDue ==
    ASSUME invoice \in Invoice, NEW k \in Client, req[k] \in Request,
           Carries(req[k], "written"), Fresh(k),
           invoice.amountDue = invoice.total - invoice.amountPaid
    PROVE  LET u == Updated(req[k]) IN u.amountDue = u.total - u.amountPaid
<1> DEFINE q == req[k]
<1>1. CASE q.op \in {"recordPayment", "deletePayment"}
  <2>1. q.read.total = invoice.total
    BY <1>1, InvoiceAssumption DEF Fresh, Carries
  <2>2. CASE q.op = "recordPayment"
    BY <2>1, <2>2 DEF Updated, recordPaymentUpdate, Invoice
  <2>3. CASE q.op = "deletePayment"
    BY <2>1, <2>3 DEF Updated, deletePaymentUpdate, Invoice
  <2> QED  BY <1>1, <2>2, <2>3
<1>2. CASE q.op = "updateInvoice"
  <2>1. q.total # None => q.read.amountPaid = invoice.amountPaid
    BY <1>2 DEF Fresh, ReplacesItems
  <2> QED  BY <1>2, <2>1 DEF Updated, updateInvoiceUpdate, Invoice
<1>3. CASE q.op \in {"deleteInvoice", "markInvoiceSent", "cancelInvoice"}
  BY <1>3 DEF Updated, Invoice
<1> QED  BY <1>1, <1>2, <1>3 DEF Request, Operation

-----------------------------------------------------------------------------
\* amountDue is what is left of the total after every payment, deletion and edit,
\* in any order, until a request commits on an outdated read.
THEOREM DueIsAlwaysRest == Spec => []DueIsRest
<1>1. Init => DueIsRest
  <2> SUFFICES ASSUME Init PROVE DueIsRest
    OBVIOUS
  <2>1. PICK s \in Patched \cup {"DRAFT"}, t \in Total :
          invoice = [status |-> s, total |-> t, amountPaid |-> 0, amountDue |-> t,
                     deleted |-> FALSE]
    BY DEF Init
  <2>2. t \in Int
    BY InvoiceAssumption
  <2> QED  BY <2>1, <2>2 DEF DueIsRest
<1>2. IInv /\ DueIsRest /\ [Next]_vars => DueIsRest'
  <2> SUFFICES ASSUME IInv, DueIsRest, [Next]_vars PROVE DueIsRest'
    OBVIOUS
  <2>1. ASSUME NEW k \in Client, Commit(k) PROVE DueIsRest'
    <3> SUFFICES ASSUME ~stale, Fresh(k), ~invoice.deleted, ~invoice'.deleted
                 PROVE  invoice'.amountDue = invoice'.total - invoice'.amountPaid
      BY <2>1 DEF Commit, DueIsRest, IInv, TypeOK
    <3>1. /\ invoice \in Invoice /\ req[k] \in Request /\ Carries(req[k], "written")
          /\ invoice' = Updated(req[k])
      BY <2>1 DEF Commit, IInv, TypeOK
    <3> QED  BY <3>1, UpdatedDue DEF DueIsRest
  <2>2. ASSUME markOverdueInvoices PROVE DueIsRest'
    BY <2>2 DEF markOverdueInvoices, DueIsRest, IInv, TypeOK, Invoice
  <2>3. ASSUME UNCHANGED <<invoice, stale>> PROVE DueIsRest'
    BY <2>3 DEF DueIsRest
  <2> QED
    BY <2>1, <2>2, <2>3 DEF Next, Start, Advance, Begins, recordPayment, deletePayment,
       deletePaymentRead, deletePaymentNotFound, updateInvoice, deleteInvoice,
       markInvoiceSent, cancelInvoice, MoveRows, WriteInvoice, Fail, DeadlockVictim, vars
<1> QED  BY InvInit, InvStep, <1>1, <1>2, PTL DEF Spec

-----------------------------------------------------------------------------
(* The payments and what is paid *)

Stored == {p \in Payment : payments[p] = "stored"}

\* What the rows of a request are when it commits: a payment is recorded once,
\* and one that is deleted has been recorded.
Moves(q) ==
    /\ q.op = "recordPayment" => \E p \in Payment : q.rows = {p} /\ payments[p] = "new"
    /\ q.op = "deletePayment" => \E p \in Payment : q.rows = {p} /\ payments[p] # "new"
    /\ q.op = "deleteInvoice" => \A p \in q.rows : payments[p] # "new"
    /\ q.op \in {"updateInvoice", "markInvoiceSent", "cancelInvoice"} => q.rows = {}

Records(k) == pc[k] # "idle" /\ req[k].op = "recordPayment"

Apart ==
    \A k, l \in Client :
        k # l /\ Records(k) /\ Records(l) => req[k].rows \cap req[l].rows = {}

RowsInv ==
    /\ IsFiniteSet(Stored)
    /\ \A k \in Client : pc[k] # "idle" => Moves(req[k])
    /\ Apart

\* A request gets or changes its record; no payment moves.
LEMMA SetsRows ==
    ASSUME IInv, RowsInv, NEW k \in Client, NEW q, NEW c,
           req' = [req EXCEPT ![k] = q], pc' = [pc EXCEPT ![k] = c],
           payments' = payments, Moves(q),
           q.op = "recordPayment" =>
               \A l \in Client \ {k} : pc[l] # "idle" => q.rows \cap req[l].rows = {}
    PROVE  RowsInv'
<1>1. /\ req'[k] = q /\ pc'[k] = c
      /\ \A l \in Client \ {k} : req'[l] = req[l] /\ pc'[l] = pc[l]
  BY DEF IInv, TypeOK
<1>2. Stored' = Stored
  BY DEF Stored
<1>3. ASSUME NEW l \in Client, pc'[l] # "idle" PROVE Moves(req[l])'
  <2>1. CASE l = k
    BY <1>1, <2>1 DEF Moves
  <2>2. CASE l # k
    <3>1. Moves(req[l]) /\ req'[l] = req[l]
      BY <1>1, <1>3, <2>2 DEF RowsInv
    <3> QED  BY <3>1 DEF Moves
  <2> QED  BY <2>1, <2>2
<1>4. Apart'
  BY <1>1 DEF RowsInv, Apart, Records
<1> QED  BY <1>2, <1>3, <1>4 DEF RowsInv

\* A request that ends leaves the others as they were; a payment it has stored is
\* not one that another request is going to store.
LEMMA EndsRows ==
    ASSUME IInv, RowsInv, NEW k \in Client, Ends(k),
           payments' = payments \/ Commit(k)
    PROVE  RowsInv'
<1>1. /\ pc'[k] = "idle"
      /\ \A l \in Client \ {k} : req'[l] = req[l] /\ pc'[l] = pc[l]
  BY DEF Ends, IInv, TypeOK
<1>2. Apart'
  BY <1>1 DEF RowsInv, Apart, Records
<1>3. CASE payments' = payments
  BY <1>1, <1>2, <1>3 DEF RowsInv, Moves, Stored
<1>4. CASE Commit(k)
  <2> DEFINE rows == req[k].rows
  <2>1. /\ pc[k] = "written" /\ Moves(req[k])
        /\ \A p \in Payment : payments'[p] =
              IF p \notin rows THEN payments[p]
              ELSE IF req[k].op = "recordPayment" THEN "stored" ELSE "deleted"
    BY <1>4 DEF Commit, RowsInv
  <2>2. ASSUME NEW l \in Client, pc'[l] # "idle" PROVE Moves(req[l])'
    <3>1. l # k /\ req'[l] = req[l] /\ pc[l] # "idle" /\ Moves(req[l])
      BY <1>1, <2>2 DEF RowsInv
    <3>2. \A p \in Payment : payments[p] # "new" => payments'[p] # "new"
      BY <2>1
    <3>3. req[l].rows \subseteq Payment
      BY <3>1 DEF IInv, TypeOK, Request
    <3>4. ASSUME req[l].op = "recordPayment", NEW p \in Payment, req[l].rows = {p},
                 payments[p] = "new"
          PROVE  payments'[p] = "new"
      <4>1. CASE req[k].op = "recordPayment"
        <5>1. req[k].rows \cap req[l].rows = {}
          BY <2>1, <3>1, <3>4, <4>1 DEF RowsInv, Apart, Records
        <5> QED  BY <2>1, <3>4, <5>1
      <4>2. CASE req[k].op # "recordPayment"
        <5>1. req[k].op \in Operation
          BY <2>1 DEF IInv, TypeOK, Request
        <5>2. \A r \in rows : payments[r] # "new"
          BY <2>1, <4>2, <5>1 DEF Moves, Operation
        <5> QED  BY <2>1, <3>4, <5>2
      <4> QED  BY <4>1, <4>2
    <3> QED  BY <3>1, <3>2, <3>3, <3>4 DEF Moves
  <2>3. IsFiniteSet(Stored')
    <3>1. CASE req[k].op = "recordPayment"
      <4>1. PICK p \in Payment : rows = {p}
        BY <2>1, <3>1 DEF Moves
      <4>2. Stored' = Stored \cup {p}
        BY <2>1, <3>1, <4>1 DEF Stored
      <4> QED  BY <4>2, FS_AddElement DEF RowsInv
    <3>2. CASE req[k].op # "recordPayment"
      <4>1. Stored' \subseteq Stored
        BY <2>1, <3>2 DEF Stored
      <4> QED  BY <4>1, FS_Subset DEF RowsInv
    <3> QED  BY <3>1, <3>2
  <2> QED  BY <1>2, <2>2, <2>3 DEF RowsInv
<1> QED  BY <1>3, <1>4

LEMMA RowsStep ==
    ASSUME IInv, RowsInv, [Next]_vars
    PROVE  RowsInv'
<1>1. ASSUME NEW k \in Client, recordPayment(k) PROVE RowsInv'
  <2>1. PICK p \in Payment :
          /\ payments[p] = "new"
          /\ \A l \in Client : pc[l] # "idle" => p \notin req[l].rows
          /\ Begins(k, "recordPayment", Reading, {p}, None, None)
    BY <1>1 DEF recordPayment
  <2> DEFINE q == [op |-> "recordPayment", read |-> Reading, rows |-> {p},
                   status |-> None, total |-> None]
  <2>2. req' = [req EXCEPT ![k] = q] /\ pc' = [pc EXCEPT ![k] = "read"]
        /\ payments' = payments
    BY <2>1 DEF Begins
  <2>3. Moves(q) /\ \A l \in Client \ {k} : pc[l] # "idle" => q.rows \cap req[l].rows = {}
    BY <2>1 DEF Moves
  <2> HIDE DEF q
  <2> QED  BY <2>2, <2>3, SetsRows
<1>2. ASSUME NEW k \in Client, deletePayment(k) PROVE RowsInv'
  <2>1. PICK p \in Payment :
          /\ payments[p] = "stored"
          /\ req' = [req EXCEPT ![k] = [op |-> "deletePayment", read |-> None,
                                        rows |-> {p}, status |-> None, total |-> None]]
    BY <1>2 DEF deletePayment
  <2> DEFINE q == [op |-> "deletePayment", read |-> None, rows |-> {p},
                   status |-> None, total |-> None]
  <2>2. req' = [req EXCEPT ![k] = q] /\ pc' = [pc EXCEPT ![k] = "found"]
        /\ payments' = payments
    BY <1>2, <2>1 DEF deletePayment
  <2>3. Moves(q) /\ q.op # "recordPayment"
    BY <2>1 DEF Moves
  <2> HIDE DEF q
  <2> QED  BY <2>2, <2>3, SetsRows
<1>3. ASSUME NEW k \in Client, NEW op \in Operation \ {"recordPayment", "deletePayment"},
             NEW read, NEW s, NEW t, Begins(k, op, read, {}, s, t)
      PROVE  RowsInv'
  <2> DEFINE q == [op |-> op, read |-> read, rows |-> {}, status |-> s, total |-> t]
  <2>1. req' = [req EXCEPT ![k] = q] /\ pc' = [pc EXCEPT ![k] = "read"]
        /\ payments' = payments
    BY <1>3 DEF Begins
  <2>2. Moves(q) /\ q.op # "recordPayment"
    BY DEF Moves
  <2> HIDE DEF q
  <2> QED  BY <2>1, <2>2, SetsRows
<1>4. ASSUME NEW k \in Client, Start(k) PROVE RowsInv'
  BY <1>1, <1>2, <1>3, <1>4 DEF Start, updateInvoice, deleteInvoice, markInvoiceSent,
     cancelInvoice, Operation
<1>5. ASSUME NEW k \in Client, deletePaymentRead(k) PROVE RowsInv'
  <2> DEFINE q == [req[k] EXCEPT !.read = [Reading EXCEPT !.status = None]]
  <2>1. /\ pc[k] = "found" /\ req[k] \in Request /\ Carries(req[k], "found")
        /\ Moves(req[k])
    BY <1>5 DEF deletePaymentRead, IInv, TypeOK, RowsInv
  <2>2. req' = [req EXCEPT ![k] = q] /\ pc' = [pc EXCEPT ![k] = "read"]
        /\ payments' = payments
    BY <1>5 DEF deletePaymentRead
  <2>3. q.op = "deletePayment" /\ q.rows = req[k].rows
    BY <2>1 DEF Request, Carries
  <2> HIDE DEF q
  <2>4. Moves(q)
    BY <2>1, <2>3 DEF Moves, Carries
  <2> QED  BY <2>2, <2>3, <2>4, SetsRows
<1>6. ASSUME NEW k \in Client, MoveRows(k), req[k].op = "deleteInvoice" PROVE RowsInv'
  <2> DEFINE q == [req[k] EXCEPT !.rows = {p \in Payment : payments[p] = "stored"}]
  <2>1. req[k] \in Request
    BY <1>6 DEF MoveRows, IInv, TypeOK
  <2>2. req' = [req EXCEPT ![k] = q] /\ pc' = [pc EXCEPT ![k] = "moved"]
        /\ payments' = payments
    BY <1>6 DEF MoveRows, ReplacesItems
  <2>3. q.op = "deleteInvoice" /\ q.rows = {p \in Payment : payments[p] = "stored"}
    BY <1>6, <2>1 DEF Request
  <2> HIDE DEF q
  <2>4. Moves(q)
    BY <2>3 DEF Moves
  <2> QED  BY <2>2, <2>3, <2>4, SetsRows
<1>7. ASSUME NEW k \in Client, NEW c, pc[k] # "idle", pc' = [pc EXCEPT ![k] = c],
             req' = req, payments' = payments
      PROVE  RowsInv'
  <2>1. Stored' = Stored /\ \A l \in Client : pc'[l] # "idle" => pc[l] # "idle"
    BY <1>7 DEF Stored, IInv, TypeOK
  <2>2. \A l \in Client : pc'[l] # "idle" => Moves(req[l])'
    BY <1>7, <2>1 DEF RowsInv, Moves
  <2>3. Apart'
    BY <1>7, <2>1 DEF RowsInv, Apart, Records
  <2> QED  BY <1>7, <2>1, <2>2, <2>3 DEF RowsInv
<1>8. ASSUME NEW k \in Client, Ends(k), payments' = payments \/ Commit(k) PROVE RowsInv'
  BY <1>8, EndsRows
<1>9. ASSUME UNCHANGED <<payments, pc, req>> PROVE RowsInv'
  BY <1>9 DEF RowsInv, Stored, Moves, Apart, Records
<1>10. ASSUME NEW k \in Client, Advance(k) \/ Fail(k) PROVE RowsInv'
  <2>1. CASE MoveRows(k) /\ req[k].op # "deleteInvoice"
    BY <1>7, <2>1 DEF MoveRows
  <2>2. CASE WriteInvoice(k)
    BY <1>7, <2>2 DEF WriteInvoice
  <2>3. CASE Commit(k)
    BY <1>8, <2>3 DEF Commit
  <2>4. CASE deletePaymentNotFound(k) \/ DeadlockVictim(k) \/ Fail(k)
    BY <1>8, <2>4 DEF deletePaymentNotFound, DeadlockVictim, Fail
  <2> QED  BY <1>5, <1>6, <1>10, <2>1, <2>2, <2>3, <2>4 DEF Advance
<1> QED  BY <1>4, <1>9, <1>10 DEF Next, markOverdueInvoices, vars

\* What the UPDATE of a request does to amountPaid.
LEMMA UpdatedPaid ==
    ASSUME invoice \in Invoice, NEW k \in Client, req[k] \in Request,
           Carries(req[k], "written"), Fresh(k)
    PROVE  LET q == req[k]  u == Updated(q) IN
           /\ q.op = "recordPayment" =>
                  \A p \in Payment : q.rows = {p} => u.amountPaid = invoice.amountPaid + amount[p]
           /\ q.op = "deletePayment" =>
                  \A p \in Payment : q.rows = {p} => u.amountPaid = invoice.amountPaid - amount[p]
           /\ q.op = "deleteInvoice" => u.deleted
           /\ q.op \notin {"recordPayment", "deletePayment"} =>
                  u.amountPaid = invoice.amountPaid
<1> DEFINE q == req[k]
<1>1. CASE q.op = "recordPayment"
  BY <1>1 DEF Updated, recordPaymentUpdate, Amount, Fresh, Invoice
<1>2. CASE q.op = "deletePayment"
  BY <1>2 DEF Updated, deletePaymentUpdate, Amount, Fresh, Invoice
<1>3. CASE q.op = "updateInvoice"
  BY <1>3 DEF Updated, updateInvoiceUpdate, Invoice
<1>4. CASE q.op \in {"deleteInvoice", "markInvoiceSent", "cancelInvoice"}
  BY <1>4 DEF Updated, Invoice
<1> QED  BY <1>1, <1>2, <1>3, <1>4 DEF Request, Operation

LEMMA PaidStep ==
    ASSUME IInv, RowsInv, PaidIsSum, NEW k \in Client, Commit(k)
    PROVE  PaidIsSum'
<1> SUFFICES ASSUME ~stale, Fresh(k), ~invoice.deleted, ~invoice'.deleted
             PROVE  invoice'.amountPaid = Received'
  BY DEF Commit, PaidIsSum, IInv, TypeOK
<1> DEFINE q == req[k]
<1>1. /\ invoice \in Invoice /\ q \in Request /\ Carries(q, "written")
      /\ invoice' = Updated(q) /\ Moves(q)
      /\ \A p \in Payment : payments'[p] =
            IF p \notin q.rows THEN payments[p]
            ELSE IF q.op = "recordPayment" THEN "stored" ELSE "deleted"
  BY DEF Commit, IInv, TypeOK, RowsInv
<1>2. /\ Received = SumFunctionOnSet(amount, Stored)
      /\ Received' = SumFunctionOnSet(amount, Stored')
      /\ invoice.amountPaid = Received
      /\ invoice.amountPaid \in Int
  BY <1>1 DEF Received, Stored, PaidIsSum, Invoice
<1>3. IsFiniteSet(Stored) /\ Stored \subseteq Payment
  BY DEF RowsInv, Stored
<1>4. \A p \in Payment : amount[p] \in Int
  BY InvoiceAssumption
<1>5. CASE q.op = "recordPayment"
  <2>1. PICK p \in Payment : q.rows = {p} /\ payments[p] = "new"
    BY <1>1, <1>5 DEF Moves
  <2>2. p \notin Stored /\ Stored' = Stored \cup {p}
    BY <1>1, <1>5, <2>1 DEF Stored
  <2>3. SumFunctionOnSet(amount, Stored \cup {p}) = SumFunctionOnSet(amount, Stored) + amount[p]
    BY <1>3, <1>4, <2>2, SumOfMore
  <2>4. invoice'.amountPaid = invoice.amountPaid + amount[p]
    BY <1>1, <1>5, <2>1, UpdatedPaid
  <2> QED  BY <1>2, <2>2, <2>3, <2>4
<1>6. CASE q.op = "deletePayment"
  <2>1. PICK p \in Payment : q.rows = {p}
    BY <1>1, <1>6 DEF Moves
  <2>2. p \in Stored /\ Stored' = Stored \ {p}
    BY <1>1, <1>6, <2>1 DEF Stored, Fresh
  <2>3. /\ SumFunctionOnSet(amount, Stored) = amount[p] + SumFunctionOnSet(amount, Stored \ {p})
        /\ SumFunctionOnSet(amount, Stored \ {p}) \in Int
    BY <1>3, <1>4, <2>2, SumOfRest
  <2>4. invoice'.amountPaid = invoice.amountPaid - amount[p]
    BY <1>1, <1>6, <2>1, UpdatedPaid
  <2> QED  BY <1>2, <1>4, <2>2, <2>3, <2>4
<1>7. CASE q.op \in {"updateInvoice", "markInvoiceSent", "cancelInvoice"}
  <2>1. Stored' = Stored
    BY <1>1, <1>7 DEF Moves, Stored
  <2>2. invoice'.amountPaid = invoice.amountPaid
    BY <1>1, <1>7, UpdatedPaid
  <2> QED  BY <1>2, <2>1, <2>2
<1>8. q.op # "deleteInvoice"
  BY <1>1, UpdatedPaid
<1> QED  BY <1>1, <1>5, <1>6, <1>7, <1>8 DEF Request, Operation

LEMMA PaidInit == Init => RowsInv /\ PaidIsSum
<1> SUFFICES ASSUME Init PROVE RowsInv /\ PaidIsSum
  OBVIOUS
<1>1. Stored = {}
  BY DEF Init, Stored
<1>2. Received = 0
  BY <1>1, SumOfNone DEF Received, Stored
<1>3. PICK s \in Patched \cup {"DRAFT"}, t \in Total :
        invoice = [status |-> s, total |-> t, amountPaid |-> 0, amountDue |-> t,
                   deleted |-> FALSE]
  BY DEF Init
<1>4. invoice.amountPaid = 0
  BY <1>3
<1> QED  BY <1>1, <1>2, <1>4, FS_EmptySet DEF Init, RowsInv, Apart, Records, PaidIsSum

\* amountPaid is the sum of the payments after every payment, deletion and edit, in
\* any order and however many, until a request commits on an outdated read.
THEOREM PaidIsAlwaysSum == Spec => []PaidIsSum
<1>1. IInv /\ RowsInv /\ PaidIsSum /\ [Next]_vars => RowsInv' /\ PaidIsSum'
  <2> SUFFICES ASSUME IInv, RowsInv, PaidIsSum, [Next]_vars PROVE RowsInv' /\ PaidIsSum'
    OBVIOUS
  <2>1. RowsInv'
    BY RowsStep
  <2>2. ASSUME NEW k \in Client, Commit(k) PROVE PaidIsSum'
    BY <2>2, PaidStep
  <2>3. ASSUME markOverdueInvoices PROVE PaidIsSum'
    BY <2>3 DEF markOverdueInvoices, PaidIsSum, Received, IInv, TypeOK, Invoice
  <2>4. ASSUME UNCHANGED <<invoice, payments, stale>> PROVE PaidIsSum'
    BY <2>4 DEF PaidIsSum, Received
  <2>5. PaidIsSum'
    BY <2>2, <2>3, <2>4 DEF Next, Start, Advance, Begins, recordPayment, deletePayment,
       deletePaymentRead, deletePaymentNotFound, updateInvoice, deleteInvoice,
       markInvoiceSent, cancelInvoice, MoveRows, WriteInvoice, Fail, DeadlockVictim, vars
  <2> QED  BY <2>1, <2>5
<1> QED  BY InvInit, InvStep, PaidInit, <1>1, PTL DEF Spec

-----------------------------------------------------------------------------
(* Requests served one after the other *)

\* What a request has read is still so.
StillSo ==
    \A k \in Client :
        /\ pc[k] \in {"read", "moved", "written"} => Fresh(k)
        /\ pc[k] = "found" => \A p \in req[k].rows : payments[p] = "stored"

LEMMA StartStillSo ==
    ASSUME IInv, StillSo, ~stale, NEW k \in Client, Start(k),
           \A l, n \in Client : l = n
    PROVE  StillSo' /\ ~stale'
<1>1. /\ UNCHANGED <<invoice, payments, stale>>
      /\ \A l \in Client : l = k
  BY DEF Start, Begins, recordPayment, deletePayment, updateInvoice, deleteInvoice,
     markInvoiceSent, cancelInvoice
<1>2. CASE recordPayment(k)
  <2>1. req'[k].op = "recordPayment" /\ req'[k].read = Reading /\ pc'[k] = "read"
    BY <1>2 DEF recordPayment, Begins, IInv, TypeOK
  <2> QED  BY <1>1, <2>1 DEF StillSo, Fresh, Reading, ReplacesItems
<1>3. CASE deletePayment(k)
  <2>1. pc'[k] = "found" /\ \A p \in req'[k].rows : payments[p] = "stored"
    BY <1>3 DEF deletePayment, IInv, TypeOK
  <2> QED  BY <1>1, <2>1 DEF StillSo
<1>4. CASE updateInvoice(k)
  <2>1. PICK t \in Total \cup {None} :
          req'[k].op = "updateInvoice" /\ req'[k].total = t
          /\ req'[k].read = EditReading(t) /\ pc'[k] = "read"
    BY <1>4 DEF updateInvoice, Begins, IInv, TypeOK
  <2>2. t # None => /\ req'[k].read.amountPaid = invoice.amountPaid
                    /\ req'[k].read.total = None
    BY <2>1 DEF EditReading, Reading
  <2> QED  BY <1>1, <2>1, <2>2 DEF StillSo, Fresh, ReplacesItems
<1>5. CASE deleteInvoice(k) \/ markInvoiceSent(k) \/ cancelInvoice(k)
  <2>1. /\ req'[k].op \in {"deleteInvoice", "markInvoiceSent", "cancelInvoice"}
        /\ pc'[k] = "read"
    BY <1>5 DEF deleteInvoice, markInvoiceSent, cancelInvoice, Begins, IInv, TypeOK
  <2> QED  BY <1>1, <2>1 DEF StillSo, Fresh, ReplacesItems
<1> QED  BY <1>2, <1>3, <1>4, <1>5 DEF Start

LEMMA AdvanceStillSo ==
    ASSUME IInv, StillSo, ~stale, NEW k \in Client, Advance(k) \/ Fail(k),
           \A l, n \in Client : l = n
    PROVE  StillSo' /\ ~stale'
<1>0. \A l \in Client : l = k
  OBVIOUS
<1>1. CASE deletePaymentRead(k)
  <2>1. /\ req'[k] = [req[k] EXCEPT !.read = [Reading EXCEPT !.status = None]]
        /\ pc[k] = "found" /\ pc'[k] = "read" /\ UNCHANGED <<invoice, payments, stale>>
    BY <1>1 DEF deletePaymentRead, IInv, TypeOK
  <2>2. req[k] \in Request /\ \A p \in req[k].rows : payments[p] = "stored"
    BY <2>1 DEF IInv, TypeOK, StillSo
  <2>3. /\ req'[k].read.amountPaid = invoice.amountPaid
        /\ req'[k].read.total = invoice.total
        /\ req'[k].rows = req[k].rows
    BY <2>1, <2>2 DEF Request, Reading
  <2> QED  BY <1>0, <2>1, <2>2, <2>3 DEF StillSo, Fresh
<1>2. CASE MoveRows(k)
  <2>1. /\ pc[k] = "read" /\ pc'[k] = "moved" /\ UNCHANGED <<invoice, payments, stale>>
        /\ \/ req'[k] = req[k]
           \/ req'[k].op = "deleteInvoice"
    <3>1. CASE req' = req
      BY <1>2, <3>1 DEF MoveRows, IInv, TypeOK
    <3>2. CASE /\ req[k].op = "deleteInvoice"
               /\ req' = [req EXCEPT ![k].rows = {p \in Payment : payments[p] = "stored"}]
      BY <1>2, <3>2 DEF MoveRows, IInv, TypeOK, Request
    <3> QED  BY <1>2, <3>1, <3>2 DEF MoveRows
  <2> QED  BY <1>0, <2>1 DEF StillSo, Fresh, ReplacesItems
<1>3. CASE WriteInvoice(k)
  <2>1. /\ pc[k] \in {"read", "moved"} /\ pc'[k] = "written"
        /\ UNCHANGED <<invoice, payments, req, stale>>
    BY <1>3 DEF WriteInvoice, IInv, TypeOK
  <2> QED  BY <1>0, <2>1 DEF StillSo, Fresh, ReplacesItems
<1>4. CASE Commit(k)
  <2>1. pc'[k] = "idle" /\ Fresh(k) /\ stale' = stale
    BY <1>4 DEF Commit, Ends, StillSo, IInv, TypeOK
  <2> QED  BY <1>0, <2>1 DEF StillSo
<1>5. CASE deletePaymentNotFound(k) \/ DeadlockVictim(k) \/ Fail(k)
  <2>1. pc'[k] = "idle" /\ stale' = stale
    BY <1>5 DEF deletePaymentNotFound, DeadlockVictim, Fail, Ends, IInv, TypeOK
  <2> QED  BY <1>0, <2>1 DEF StillSo
<1> QED  BY <1>1, <1>2, <1>3, <1>4, <1>5 DEF Advance

\* When a single client sends the requests, none of them commits on an outdated
\* read: the nightly job, failures and rollbacks change no amount.
THEOREM SerialNeverStale ==
    ASSUME \A k, l \in Client : k = l
    PROVE  Spec => []~stale
<1> DEFINE SInv == StillSo /\ ~stale
<1>1. Init => SInv
  BY DEF Init, StillSo
<1>2. IInv /\ SInv /\ [Next]_vars => SInv'
  <2> SUFFICES ASSUME IInv, StillSo, ~stale, [Next]_vars PROVE StillSo' /\ ~stale'
    OBVIOUS
  <2>1. ASSUME NEW k \in Client, Start(k) PROVE StillSo' /\ ~stale'
    BY <2>1, StartStillSo
  <2>2. ASSUME NEW k \in Client, Advance(k) \/ Fail(k) PROVE StillSo' /\ ~stale'
    BY <2>2, AdvanceStillSo
  <2>3. ASSUME markOverdueInvoices PROVE StillSo' /\ ~stale'
    BY <2>3 DEF markOverdueInvoices, StillSo, Fresh, ReplacesItems, IInv, TypeOK, Invoice
  <2>4. CASE UNCHANGED vars
    BY <2>4 DEF vars, StillSo, Fresh, ReplacesItems
  <2> QED  BY <2>1, <2>2, <2>3, <2>4 DEF Next
<1> QED  BY InvInit, InvStep, <1>1, <1>2, PTL DEF Spec

\* So the amounts of requests that are served one after the other agree always.
THEOREM SerialDueIsRest ==
    ASSUME \A k, l \in Client : k = l
    PROVE  Spec => [](~invoice.deleted =>
                          invoice.amountDue = invoice.total - invoice.amountPaid)
<1>1. ~stale /\ DueIsRest =>
        (~invoice.deleted => invoice.amountDue = invoice.total - invoice.amountPaid)
  BY DEF DueIsRest
<1> QED  BY SerialNeverStale, DueIsAlwaysRest, <1>1, PTL

\* And amountPaid is the sum of the payments always.
THEOREM SerialPaidIsSum ==
    ASSUME \A k, l \in Client : k = l
    PROVE  Spec => [](~invoice.deleted => invoice.amountPaid = Received)
<1>1. ~stale /\ PaidIsSum => (~invoice.deleted => invoice.amountPaid = Received)
  BY DEF PaidIsSum
<1> QED  BY SerialNeverStale, PaidIsAlwaysSum, <1>1, PTL

\* The payment that is being recorded still passes the check that it passed.
StillFits ==
    \A k \in Client : Records(k) =>
        /\ ~invoice.deleted
        /\ \E p \in Payment : req[k].rows = {p} /\ amount[p] <= invoice.amountDue

LEMMA StillFitsStep ==
    ASSUME IInv, StillFits, [Next]_vars, \A l, n \in Client : l = n
    PROVE  StillFits'
<1>1. ASSUME NEW k \in Client, Start(k) PROVE StillFits'
  <2>1. invoice' = invoice /\ \A l \in Client : l = k
    BY <1>1 DEF Start, Begins, recordPayment, deletePayment, updateInvoice, deleteInvoice,
       markInvoiceSent, cancelInvoice
  <2>2. CASE recordPayment(k)
    <3>1. PICK p \in Payment : /\ amount[p] <= invoice.amountDue
                               /\ Begins(k, "recordPayment", Reading, {p}, None, None)
      BY <2>2 DEF recordPayment
    <3>2. ~invoice.deleted /\ req'[k].rows = {p}
      BY <3>1 DEF Begins, IInv, TypeOK
    <3> QED  BY <2>1, <3>1, <3>2 DEF StillFits
  <2>3. CASE deletePayment(k)
    <3>1. req'[k].op = "deletePayment"
      BY <2>3 DEF deletePayment, IInv, TypeOK
    <3> QED  BY <2>1, <3>1 DEF StillFits, Records
  <2>4. ASSUME NEW op \in Operation \ {"recordPayment"}, NEW read, NEW s, NEW t,
               Begins(k, op, read, {}, s, t)
        PROVE  StillFits'
    <3>1. req'[k].op = op
      BY <2>4 DEF Begins, IInv, TypeOK
    <3> QED  BY <2>1, <3>1 DEF StillFits, Records
  <2> QED  BY <1>1, <2>2, <2>3, <2>4 DEF Start, updateInvoice, deleteInvoice,
           markInvoiceSent, cancelInvoice, Operation
<1>2. ASSUME NEW k \in Client, Advance(k) \/ Fail(k) PROVE StillFits'
  <2>0. \A l \in Client : l = k
    OBVIOUS
  <2>1. CASE deletePaymentRead(k)
    <3>1. pc[k] = "found" /\ req[k] \in Request /\ Carries(req[k], "found")
      BY <2>1 DEF deletePaymentRead, IInv, TypeOK
    <3>2. req'[k].op = "deletePayment"
      BY <2>1, <3>1 DEF deletePaymentRead, Carries, Request, IInv, TypeOK
    <3> QED  BY <2>0, <3>2 DEF StillFits, Records
  <2>2. CASE MoveRows(k)
    <3>1. req[k] \in Request /\ pc[k] = "read" /\ invoice' = invoice
      BY <2>2 DEF MoveRows, IInv, TypeOK
    <3>2. CASE req' = req
      BY <2>0, <3>1, <3>2 DEF StillFits, Records
    <3>3. CASE /\ req[k].op = "deleteInvoice"
               /\ req' = [req EXCEPT ![k].rows = {p \in Payment : payments[p] = "stored"}]
      <4>1. req'[k].op = "deleteInvoice"
        BY <3>1, <3>3 DEF Request, IInv, TypeOK
      <4> QED  BY <2>0, <4>1 DEF StillFits, Records
    <3> QED  BY <2>2, <3>2, <3>3 DEF MoveRows
  <2>3. CASE WriteInvoice(k)
    <3>1. req' = req /\ invoice' = invoice /\ pc[k] # "idle"
      BY <2>3 DEF WriteInvoice
    <3> QED  BY <2>0, <3>1 DEF StillFits, Records
  <2>4. CASE Ends(k)
    <3>1. pc'[k] = "idle"
      BY <2>4 DEF Ends, IInv, TypeOK
    <3> QED  BY <2>0, <3>1 DEF StillFits, Records
  <2> QED  BY <1>2, <2>1, <2>2, <2>3, <2>4 DEF Advance, Commit, deletePaymentNotFound,
           DeadlockVictim, Fail
<1>3. ASSUME markOverdueInvoices PROVE StillFits'
  BY <1>3 DEF markOverdueInvoices, StillFits, Records, IInv, TypeOK, Invoice
<1>4. CASE UNCHANGED vars
  BY <1>4 DEF vars, StillFits, Records
<1> QED  BY <1>1, <1>2, <1>3, <1>4 DEF Next

\* When a single client sends the requests, the check of recordPayment is enough:
\* no payment takes what is received past the total.  Two requests that overlap are
\* the only reason that one can.
THEOREM SerialPaymentFits ==
    ASSUME \A k, l \in Client : k = l
    PROVE  Spec => PaymentFitsDue
<1> DEFINE Fits == \A p \in Payment : payments[p] = "new" /\ payments'[p] = "stored" =>
                       Received' <= invoice'.total
<1>1. Init => StillFits
  BY DEF Init, StillFits, Records
<1>2. IInv /\ StillFits /\ [Next]_vars => StillFits'
  BY StillFitsStep
<1>3. ASSUME IInv, RowsInv, StillFits, DueIsRest, PaidIsSum, ~stale, ~stale',
             PaidIsSum', [Next]_vars
      PROVE  Fits
  <2>1. SUFFICES ASSUME NEW p \in Payment, payments[p] = "new", payments'[p] = "stored"
                 PROVE  Received' <= invoice'.total
    OBVIOUS
  <2>2. PICK k \in Client : Commit(k)
    BY <1>3, <2>1 DEF Next, Start, Advance, Begins, recordPayment, deletePayment,
       deletePaymentRead, deletePaymentNotFound, updateInvoice, deleteInvoice,
       markInvoiceSent, cancelInvoice, MoveRows, WriteInvoice, Fail, DeadlockVictim, vars,
       markOverdueInvoices
  <2>3. /\ invoice \in Invoice /\ req[k] \in Request /\ Carries(req[k], "written")
        /\ pc[k] = "written" /\ Fresh(k)
    BY <1>3, <2>2 DEF Commit, IInv, TypeOK
  <2>4. req[k].op = "recordPayment" /\ p \in req[k].rows
    BY <2>1, <2>2 DEF Commit
  <2>5. ~invoice.deleted /\ req[k].rows = {p} /\ amount[p] <= invoice.amountDue
    BY <1>3, <2>3, <2>4 DEF StillFits, Records
  <2>6. invoice' = Updated(req[k])
    BY <2>2, <2>5 DEF Commit
  <2>7. invoice'.amountPaid = invoice.amountPaid + amount[p]
    BY <2>3, <2>4, <2>5, <2>6, UpdatedPaid
  <2>8. invoice'.total = invoice.total /\ ~invoice'.deleted
    BY <2>3, <2>4, <2>5, <2>6 DEF Updated, recordPaymentUpdate, Invoice
  <2>9. invoice.amountDue = invoice.total - invoice.amountPaid
    BY <1>3, <2>5 DEF DueIsRest
  <2>10. invoice'.amountPaid = Received'
    BY <1>3, <2>8 DEF PaidIsSum
  <2>11. /\ invoice.amountPaid \in Int /\ invoice.total \in Int
         /\ amount[p] \in Int
    BY <2>3, InvoiceAssumption DEF Invoice
  <2> QED  BY <2>5, <2>7, <2>8, <2>9, <2>10, <2>11
<1>4. IInv /\ RowsInv /\ [Next]_vars => RowsInv'
  BY RowsStep
<1>5. IInv /\ RowsInv /\ StillFits /\ DueIsRest /\ PaidIsSum /\ ~stale /\ ~stale'
      /\ PaidIsSum' /\ [Next]_vars => [Fits]_vars
  BY <1>3
<1> HIDE DEF Fits
<1>6. Spec => [][Fits]_vars
  BY InvInit, InvStep, PaidInit, SerialNeverStale, PaidIsAlwaysSum, DueIsAlwaysRest,
     <1>1, <1>2, <1>4, <1>5, PTL DEF Spec
<1> QED  BY <1>6 DEF PaymentFitsDue, Fits

=============================================================================
