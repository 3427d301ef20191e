------------------------------ MODULE FinInvoices ------------------------------
(***************************************************************************)
(* One invoice of the finance module, its payments, and the requests that  *)
(* change them.                                                            *)
(*                                                                         *)
(* Every request is a READ COMMITTED transaction: it reads the invoice     *)
(* without a lock, decides on what it read, inserts or deletes payment     *)
(* rows, and writes columns of the invoice that it computed from what it   *)
(* read.  MySQL makes the writes wait for each other:                      *)
(*   - the invoice's row is locked by the transaction that updates it;     *)
(*   - inserting a payment or a line item locks the row its foreign key    *)
(*     names, the invoice, in shared mode, so two such inserts and the     *)
(*     updates that follow them can be a deadlock, which the database      *)
(*     breaks;                                                             *)
(*   - payment rows and line items are locked by the transaction that      *)
(*     inserts or deletes them.                                            *)
(* Other transactions see nothing of this before the commit.               *)
(***************************************************************************)
EXTENDS Integers, Functions

CONSTANTS
    Client,      \* those who send requests, each one at a time
    Payment,     \* ids of payment rows; each is used once
    amount,      \* [Payment -> amounts]
    Total,       \* the totals that line items add up to
    Patched,     \* the statuses that PATCH requests ask for
    None

Status == {"DRAFT", "SENT", "VIEWED", "PARTIALLY_PAID", "PAID", "OVERDUE", "CANCELLED"}

ASSUME InvoiceAssumption ==
    /\ amount \in [Payment -> Nat \ {0}]
    /\ Total \subseteq Nat
    /\ Patched \subseteq Status
    /\ None \notin Int /\ None \notin Status

VARIABLES
    invoice,    \* the invoice: status, total, amountPaid, amountDue, deleted
    payments,   \* payments[p]: a row not made yet, "stored" or "deleted"
    pc,         \* pc[k]: how far the request of k is
    req,        \* req[k]: its operation, the invoice as read, its inputs, or None
    stale       \* a request has committed although what it read had changed

vars == <<invoice, payments, pc, req, stale>>

Invoice == [status: Status, total: Int, amountPaid: Int, amountDue: Int, deleted: BOOLEAN]

Operation == {"recordPayment", "deletePayment", "updateInvoice", "deleteInvoice",
              "markInvoiceSent", "cancelInvoice"}

\* The columns, of the invoice that a request read, that it computes with later.
Read == [status: Status \cup {None}, total: Int \cup {None}, amountPaid: Int]

\* `rows` are the payment rows a request inserts or deletes; `read` is None for a
\* request that uses what it read only to check it.
Request == [op: Operation, read: Read \cup {None}, rows: SUBSET Payment,
            status: Status \cup {None}, total: Total \cup {None}]

-----------------------------------------------------------------------------
(* Locks of the open transactions *)

\* A request that replaces the line items, by one item at least.
ReplacesItems(k) == req[k].op = "updateInvoice" /\ req[k].total # None

\* The shared lock on the invoice that a new row's foreign key takes.
SharesInvoice(k) ==
    /\ pc[k] \in {"moved", "written"}
    /\ req[k].op = "recordPayment" \/ ReplacesItems(k)

WritesInvoice(k) == pc[k] = "written"

\* The payment rows a transaction has inserted or deleted.
LocksItems(k) ==
    /\ pc[k] \in {"moved", "written"}
    /\ req[k].op = "deleteInvoice" \/ ReplacesItems(k)

LocksPayment(k, p) ==
    /\ pc[k] \in {"moved", "written"}
    /\ p \in req[k].rows

\* Mutant: the server runs with deadlock detection switched off.
WaitsForUndetected(k, l) == FALSE

\* A transaction that shares the invoice wants it for itself.
WaitsFor(k, l) ==
    /\ pc[k] = "moved"
    /\ SharesInvoice(k)
    /\ SharesInvoice(l)

-----------------------------------------------------------------------------
(* createInvoice, convertEstimateToInvoice or createInvoiceFromRecurring has *)
(* made the invoice                                                          *)

Init ==
    /\ \E s \in Patched \cup {"DRAFT"}, t \in Total :
         invoice = [status |-> s, total |-> t, amountPaid |-> 0, amountDue |-> t,
                    deleted |-> FALSE]
    /\ payments = [p \in Payment |-> "new"]
    /\ pc = [k \in Client |-> "idle"]
    /\ req = [k \in Client |-> None]
    /\ stale = FALSE

Reading == [status |-> invoice.status, total |-> invoice.total,
            amountPaid |-> invoice.amountPaid]

\* The transaction of k begins, reads the invoice and passes its checks.
Begins(k, op, read, rows, s, t) ==
    /\ pc[k] = "idle"
    /\ ~invoice.deleted
    /\ req' = [req EXCEPT ![k] = [op |-> op, read |-> read, rows |-> rows,
                                  status |-> s, total |-> t]]
    /\ pc' = [pc EXCEPT ![k] = "read"]
    /\ UNCHANGED <<invoice, payments, stale>>

recordPayment(k) ==
    \E p \in Payment :
        /\ payments[p] = "new"
        /\ \A l \in Client : pc[l] # "idle" => p \notin req[l].rows
        /\ invoice.status \notin {"CANCELLED", "PAID"}
        /\ amount[p] <= invoice.amountDue
        /\ Begins(k, "recordPayment", Reading, {p}, None, None)

\* The request of k has been answered.
Ends(k) ==
    /\ pc' = [pc EXCEPT ![k] = "idle"]
    /\ req' = [req EXCEPT ![k] = None]

\* The payment is looked up first, outside the transaction, then the invoice.
deletePayment(k) ==
    /\ pc[k] = "idle"
    /\ \E p \in Payment :
         /\ payments[p] = "stored"
         /\ req' = [req EXCEPT ![k] = [op |-> "deletePayment", read |-> None,
                                       rows |-> {p}, status |-> None, total |-> None]]
    /\ pc' = [pc EXCEPT ![k] = "found"]
    /\ UNCHANGED <<invoice, payments, stale>>

deletePaymentRead(k) ==
    /\ pc[k] = "found"
    /\ ~invoice.deleted
    /\ pc' = [pc EXCEPT ![k] = "read"]
    /\ req' = [req EXCEPT ![k].read = [Reading EXCEPT !.status = None]]
    /\ UNCHANGED <<invoice, payments, stale>>

\* The invoice has been deleted meanwhile: the handler reads a column of null.
deletePaymentNotFound(k) ==
    /\ pc[k] = "found"
    /\ invoice.deleted
    /\ Ends(k)
    /\ UNCHANGED <<invoice, payments, stale>>

\* An edit of the items computes with what is paid.
EditReading(t) ==
    IF t = None THEN None ELSE [Reading EXCEPT !.status = None, !.total = None]

\* A PATCH of the status, of the line items of a DRAFT, or of both.
updateInvoice(k) ==
    \E s \in Patched \cup {None}, t \in Total \cup {None} :
        /\ s # None \/ t # None
        /\ t # None => invoice.status = "DRAFT"
        /\ Begins(k, "updateInvoice", EditReading(t), {}, s, t)

deleteInvoice(k) == Begins(k, "deleteInvoice", None, {}, None, None)

markInvoiceSent(k) ==
    /\ invoice.status = "DRAFT"
    /\ Begins(k, "markInvoiceSent", None, {}, None, None)

cancelInvoice(k) ==
    /\ invoice.status \notin {"CANCELLED", "PAID"}
    /\ Begins(k, "cancelInvoice", None, {}, None, None)

\* The INSERT or DELETE of payments and items, which may wait for their locks.
MoveRows(k) ==
    /\ pc[k] = "read"
    /\ \/ /\ req[k].op = "recordPayment"
          /\ \A l \in Client \ {k} : ~WritesInvoice(l)
          /\ req' = req
       \/ /\ ReplacesItems(k)
          /\ \A l \in Client \ {k} : ~WritesInvoice(l) /\ ~LocksItems(l)
          /\ req' = req
       \/ /\ req[k].op = "deletePayment"
          /\ \A l \in Client \ {k}, p \in req[k].rows : ~LocksPayment(l, p)
          /\ req' = req
       \/ /\ req[k].op = "deleteInvoice"
          /\ \A l \in Client \ {k} : /\ ~LocksItems(l)
                                     /\ \A p \in Payment : ~LocksPayment(l, p)
          /\ req' = [req EXCEPT ![k].rows = {p \in Payment : payments[p] = "stored"}]
    /\ pc' = [pc EXCEPT ![k] = "moved"]
    /\ UNCHANGED <<invoice, payments, stale>>

\* The UPDATE of the invoice.
WriteInvoice(k) ==
    /\ \/ pc[k] = "moved"
       \/ /\ pc[k] = "read"
          /\ req[k].op \in {"updateInvoice", "markInvoiceSent", "cancelInvoice"}
          /\ ~ReplacesItems(k)
    /\ \A l \in Client \ {k} : ~WritesInvoice(l) /\ ~SharesInvoice(l)
    /\ pc' = [pc EXCEPT ![k] = "written"]
    /\ UNCHANGED <<invoice, payments, req, stale>>

-----------------------------------------------------------------------------
(* What each UPDATE writes; columns it does not name keep their value *)

\* The amount of the payment a request records or deletes.
Amount(q) == LET p == CHOOSE p \in q.rows : TRUE IN amount[p]

\* The status after a payment of which `paid` is paid and `due` is left.
PaymentStatus(status, paid, due) ==
    IF due <= 0 THEN "PAID" ELSE IF paid > 0 THEN "PARTIALLY_PAID" ELSE status

recordPaymentUpdate(q, a) ==
    LET paid == q.read.amountPaid + a
        due  == q.read.total - paid
    IN  [invoice EXCEPT !.amountPaid = paid, !.amountDue = due,
                        !.status = PaymentStatus(q.read.status, paid, due)]

\* Mutant: the payment's amount is not taken off.
deletePaymentKeepsPaid(q, a) ==
    LET paid == q.read.amountPaid
    IN  [invoice EXCEPT !.amountPaid = paid, !.amountDue = q.read.total - paid,
                        !.status = IF paid <= 0 THEN "SENT" ELSE "PARTIALLY_PAID"]

deletePaymentUpdate(q, a) ==
    LET paid == q.read.amountPaid - a
    IN  [invoice EXCEPT !.amountPaid = paid, !.amountDue = q.read.total - paid,
                        !.status = IF paid <= 0 THEN "SENT" ELSE "PARTIALLY_PAID"]

\* Mutant: the whole new total is due again.
updateInvoiceForgetsPaid(q) ==
    [invoice EXCEPT
        !.status = IF q.status = None THEN @ ELSE q.status,
        !.total = IF q.total = None THEN @ ELSE q.total,
        !.amountDue = IF q.total = None THEN @ ELSE q.total]

updateInvoiceUpdate(q) ==
    [invoice EXCEPT
        !.status = IF q.status = None THEN @ ELSE q.status,
        !.total = IF q.total = None THEN @ ELSE q.total,
        !.amountDue = IF q.total = None THEN @ ELSE q.total - q.read.amountPaid]

\* Mutant: a status the table does not know.
UpdatedMisspelt(q) ==
    CASE q.op = "recordPayment"   -> recordPaymentUpdate(q, Amount(q))
      [] q.op = "deletePayment"   -> deletePaymentUpdate(q, Amount(q))
      [] q.op = "updateInvoice"   -> updateInvoiceUpdate(q)
      [] q.op = "deleteInvoice"   -> [invoice EXCEPT !.deleted = TRUE]
      [] q.op = "markInvoiceSent" -> [invoice EXCEPT !.status = "SENT"]
      [] q.op = "cancelInvoice"   -> [invoice EXCEPT !.status = "CANCELED"]

Updated(q) ==
    CASE q.op = "recordPayment"   -> recordPaymentUpdate(q, Amount(q))
      [] q.op = "deletePayment"   -> deletePaymentUpdate(q, Amount(q))
      [] q.op = "updateInvoice"   -> updateInvoiceUpdate(q)
      [] q.op = "deleteInvoice"   -> [invoice EXCEPT !.deleted = TRUE]
      [] q.op = "markInvoiceSent" -> [invoice EXCEPT !.status = "SENT"]
      [] q.op = "cancelInvoice"   -> [invoice EXCEPT !.status = "CANCELLED"]

\* Whether the amounts that the request of k computes with are still so.
Fresh(k) ==
    LET q == req[k] IN
    q.op \in {"recordPayment", "deletePayment"} \/ ReplacesItems(k) =>
        /\ q.read.amountPaid = invoice.amountPaid
        /\ q.read.total \in {invoice.total, None}
        /\ q.op = "deletePayment" => \A p \in q.rows : payments[p] = "stored"

\* Neither deleting a row that another request has deleted nor an UPDATE of a
\* deleted invoice is an error; the UPDATE then changes no row.
Commit(k) ==
    /\ pc[k] = "written"
    /\ invoice' = IF invoice.deleted THEN invoice ELSE Updated(req[k])
    /\ payments' = [p \in Payment |->
                      IF p \notin req[k].rows THEN payments[p]
                      ELSE IF req[k].op = "recordPayment" THEN "stored" ELSE "deleted"]
    /\ stale' = (stale \/ ~Fresh(k))
    /\ Ends(k)

\* A statement fails or the server stops: the transaction is rolled back.
Fail(k) ==
    /\ pc[k] # "idle"
    /\ Ends(k)
    /\ UNCHANGED <<invoice, payments, stale>>

DeadlockVictim(k) ==
    /\ \E l \in Client \ {k} : WaitsFor(k, l) /\ WaitsFor(l, k)
    /\ Ends(k)
    /\ UNCHANGED <<invoice, payments, stale>>

\* The nightly job: one statement.
markOverdueInvoices ==
    /\ \A k \in Client : ~WritesInvoice(k) /\ ~SharesInvoice(k)
    /\ ~invoice.deleted
    /\ invoice.status \in {"SENT", "VIEWED", "PARTIALLY_PAID"}
    /\ invoice' = [invoice EXCEPT !.status = "OVERDUE"]
    /\ UNCHANGED <<payments, pc, req, stale>>

-----------------------------------------------------------------------------
Start(k) ==
    \/ recordPayment(k) \/ deletePayment(k) \/ updateInvoice(k)
    \/ deleteInvoice(k) \/ markInvoiceSent(k) \/ cancelInvoice(k)

Advance(k) ==
    \/ deletePaymentRead(k) \/ deletePaymentNotFound(k) \/ MoveRows(k)
    \/ WriteInvoice(k) \/ Commit(k) \/ DeadlockVictim(k)

Next ==
    \/ \E k \in Client : Start(k) \/ Advance(k) \/ Fail(k)
    \/ markOverdueInvoices

Spec == Init /\ [][Next]_vars

\* The event loop runs every pending statement, and the database answers each:
\* a statement that waits gets its lock in turn, so one whose locks are free again
\* and again is not passed over for ever.
FairSpec == Spec /\ \A k \in Client : SF_vars(Advance(k))

-----------------------------------------------------------------------------
(* Properties *)

TypeOK ==
    /\ invoice \in Invoice
    /\ payments \in [Payment -> {"new", "stored", "deleted"}]
    /\ pc \in [Client -> {"idle", "found", "read", "moved", "written"}]
    /\ DOMAIN req = Client
    /\ \A k \in Client : IF pc[k] = "idle" THEN req[k] = None ELSE req[k] \in Request
    /\ stale \in BOOLEAN

\* The sum of the payments of the invoice.
Received == SumFunctionOnSet(amount, {p \in Payment : payments[p] = "stored"})

\* As long as no request has committed on an outdated read, amountPaid is the sum
\* of the payments, through every sequence of payments, deletions and edits.
PaidIsSum == ~stale /\ ~invoice.deleted => invoice.amountPaid = Received

\* As long as no request has committed on an outdated read, amountDue is what is
\* left of the total: an edit of the items counts what was paid before it.
DueIsRest ==
    ~stale /\ ~invoice.deleted => invoice.amountDue = invoice.total - invoice.amountPaid

\* Every request ends: transactions that lock the invoice through their foreign
\* keys and then want to update it do not wait for each other for ever.
RequestsEnd == \A k \in Client : pc[k] # "idle" ~> pc[k] = "idle"

\* The check of recordPayment: a payment does not exceed the amount due.  When
\* one is stored, the payments do not add up to more than the total.
PaymentFitsDue ==
    [][\A p \in Payment : payments[p] = "new" /\ payments'[p] = "stored" =>
           Received' <= invoice'.total]_vars
=============================================================================
