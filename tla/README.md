# Verification of platform-dd

platform-dd is a multi-tenant business platform: a NestJS API over MySQL
(Sequelize), Redis and Bull queues, one process that runs cron jobs, worker
processes for the queues, and a web client.  This directory holds TLA+ models of
the parts of it whose correctness depends on the order of concurrent steps, the
TLC configurations that check them, and proofs of their main invariants.

Paths below are relative to `server/src/` of the repository.

## 1. Inventory

### Processes

| process | entry | what runs in it |
|---|---|---|
| API server | `main.ts` | HTTP controllers, the WebSocket gateway, webhooks, cron jobs of the finance module |
| scheduler | `scheduler.ts` | the cron jobs of `common/services/scheduled-tasks.service.ts`; one instance only |
| workers | `worker.ts` | Bull processors (email, notification, subscription, audit, dead letter ...) |

The cron jobs of `ScheduledTasksService` are meant for the scheduler alone, but it is a
provider of `CommonModule`, which all three import together with
`ScheduleModule.forRoot()`: each process runs them at midnight.

They share the MySQL database and Redis.  Within a process all code runs on one
event loop: two handlers interleave only at an `await`.

### Components

| component | state | operations | what is hard |
|---|---|---|---|
| Checkout (`resources/subscriptions/services/subscription-payment.service.ts`, `resources/payments/`) | table `subscriptions`, table `invoices`, Stripe or Razorpay objects | `initiatePayment`, `processPayment`, checkout webhook, link update | repeated and concurrent webhook deliveries, database locks and deadlocks, an external call inside a transaction, crashes after the 200 answer |
| Subscription lifecycle (`subscriptions.service.ts`, `subscription-expiry.service.ts`, `stripe-webhook.processor.ts`, `scheduled-tasks.service.ts`) | status, `currentPeriodEnd`, `cancelAt` of each row | create, admin upgrade, cancel, five webhook handlers, the daily job | reordered, repeated and lost events; a job that works from a list read earlier; several requests writing one row |
| Renewals and pending changes (`subscription-renewal.service.ts`, `invoice-generation.service.ts`) | OPEN invoices, `pendingUserCount`, `pendingPlanId` | `checkRenewals`, `applyPendingChanges` | the same row is selected on each of seven days |
| Pricing, proration, periods (`resources/subscriptions/services/*-calculation.service.ts`) | none | pure functions | rounding, month ends |
| Finance (`resources/finance/`) | invoices, payments, estimates, recurring templates | create, update, send, pay, unpay, cancel, convert, generate | lost updates of `amountPaid`, number races, month overflow |
| Circuit breaker and AI service (`common/services/circuit-breaker.service.ts`, `common/ai/ai.service.ts`) | Redis keys per account with TTLs | `recordFailure`, `recordSuccess`, `chat` | records of several calls interleave command by command; state that only a success can leave while open calls are refused |
| Calls and sockets (`resources/ws/ws.gateway.ts`, and of the web client `ui-base/src/pages/chat/`, `stores/callStore.ts`, `services/socket.ts`) | maps `userSockets`, `socketUsers`, `activeCalls`, `callMeta`; each page's call store | start, accept, decline and end a call; register, initiate, join, leave, disconnect | packets that cross, handlers that await, connections that break: two sides that must agree |
| Projects (`resources/projects/`) | members, sprints, tickets, ticket sequence | create, change, move and delete tickets; start, complete and remove sprints; add and remove members | check-then-act at READ COMMITTED, a pool that may run out |
| Queues (`configuration/bull/`) | Bull jobs, dead-letter queue (nothing adds to it or retries from it) | enqueue, process, retry | retries of work done in part, errors returned as results |
| Authentication (`resources/authentication/`) | OAuth states in Redis, reset tokens, sessions | issue, validate, consume | get-then-delete of one-time values |
| Token refresh (`common/services/token-refresh.service.ts`) | Gmail tokens, in-process refresh map | `getValidAccessToken` | single flight per process |
| Tenant filter and transactions (`common/repository/`, `common/services/transaction-manager.service.ts`) | request context | `applyTenantFilter`, `execute` | no user in a worker |
| CRM, HR, chats, notifications, audit logs, users, organizations, RBAC, assets, analytics, agent tools, uploads | tables | create, read, update, delete | little order-dependent state |
| The rest of the web client (`ui-base/`), docker, nginx, migrations | | | outside the server's core logic |

How they interact: a checkout is opened by the API, paid at the provider, and
completed by a webhook (Stripe) or a request of the client (Razorpay).  The
webhook endpoint answers before it processes.  Later webhooks and the daily job
of the scheduler process overwrite the same rows as requests do, in statements
that read and then write without a lock.  Quotas and plan limits elsewhere read
the newest TRIAL or ACTIVE row.

### What makes each correct

- Checkout: a payment takes effect at most once and as a whole; an organization
  with a subscription never loses it to a failed upgrade; a Stripe subscription
  is cancelled only for a replacement; calls never block each other for ever.
- Lifecycle: paid time is never cut short; what nobody pays for is closed in the
  end; a renewed row stays; a cancellation stands; checking for a live row and
  creating one is atomic.
- Renewals: one renewal invoice per period; a pending change is applied.
- Finance: `amountPaid` is the sum of the payments; no payment exceeds what is
  due; numbers are unique.
- Circuit breaker: enough failures open it; counters do not outlive their time; an
  open circuit is tried again (it is not: `CircuitRecovers`).
- Calls: pages and gateway agree about who is in which call; those in one call know
  each other; a call that ends is recorded once.
- Projects: one active sprint per project; ticket numbers are unique and without gaps;
  an epic is done when its children are; assignees are members; an administrator stays;
  every request is answered.
- Authentication: a one-time value is used once.

## 2. The modules

| module | models |
|---|---|
| `SubscriptionPayment` | checkout of one organization, statement by statement, with the locks of its transactions |
| `SubscriptionLedger` | what checkout promises: a payment changes the rows in one step or not at all |
| `SubscriptionLifecycle` | the rows after checkout: requests, webhook handlers, the daily job |
| `FinInvoices` | one invoice of the finance module, its payments and the requests that change them |
| `Calls` | audio and video calls: the gateway's maps, the pages of the users and the packets between them |
| `CallLedger` | what chats remember of calls: one at a time in a room, each handed over once to be saved |
| `CircuitBreaker` | the circuit breaker of one organization, one Redis command at a time |
| `Projects` | one project: members, sprints, tickets, the requests on them and the connection pool |
| `MCSubscriptionPayment`, `MCSubscriptionLifecycle`, `MCFinInvoices`, `MCCalls`, `MCCircuitBreaker`, `MCProjects` | instances for TLC |
| `SubscriptionPaymentProofs`, `SubscriptionLifecycleProofs`, `FinInvoicesProofs`, `CallsProofs`, `CallsViewsProofs`, `CircuitBreakerProofs`, `ProjectsProofs` | theorems |
| `SumLemmas` | theorems about sums over finite sets, for `FinInvoicesProofs` and `CallsViewsProofs` |

`SubscriptionPayment` implements `SubscriptionLedger` (`ImplementsLedger`,
checked and proved), and `Calls` implements `CallLedger` (likewise).
`SubscriptionLifecycle` relies on the former: its action `processPayment` is the whole
checkout in one step.

### SubscriptionPayment

| in the model | in the code |
|---|---|
| `initiatePayment(p)` | `initiatePayment`: the newest TRIAL or ACTIVE row goes into the metadata; a request with no change is refused; prices are abstracted |
| `Pay(p)` | the customer, at Stripe or Razorpay |
| `Begin(c)` | one delivery of `checkout.session.completed`, or one verify-payment request, opens the SERIALIZABLE transaction and reads the clock |
| `Check(c)` | the idempotency SELECT, and the skip with its rollback |
| `LockOrganization(c)` | provider verification, plan, organization FOR UPDATE |
| `ReplaceOld(c)` | old row FOR UPDATE, cancellation at Stripe, UPDATE to CANCELLED |
| `Stamp(c)`, `Insert(c)` | `createdAt` chosen by Sequelize, then the INSERT (two steps: the INSERT may wait for locks) and the invoice |
| `Commit(c)`, `LinkStripe(c)` | COMMIT; then the webhook's own UPDATE of `stripeSubscriptionId` |
| `Fail`, `DeadlockVictim`, `Crash` | catch and rollback; MySQL; a stop of the server |

A call of `processPayment` is one element of `Call`, and the row it inserts has
the call's name.  `HasRead`, `HoldsOrg` and `HasWritten` derive the locks from
the program counters.  MySQL is external: a plain SELECT in a SERIALIZABLE
transaction takes shared next-key locks, which conflict with writes of rows of
the organization, and locks are kept to the end of the transaction.  A skip
commits nothing, so it is a state of its own (`skipped`).  The query after the
skip's rollback names the finished transaction, Sequelize refuses it, and the
caller gets an error instead of the row: no link follows, which is what the
model does.

### SubscriptionLifecycle

| in the model | in the code |
|---|---|
| `processPayment(r)` | checkout as one step; the row of its metadata may be any row of the organization, live or not |
| `createDefaultSubscription(r)` | the Bull job of a new organization; its two checks filter by `organizationId: null` in a worker (`applyTenantFilter`), so they never see a row |
| `adminUpgradeFind`, `createSubscriptionCheck`, `createSubscriptionInsert` | `adminUpgradeSubscription` and `createSubscription`, read and write apart |
| `cancelSubscription`, `cancelSubscriptionWrite` | `cancelSubscription`, read and update apart |
| `StripeRenews`, `StripeRetries` | Stripe (external) |
| `handle...` in `processEvent`, `LoseEvent` | the handlers of `stripe-webhook.processor.ts`; a failure or stop after the 200 |
| `checkExpiredSubscriptions`, `handleExpiryRead`, `handleExpiryWrite`, `processScheduledCancellations`, `cancelScheduled`, `jobEnds` | the daily job of one process: list, re-read and write of each row, second list, second writes |

Time is in days; `end = currentPeriodEnd`.  `Never` is `cancelAt = null`.  Events
are a set: they are handled in any order, `again` allows some of them to be
handled twice, `LoseEvent` drops them.  The `period_end` of a paid Stripe
invoice is taken for the end of the paid period, as `handleInvoicePaymentSucceeded`
takes it.

Left out, and why it does not matter to the properties: `PATCH
/subscriptions/:id` and `adminUpdateUserCount` (administrators writing arbitrary
fields), pending changes (nothing applies them), UNPAID and INCOMPLETE (no row
gets UNPAID; INCOMPLETE comes from a Stripe status the model's Stripe does not
reach after checkout), `customer.subscription.created` (a subscription made by
checkout has no metadata, so the handler returns), mode "payment" (never chosen:
`useSubscriptionMode` is true).  Database errors of the job's own statements are
not modelled: the job catches them and the next night's run repeats the work.

### FinInvoices

| in the model | in the code |
|---|---|
| `Init` | `createInvoice` (any status may be asked for), `convertEstimateToInvoice`, `createInvoiceFromRecurring` |
| `recordPayment`, `updateInvoice`, `deleteInvoice`, `markInvoiceSent`, `cancelInvoice` | the start of the request: its transaction, the read of the invoice, the checks |
| `deletePayment`, `deletePaymentRead`, `deletePaymentNotFound` | the lookup of the payment, outside the transaction; the read of the invoice; the exception when it is gone |
| `MoveRows(k)` | the INSERT or DELETE of payments and items |
| `WriteInvoice(k)`, `Updated(q)`, `Commit(k)` | the UPDATE of the invoice, what it writes, and the COMMIT that shows it to others |
| `Fail(k)`, `DeadlockVictim(k)` | the rollback of `TransactionManager.execute`; MySQL |
| `markOverdueInvoices` | the nightly UPDATE of `recurring-invoice.scheduler.ts` |

Amounts are integers, in cents; the code rounds to them.  Items are what they add up
to (`Total`).  `req[k].read` keeps the columns a request computes with later:
the others serve its checks only.  MySQL is external: an UPDATE locks the
row; an INSERT of a payment or an item locks the invoice of its foreign key
(`fin_invoice_payments.invoice_id`) in shared mode; at READ COMMITTED a read
waits for nothing.  `stale` remembers that some request has committed amounts
computed from others than those it overwrites, which the code allows.  The
properties about amounts are claimed as long as it is false, so they say that
the arithmetic of every operation is right in every order and that failures, the
nightly job and concurrent requests that do not overlap in this way do no harm.

### Calls

| in the model | in the code |
|---|---|
| `handleStartCall`, `StreamStarts`, `StreamFails` | `handleStartCall` of `ChatPage.tsx` up to the await of the camera, and after it |
| `handleAcceptCall`, `AcceptContinues` | `handleAcceptCall` likewise; the dialog stays open meanwhile |
| `handleRejectCall`, `handleEndCall` | the Decline and the hang-up button |
| `handleIncomingCall` ... `handleCallRejected` | the page's listeners; `createOffer` is awaited in `handleCallUserJoined` before the offer goes out, which the model does in one step that succeeds (when it is rejected, which nothing catches, no offer goes out) |
| `Disconnect(u)`, `Reconnect(u)` | Socket.IO loses and finds the server; `joinRoomsAndRegister` runs on the new connection, after what the page emitted meanwhile |
| `handleJoinChatRooms` ... `handleCallLeave` | the gateway's handlers |
| `AwaitsSockets(u)` | `call-initiate` waits for `fetchSockets` while the next packet of the same socket is handled |
| `SaveCalls(R)` | `saveCallMessage` up to the point where the call is out of `callMeta` |
| `handleDisconnect(s)` | the gateway's handler, at any time after the connection broke |

`up[u]` and `down[u]` are what is under way between the page and the gateway: in
order, at most once, lost when the connection breaks (Socket.IO, external).  Each
connection is a socket of its own, so the old one may be noticed closing after the new
one has registered.  A call is known by its number (`started`); the code knows it by its
room alone.  A call that ends counts as handed over when it is taken out of `callMeta`:
that the insert of the message may fail is only logged.  The order in which
`handleDisconnect` leaves several calls is left open.

Pages and gateway do disagree after some sequences, for good.  `strayed` is set exactly
where this begins, at the lines in the list of hazards: a stream that starts after the
call was given up (`ChatPage.tsx:360`), an answer to a call that is over or from a page
that is busy or offline, a call replaced in its room, `call-ended` and `call-user-left` that are
not compared with the call they are about, a declined call that the gateway is not told
about, a hang-up that overtakes its `call-initiate`, a connection that breaks in a call,
an old socket noticed late.  `ViewsAgree` and `PeersKnown` say that there is no other way,
and that one user who strayed does not mislead the page of another.

Left out: WebRTC answers and ICE candidates, muting and screen sharing (they change no state
a property is about), several tabs of one user, leaving the chat page, and a restart of the
gateway, which empties its maps and with them every call.

### CircuitBreaker

| in the model | in the code |
|---|---|
| `chat`, `isOpen`, `retryWithBackoff` | `AiService.chat`: refused, or up to three attempts of which only the last counts |
| `incrFailures` ... `expireOpenedAt` | the commands of `recordFailure`, one action each |
| `getSuccessState` ... `resetFailures` | those of `recordSuccess` |
| `getStateFails` | `getState` answers CLOSED when Redis does not answer |
| `Cut(s)` | any other command fails and the catch ends the record; or Redis is not connected; or the process stops |
| `Tick` | the time: keys expire, stamps age |

`cut` remembers what a record that ended early still owed, until it no longer is.
The circuit's state key is never given a time to live, so OPEN stays until it is
overwritten; the stamp `opened-at` has one, equal to the timeout it is to measure.  So
`recordSuccess`, which alone could make the circuit half-open, finds the stamp gone as soon as the
timeout is over, and `isOpen` has refused all calls since the circuit opened.
What the code announces is in the comments "5 minutes before half-open"
(`circuit-breaker.service.ts:21`) and in the message "Please try again later" (`ai.service.ts:20`);
`Recovers` states it, and the run `CircuitRecovers` shows that it fails.  A change that lets a call
through once the stamp is gone, and takes a missing stamp for an old one, makes `Recovers` hold (tried by hand).

Left out: `reset`, which nothing calls; `getFailureCount`, which writes nothing; commands
that ioredis sends again after a broken connection.

### Projects

| in the model | in the code |
|---|---|
| `createTicket`, `updateTicket`, `moveTicket`, `removeTicket`, `startSprint`, `completeSprint`, `removeSprint`, `addMember`, `removeMember` | a request arrives (`projects.controller.ts`, or a tool of the agent) and its first statement is answered; `updateTicket` stands for `assignTicket` too |
| `validateAssigneeMembership`, `validateEpicCanClose`, `writeTicket` | the statements of `update` and `moveTicket` of `ticket.service.ts`; where a move validates no assignee the step stands for the query of the columns |
| `readProject`, `readSequence`, `writeSequence`, `getMaxPositionInColumn`, `insertTicket`, `commitTicket` | the transaction of `create`; project, columns and positions are read without it |
| `startReads` ... `completeMoves`, `writeSprint`, `commitSprint` | the transactions of `start` and `complete` |
| `addMemberLooks`, `insertMember`; `removeMemberCountsAdmins`, `unassign`, `deleteMember` | `addMember` and `removeMember` of `project.service.ts` |
| `execute`, `Commits`, `Fail` | `TransactionManager.execute`; an error rolls back |
| `AcquireTimeout` | `pool.acquire` of `database.module.ts:131-136` |

What a transaction writes is applied at its commit, when others see it (READ COMMITTED); the
rows it wrote are locked until then (`ProjectFree`, `SprintFree`, `TicketsFree`; MySQL is external).  The shared locks of
foreign keys are left out: they only delay.  `pool` is how many connections the rest of
the server leaves to the requests of this project.  Deleted rows stay, with their numbers: the unique
index of `20260312000005-create-tickets.ts:157` counts them, and that of the members has no
condition in MySQL, so a removed member cannot be added again.

`raced` has the pairs of operations of which one committed while the other was under way.
The code checks and then writes without a lock, so two starts of sprints that overlap may both
succeed, against what `start` announces (`OnlyOneActiveSprint`); `OneActiveSprint` and its like say that this takes
an overlap of just these operations: no other overlap, failure or sequence does it.  `NumbersGapless` needs no such exception:
the unique index refuses the second of two equal numbers, and the rollback takes the sequence back.

Left out: creation of sprints and edits of names and dates, positions and columns,
changes of the project itself, activity log and notifications (after the fact, errors ignored); more than
the 1000 children that `validateEpicCanClose` reads; a PATCH that makes an EPIC of a ticket that is
DONE, or closes one in the same request (the type read before counts).

## 3. Runs

| run | checks | shows |
|---|---|---|
| `Payment` | `TypeOK`, `SameRequestFarApart`, `NeverWithoutService`, `StripeCancelExplained`, `CallsEnd`, `ImplementsLedger` | checkout holds its promises under concurrent deliveries, failures, deadlocks and crashes |
| `PaymentProcessedTwice` | `PaymentProcessedOnce` (violated) | a delivery after the window processes the payment again |
| `Lifecycle` | `TypeOK`, `PaidTimeIsKept`, `UnpaidRowsClose` | paid time is kept and unpaid rows close for good, with the job at work on stale lists and events late, repeated and lost |
| `LifecycleRenewal` | `RenewedRowIsKept` (violated) | the job closes a row that was renewed after it was listed |
| `LifecycleCancellation` | `CancellationStands` (violated) | an update event takes a cancellation back |
| `LifecycleDoubleCreate` | `CheckAndCreateAtomic` (violated) | a row appears between the check and the insert of a creation |
| `Invoices` | `TypeOK`, `PaidIsSum`, `DueIsRest`, `RequestsEnd` | the amounts of an invoice agree until a request commits on an outdated read; every request ends, in spite of the deadlocks of foreign keys |
| `InvoiceOverpaid` | `PaymentFitsDue` (violated) | two concurrent payments each pass the check and together exceed the total |
| `Calls` | `TypeOK`, `CallHasMeta`, `ViewsAgree`, `PeersKnown`, `ImplementsLedger` | every call is handed over once; at rest, pages and gateway agree but for users to whom a listed mishap occurred |
| `Circuit` | `TypeOK`, `DebtsArePaid` | records that interleave and fail leave no debt but their own |
| `CircuitRecovers` | `Recovers` (violated) | an open circuit refuses every call for ever, although Redis and the provider answer |
| `Projects` | `TypeOK`, `NumbersGapless`, `OneActiveSprint`, `DeletedNotActive`, `AssigneeIsMember`, `KeepsAdmin`, `EpicClosesWhole`, `CompletionClears`, `RequestsEnd` | numbers are gapless; the checks hold unless the requests they compare overlapped; every request is answered |

Bounds.  `Payment` has three calls for two payments: two calls of one payment
compete while a third replaces what either of them made; that is the least that
shows a repeat, a replacement and a deadlock at once.  Window 1 and a clock to 2
give calls inside, at the edge of and beyond the window.  Both payments are
Stripe's, because links and remote cancellations exist only there; the
offers differ, so that both can end in rows.  The lifecycle runs have two rows,
one billed by Stripe and one not: a row and what replaces it.  A period of one
day and a clock to 3 give a renewal, its expiry and a job after it; periods that
would reach the end of the clock do not start, so that liveness is never owed to
the bound.  One cancellation request is open at a time.  `Lifecycle` has one process with the job and one event
handled twice: with two processes, liveness is too large to check.  By hand, `PaidTimeIsKept` holds with two
processes that run the job at once and no repeated event, and the theorem `PaidTime` says so for any number of both.  Symmetry is not used in these runs: the rows and calls differ.
The invoice runs have two clients with one request each at a time, two payments of
one unit and totals of 1 and 2: one payment may settle the invoice or not, the two may
fit or not, and an edit may move the total below what is paid.  `Patched` is
`{"DRAFT"}`, the status that opens the items of a paid invoice to edits; other statuses
are reached by the operations.  A payment id is used once, which bounds the run.

`Calls` has three users and either two chats of two with a user in common, and two events (presses of
the call button and broken connections), or one chat of three with one event.  Two chats and
two calls are what it takes for a user to be called while in another call, and for one call to
end another's; three in one chat make a call survive one who leaves.  Each
page asks for the camera once at a time and has at most two sockets: the old and the
new one.  Users and chats are symmetric (the properties name none).  By hand, with more calls for
fewer users (two users, two chats, two calls and a broken connection; three users, one
chat, one call and a broken connection), the same properties hold.
`Circuit` has three servers, symmetric, thresholds of 2, a timeout of one tick and a reset
after two: a record can be overtaken by two others and every key can expire between any two commands.
Nothing bounds time or the number of calls: ages stop at what they are compared
with.  By hand, two servers with thresholds 3, timeout 2 and reset 4 hold too.  `CircuitRecovers` has two
servers and no symmetry, because it is about liveness.
`Projects` has two clients with three requests altogether (`MaxRequests`), an epic in one sprint and its
child in another, two tickets to be made, one administrator and one outsider; three bodies of
ticket requests: one resolves, one moves to the first sprint, one assigns the outsider and makes
a child of the epic.  A pool of 2 is exhausted by two transactions that each want a second
connection; 3 lets two creations overlap to the end.  Three requests are the least for a
preparation (a second member, a ticket in the sprint) and two that overlap.  By hand, the safety
properties hold with four requests.

Deadlock is not checked where bounds let the system rest: at the end of the clock with every
payment made, or when all events or requests have happened.  `Circuit` has no such bound, and
there it is checked.

Fairness.  `SubscriptionPayment!FairSpec` has weak fairness of `Advance(c)` for
each call: the event loop runs every continuation whose answer has come, MySQL
answers or breaks the deadlock.  Nothing makes a customer pay or Stripe deliver.
`SubscriptionLifecycle!FairSpec` has weak fairness of the clock, of the daily job
of each process (cron starts it each midnight, and its loop continues) and of handling or losing
a delivered event.  Users and Stripe owe nothing.
`FinInvoices!FairSpec` has strong fairness of `Advance(k)`: a statement waits for locks that
others take and release, and MySQL queues those who wait, so a request whose locks are free
again and again is not passed over.  Lock wait timeouts are failures (`Fail`) and
owe nothing: `RequestsEnd` holds without them.
`Projects!FairSpec` has weak fairness of `Advance(k)`, the acquire timeout included: a statement is answered once
what it waits for stays free, and the pool's timer is never given up.  In the instance two clients
compete for at most one lock at a time, so weak fairness is enough.
`CircuitBreaker!AnsweredSpec`, for `Recovers` alone, supposes all that the circuit could ask for: Redis
answers every command, no process stops, time passes, calls keep coming and each proceeds; `Recovers` itself
adds that the provider answers from some point on.  That is more than the code guarantees, and the
circuit stays open all the same.
`Calls` claims no liveness: nobody has to call or hang up.

Findings.  Six runs are expected to end in a violation; each compares what a comment or a message to the
user says with what the code does, and PROJECT.json quotes both.

Exceptions.  Some properties of the passing runs except what a known mishap has touched: `raced` in
`Projects`, `stale` in `FinInvoices`, `cut` in `CircuitBreaker`, a failed call in `StripeCancelExplained`, `strayed`
in `Calls`.  They say that nothing else goes wrong; they do not say that the mishap does no harm.  It does:
without the exceptions TLC finds, by hand, and in each case by the overlap or failure named in the list of hazards,

- two active sprints, an active sprint that is deleted, a ticket of somebody who is no member, a project without an
  administrator, an epic closed over a child that is not done, an unresolved ticket left in a completed sprint
  (against the messages at `sprint.service.ts:101` and 165, `ticket.service.ts:136` and 520,
  `project.service.ts:197` and, of the web client, `ActiveSprintsTab.tsx:534`);
- a live row whose Stripe subscription is cancelled, after a checkout that failed behind the cancellation
  (`subscription-payment.service.ts:1004`, in a transaction that is "to ensure atomic creation", 839);
- a count of failures that never expires, when a record ends between INCR and EXPIRE
  (`circuit-breaker.service.ts:148-151`, against the "10 minutes before resetting failure count", 22).

`InvoiceOverpaid` is the run that shows this for `stale`.  About calls that cross (`strayed`) the repository announces nothing.

## 4. Proofs

All are for every value of the constants that satisfies the named assumptions
(`PaymentAssumption`, `LifecycleAssumption`, `InvoiceAssumption`, `CallsAssumption`, `ConfigAssumption`,
`ProjectsAssumption`), which give the constants their types, make some sets finite and keep `None` apart.

`SubscriptionPaymentProofs`:

- `TypeCorrect`: `Spec => []TypeOK`.
- `FarApart`: `Spec => []SameRequestFarApart`.  The property is not inductive: a
  call inserts on what its SELECT saw, and the insert is several steps later.  The
  invariant adds that while a call holds its shared locks no row of the
  same request is young enough to be found again (measured from the `since` of
  the call, and `since` is at most the `createdAt` it stamps), and that no two calls
  hold conflicting locks.  So the locks of SERIALIZABLE carry the check forward
  to the commit.
- `ServiceKept`: `Spec => []NeverWithoutService`.  Needs that the row a call
  replaces is present and that only Commit closes it, in the step that adds its
  successor.
- `Implementation`: `Spec => ImplementsLedger`.  Every step maps to `Tick`,
  `Apply`, `Link` or a stutter; the guard of `Apply` is what the invariant
  says at Commit.
- `CancellationsExplained`: `Spec => []StripeCancelExplained`.  The code cancels at Stripe
  inside a transaction that may still fail, so the invariant (`CancelInv`) has to remember the call of each
  cancellation: it has failed, still holds what it wrote, or has committed, and then the row that
  it replaced is and stays CANCELLED.

`SumLemmas`: `SumOfNone`, `SumOfRest`, `SumOfMore`, what `SumFunctionOnSet` of the community
modules computes for every finite set.  It folds by a recursive function in an order that CHOOSE picks.  The
library's induction theorems take an operator, which the provers cannot instantiate, so each
induction on the size of a subset is put as the absence of a smallest counterexample: a set of
naturals has a least element because `<` on them is well-founded.

`SubscriptionLifecycleProofs`:

- `TypeCorrect`: `Spec => []TypeOK`.
- `PaidTime`: `Spec => []PaidTimeIsKept`.  The strengthening says that each name
  of a row is made once, that targets of an upgrade exist, that events name only
  rows of Stripe, that outside Stripe a `cancelAt` (stored or about to be) is the
  period end or belongs to a replaced row, and that a row without Stripe
  that the job of any process has listed has ended, or its cancellation is due, and still
  is when the job writes: what protects these rows is that nothing but a Stripe
  event prolongs a period.  With Stripe, the corresponding statement is false
  (`LifecycleRenewal`).

`FinInvoicesProofs`:

- `TypeCorrect`: `Spec => []TypeOK`.  The invariant adds what a request
  carries while it is open (`Carries`): a payment for the operations that
  need one, and the columns its UPDATE computes with; without it the UPDATE could
  compute with `None`.
- `DueIsAlwaysRest`: `Spec => []DueIsRest`.  The new `amountDue` of every UPDATE is
  the rest because the columns it was computed from are still the stored ones
  (`Fresh`), which is what a commit that leaves `stale` false means.
- `SerialDueIsRest`: with one client `stale` stays false (`SerialNeverStale`: what a lone
  request has read changes under it by nothing, the nightly job included), so
  `amountDue` is the rest always.
- `PaidIsAlwaysSum`: `Spec => []PaidIsSum`.  `RowsInv` says what the rows that a request is about to store
  or delete have to do with those that are stored: finitely many are stored, a payment to be
  deleted was stored when it was looked up, a payment to be recorded is new, and no two requests
  record the same.  So at a commit, Fresh as above, `SumOfMore` or `SumOfRest` gives the new sum.
- `SerialPaidIsSum`, `SerialPaymentFits`: with one client `amountPaid` is the sum always, and no payment
  takes what is received past the total.  So the overpayment that `InvoiceOverpaid` shows needs
  two requests that overlap.

`CallsProofs`:

- `TypeCorrect`: `Spec => []TypeOK`; the queues stay sequences of packets through every relay.
- `MetaKept`: `Spec => []CallHasMeta`.  Inductive with the types: of the gateway's handlers, those that empty
  `activeCalls` save the call in the same step.
- `Implementation`: `Spec => ImplementsLedger`.  With `CallHasMeta`, a room whose last
  participant leaves has a call to end, so `SaveCalls` is a step of `End`; everything the
  pages do stutters.
- `RecordedOnce`: `Spec => []Ledger!SavedOnce`, from `Implementation` and an invariant of the ledger.

`CallsViewsProofs`:

- `ViewsAlwaysAgree`: `Spec => []ViewsAgree`.  The property speaks of rest, when every queue is empty; the
  invariant has to describe every queue that can come before it.  It says (`ViewInv`) that the packets a
  page has emitted lead from the calls in which the gateway has the user to the call that the page
  shows: there is a sequence of sets of calls that starts with the one, ends with the other, and that each
  packet turns by one step (`Turns`: a leave empties the set, an initiate or join puts a call into
  an empty one).  A handler of the gateway shortens the sequence at its front, a handler of the page
  extends it at its end; whatever breaks it makes the user stray.  Besides, the
  user's socket is in the room of each of these calls, a page without a connection is in none, and one with a
  connection is registered or has sent its registration ahead of any join.
- `PeersAlwaysKnown`: `Spec => []PeersKnown`.  For two users who are in one call and have sent nothing that
  changes that (`PairInv`), one of these holds: the first has the other among its
  participants and is not about to drop it; it will add it from an event in its queue with no drop behind; or
  the other has sent an offer, or will on hearing of the join, and the gateway knows where to relay it.
  The cases are those of a join that crosses offers, joins and leaves of third users.

Both hold for every set of users and rooms and any number of calls; a page loses its connection at most
once, which is a bound of the model (`Disconnect`), not only of its instances.

`CircuitBreakerProofs`:

- `TypeCorrect`: `Spec => []TypeOK`.
- `DebtsPaid`: `Spec => []DebtsArePaid`.  Inductive with the types, once a debt names all the places from
  which a record will still pay it, those in other servers included (`Owes`).
- `NeverTriedAgain`, a lemma: why `Recovers` fails for all thresholds and timeouts, and not only in the
  instance.  Once the stamp is gone and the records that were under way are over, the circuit is open for
  good, as long as Redis answers.

`ProjectsProofs`: `TypeCorrect`, `NumbersAreGapless`, `SprintActiveOnce`, `DeletedStaysInactive`,
`AssigneesAreMembers`, `AdminKept`: `Spec =>` always `TypeOK`, `NumbersGapless`,
`OneActiveSprint`, `DeletedNotActive`, `AssigneeIsMember`, `KeepsAdmin`.  One invariant for these: the five properties, what a
request carries at each step (`Sensible`), and what it has read that still holds unless
somebody committed meanwhile, which `raced` will show when it commits (`Alone`).  Most steps write
nothing (the quiet ones); the seven that commit are treated one by one.

`EpicsCloseWhole`, `CompletionsClear`: `Spec => EpicClosesWhole`, `Spec => CompletionClears`, the two action
properties.  They add to that invariant what a request has counted on (`ReadsHold`): an update of an epic knows
it as one, and between its check and its write the children it found done still are (`Closing`); the count of
a completion and the tickets it is to move are those of the sprint until it commits (`Completing`).  Each holds unless
`raced` says that somebody overlapped.

`SerialChecksHold`: with one client nothing overlaps (`NoRace`), so `OnlyOneActiveSprint`, `ActiveSprintStays`,
`OnlyMembersAssigned` and `AdminRemains`, which two clients can violate, hold.

Every safety property of a passing run is a theorem.  Only model-checked are the liveness properties,
`CallsEnd`, `RequestsEnd` (of both modules) and `UnpaidRowsClose`: they rest on fairness and so on
ENABLED, which the prover does not handle.

## 5. Plan

Next modules, in order of what is at stake:

1. `Renewals`: renewal invoices over the seven days, pending changes.
2. `OAuthState`, `TokenRefresh`, the default-subscription job with Bull's retries.
3. Pure operators: period and recurrence dates.

In `FinInvoices`, invoice numbers, estimates and the nightly generation from
templates are left; in `Calls`, several tabs of one user and a restart of the gateway.

Proofs to come: that `SubscriptionLifecycle!processPayment` is a step of the ledger, and those of
the modules above.

Further hazards that were met, that no property covers and that the list in PROJECT.json has no
room for: invoice numbers are computed from the newest one in a separate statement, ordered as text
(`finance.service.ts:314`); two conversions of one estimate (946); two deletions of one payment
(675), modelled and set apart by `stale`; a cancelled invoice becomes payable again when its payment is
deleted (687); the discount of an invoice changes without its total (518); statements on a second connection
inside the transactions of `updateInvoice` and `markInvoiceSent` (549), as in `Projects`; `setMonth` at the ends of
months (`recurring-invoice.scheduler.ts:136`); `applyPendingChanges`, which nothing calls
(`subscription-renewal.service.ts:131`); a switch from Stripe to Razorpay that leaves the Stripe
subscription charging (`subscription-payment.service.ts:1002`), and the query on a transaction already
rolled back (874).

## 6. Not modelled

CRM, HR, chats, notifications, audit logs, users, organizations, RBAC, assets,
analytics and agent tools read and write single records; what matters there
(permissions, validation, wording of answers) is data and not order.  PDF and email are I/O.
Of the web client only the call store and the pages that change it are modelled; its other
pages, deployment files and migrations carry no state that several parties share.
