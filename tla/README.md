# Verification of the NT219 Secure Payment backend

TLA+ models of the backend in `src/`: an Express application over PostgreSQL
that sells through Stripe or a simulated bank (MockBank), signs receipts through
a separate Security Service, and keeps a hash-chained audit log. The models are
translated from the code; where a comment, a test or a document says something
else, a run shows the difference.

## 1. Inventory

| Component (source) | State it keeps | Operations | Modelled in |
|---|---|---|---|
| Order state machine (`src/src/orders/orderStateMachine.js`) | none | `canTransition`, `assertTransition` | `OrderStateMachine` |
| Payments (`src/src/payments/paymentService.js`) | tables `payment_attempts`, `transactions` | `createPaymentIntent`, `confirmPayment`, `syncPayment` | `PaymentFlow` |
| Refunds (`paymentService.js`, `src/src/refunds`) | tables `refunds`, `refund_requests` | `refundTransaction`, create, cancel, reject, approve | `RefundFlow` |
| Orders (`src/src/orders/orderService.js`) | tables `orders`, `order_items` | `createOrder`, `updateOrderStatus` | `Checkout`, `PaymentFlow` |
| Stripe webhook (`webhookHandler.js`, `webhookEventService.js`) | table `webhook_events` | `handleWebhook`, `recordReceivedEvent`, `markProcessed`, `markFailed` | `PaymentFlow` |
| Providers (`src/src/payments/providers`) | none here; Stripe keeps payments and refunds | `createPayment`, `retrievePayment`, `refundPayment` | `PaymentFlow`, `RefundFlow`, by what a caller observes |
| Audit log (`src/src/transactions/auditService.js`) | table `audit_logs` | `log`, `verifyAuditChain` | `AuditChain` |
| Receipt keys (`src/security-service`) | key files, `active-version` | rotate, sign with the active key, verify by version | `ReceiptKeys` |
| Security handlers (`securityController.js`) | none | `rotateReceiptSigningKey`, `verifyReceipt` | `SecurityDesk` |
| Request guard (`requestNonceService.js`, `velocityCheck.js`, `paymentController.js`) | table `request_nonces`, a map of failures in memory | `consumeNonce`, `checkVelocity`, `recordFailure` | `Checkout` |
| Users and seeds (`src/src/auth`, `src/src/users`, `src/src/db`) | table `users` | `register`, `login`, `seedAdmin.js`, the users of `seed.js` | `Accounts` |
| Reconciliation (`reconciliationService.js`) | none | a read-only report | two of its mismatches in `RefundFlow`; section 5 |
| Evidence, admin, health, configuration, access control, cryptography, TLS, scripts, migrations | none of their own | queries, checks, libraries, tooling | section 5 |

**How they interact.** An order is priced from the catalogue and stored. A
create request passes the nonce and the velocity check, claims an attempt and
moves the order to "processing" in one database transaction, calls the provider,
stores the payment id in the attempt and the order, and for MockBank confirms at
once. Stripe tells the outcome later through the webhook, which confirms the
payment or fails the order; the client can also ask for a sync. All three ways
to "paid" go through `confirmPayment`, which marks the attempt and the order,
inserts the transaction, and adds a MAC and a receipt. A refund request is
reviewed by an admin, whose approval runs the same `refundTransaction` as his
direct refund. Handlers write audit rows as they go; keys are rotated and
receipts signed and verified across mTLS. There is one Node process; requests
interleave at every `await`. They share nothing but the database, the provider,
the Security Service and the failures counted in memory. Few statements run in a
transaction, and apart from the audit log none locks what it has only read.

**What is hard.** Requests for one order overlap, and act on an order or a row
loaded several statements ago. The provider charges or refunds and the answer is
lost or late. Events come before the attempt knows its payment, twice, late, or
at the same time. The process dies between commits, or between two key files.
Signing fails after the money was recorded. Two admins decide on one request.
Two audit rows are written in another order than they were timed. A seed runs
beside a registration. `PROJECT.json` lists these hazards with their lines and
the properties that cover them.

**What makes each component correct.** Payments: nothing is paid, recorded, or
acknowledged that was not captured, or for another order; records are kept;
captured money is recorded in the end. Orders: they add up, are charged as
placed, and follow the state machine. Refunds: nothing is booked or answered
that was not paid back, and the three tables, the audit log and the report
agree. Audit: each row is chained to the last, and an alteration shows. Keys:
every receipt ever issued verifies, and there is always a key to sign with.
Guard: a nonce begins one payment. Accounts: an account stays with whoever was
told he has it, and the deployment with its admin.

## 2. Modules

| Module | What it is |
|---|---|
| `OrderStateMachine` | the status table, as operators |
| `PaymentFlow` | the payment flow: tables, provider, requests in flight, faults; its properties |
| `PaymentLedger`, `PaymentRefinement` | the abstract specification (captured, then recorded, then sealed, then acknowledged) and the mapping under which `PaymentFlow` implements it |
| `PaymentInvariants` | the inductive invariants of the payment flow |
| `PaymentFlowProofs`, `PaymentRefinementProofs` | what holds for any providers and requests, and the refinement |
| `PaymentOrderProofs` | what an order's status is worth: with Stripe alone, with one request at a time, and in general |
| `RefundFlow` | refund requests, reviews and refunds; their properties |
| `RefundLedger`, `RefundRefinement` | the abstract specification (paid back, then booked, then answered) and the mapping |
| `RefundInvariants`, `RefundProofs` | the inductive invariant and the theorems |
| `AuditChain`, `ReceiptKeys` | the audit log and the receipt keys, each a specification of its own |
| `SecurityDesk` | the two composed with the handlers that use both |
| `SecurityInvariants`, `SecurityProofs` | the inductive invariants and the theorems of the three |
| `Checkout` | order creation and pricing, and the checks before a payment |
| `CheckoutInvariants`, `CheckoutProofs` | the inductive invariant and the theorems |
| `Sums` | lemmas on folds over finite sets and on sums, for `CheckoutProofs` |
| `Accounts`, `AccountsProofs` | users, registration, login and the two seeds; the theorems |
| `MCPaymentFlow`, `MCRefund`, `MCSecurity`, `MCCheckout` | the instances for TLC |

In every module an action is one statement, or the writes and COMMIT of one
transaction, or one call to another process, and is named after its function
where there is one. A worker (writer, client) is a request in flight: where it
stands (`pc`) and its local variables. An exception goes where the code's
`catch` takes it. Requests that are refused before they change anything are not
steps.

### PaymentFlow

**State.** `order`, `attempt`, `tx` and `event` are the tables `orders`,
`payment_attempts`, `transactions` and `webhook_events`, each indexed by what
its unique index makes the identity of a row: an attempt by its idempotency key,
a transaction and an event by the provider's payment. `payment` is the
provider's own knowledge: what became of the money (`state`), what the create
call answered (`reply`), and the metadata sent along. `worker` holds the
requests in flight: where each stands (`pc`) and its local variables. `faults`
counts crashes and failed statements.

**Actions.**

| Routine | Steps |
|---|---|
| `createPaymentIntent` | `ClaimPaymentAttempt`, `UpdateOrderProcessing`, `CallProvider` / `ProviderCallFails`, `PersistProviderPayment`, `AttachProviderPaymentToOrder`, `MarkAttemptFailed` |
| `updateOrderStatus` | `ReadOrderStatus`, `WriteOrderStatus` |
| `confirmPayment` | `LoadAttempt`, `FindTransaction`, then either `ReadOrderStatus`, `WriteOrderStatus`, `MarkAttemptSucceeded` (repair) or `BeginConfirmation`, `CommitConfirmation`, `CreateSuccessfulTransaction`; then `StoreMac`, `StoreReceipt` / `SigningFails` |
| `handleWebhook` | `ReceiveEvent`, `FindOrderOfFailedPayment`, `MarkEvent`, with `confirmPayment` or `updateOrderStatus` between |
| `syncPayment` | `SyncPayment`, then `confirmPayment` |
| environment | `ProviderSettles`, `StatementFails`, `Crash` |

A row that an uncommitted UPDATE has changed makes other UPDATEs of it wait
(`AttemptLocked`).

**Abstractions.** All orders belong to one payer: attempts are unique per payer
and key, and every lookup by order checks the payer, so payers never meet.
Amount and currency are the order's own and cannot change, so reconciling them
is reconciling the order. A Stripe payment ends as succeeded or failed, once,
and has one event for that; a card that fails and is then confirmed again by the
client under the same intent is left out. Receipts and MACs are stored or not.
No operation of this code cancels or expires an order, and refunds are in
`RefundFlow`, so those statuses are not reached here.

### RefundFlow

`order`, `tx`, `refund` and `request` are the tables `orders`, `transactions`,
`refunds` and `refund_requests`; a refund is indexed by its idempotency key,
which for an approval is the request's id. The key of a direct refund comes from
the client, and nothing keeps it from being the id of a request (`AdminKeys` and
`Requests` may overlap). `provider` is what became of the call made for each
refund, `audit` the events that name the outcome of a request. A refund also
remembers for which request it was made, if any (`request`), as the call to the
provider does in its metadata: no step of the program reads it, the properties
do.

| Routine | Steps |
|---|---|
| `createRefundRequest` | `StartRequest`, `FindSuccessfulTransaction`, `InsertRequest` |
| `cancelRefundRequest`, `rejectRefundRequest` | one UPDATE each |
| `approveRefundRequest` | `ClaimRequest` or `BlockApproval`, then `refundTransaction`, `ReturnResult` or `CatchError` |
| direct refund | `StartDirectRefund`, then `refundTransaction`, `ReturnResult` |
| `refundTransaction` | `GetExistingRefund`, which ends it with what is there, or `LoadRefundableTransaction`, `InsertRefund`, `SendRefund`, `RecordAnswer` or `RefundCallFails`, `CheckPersist`, `PersistSuccessfulRefund` |
| environment | `StripeDecides`, `StatementFails`, `Crash`, `OrderOverwritten` |

A call that was sent runs on at Stripe whatever becomes of the worker, and may
be taken for failed at any time, since the timeout is not tied to anything
Stripe does. MockBank answers at once. Of an amount the model keeps whether it
is the whole. Unique keys
are per user, and there is one customer and one admin: two reviews at once are
two workers. Orders begin as paid, with the successful transactions `PaymentFlow`
leaves; `OrderOverwritten` is the race that `paid_overwritten` shows. `log` may
lose an event and never throws.

### AuditChain, ReceiptKeys, SecurityDesk

A hash is modelled as what went into it: the sequence of the contents of the
rows it is chained to. `created_at` and the random id that breaks its ties are
one number, the stamp; within a millisecond stamps are drawn in any order, and
`Tick` makes the following ones greater. `log` is `Stamp` (before the lock),
`ReadPrevious` (with the lock), `CommitRow` or `LogFails`; `AlterRow` is a
change by something other than the program. `verifyAuditChain` is the operator
`ChainValid`.

`private`, `public` and `activeFile` are the key files; the pair in a file is a
number. A rotation is `StartRotation` and three `WriteFile` steps, each an
atomic rename, with nothing beside it, as the service works synchronously, and
`RestartService` at any point, which is where the environment's
`RECEIPT_ACTIVE_KEY_VERSION` is read. A receipt is the version it names and the
pair that signed it.

`SecurityDesk` runs both and adds the handlers: `RequestRotation`,
`RotationStep`, `VerifyReceipt`, `LogNext` with the events a handler has still
to log in `toLog`, and the crashes of either side. A receipt that does not verify is
logged without its name and with a reason. "Invalid receipt" is what the
customers' handler logs when the service has answered so; "failed" is everything
else: the admin's handler logs `verification_failed` for any error, and the
customers' handler the message of whatever went wrong with the call. So, as in
the code, a genuine receipt may be logged as invalid while the service cannot be
reached. `signed` records in such an event whether the service had signed the
receipt; it is no part of the row and only `VerdictsAreTrue` looks at it. A
request without a receipt is an event of its own (`VerifyNothing`). When it
answers, the service can read its key files.

### Checkout and Accounts

`Checkout` has the catalogue, the orders with their lines, nonces, attempts, the
failures counted in memory, and the clock they are counted by.
`LoadActiveProducts` and `CommitOrder` are `createOrder`; `RequestPayment`,
`ConsumeNonce`, `CheckVelocity`, `Pay` and `RecordFailure` are the controller's
`createPaymentIntent`. `Pay` stands for the whole payment, by what it can leave
behind: refused, stored and failed, or stored and accepted; `SettleOrder` is its
outcome. Merchant and currency of a product, which an order must not mix, are
one value. The failures are a set of a nonce and a time each, where the code has
an array of times; `EveryFailureCounts` shows that the set loses none.

`Accounts` has the rows of `users`, with whose password and data they hold, the
requests in flight, the JWTs handed out, and where each of the two seeds stands:
`StartRegistration`, `CreateUser`, `SignJwt`; `StartLogin`, `SignJwt`;
`StartSeedAdmin`, then `InsertAdmin` or `UpdateAdmin`; `StartSeed`,
`UpsertUser`; and the failure of each. Emails are compared as they are sent;
`seedAdmin.js` trims ADMIN_EMAIL and puts it in lower case, `seed.js` does not, so
the admin of `seed.js` is another account when that makes a difference
(`AdminEmails`).

## 3. Runs

Deadlock is not an error in these runs: a finite instance ends, when all keys,
payments, stamps or requests are used and nothing is in flight.

| Run | Instance | Shows |
|---|---|---|
| `stripe` | 1 order, 2 keys, 2 payments, Stripe, 2 requests at once, 1 fault | `TypeOK`, `PaidIsCaptured`, `FailedIsDeclined`, `RecordedIsCaptured`, `ProcessedIsSealed`, `PaidIsRecordedOrRepairable`, `ImplementsLedger` |
| `providers` | 2 orders, 2 keys, 2 payments, both providers, 2 requests at once | `IInv`, `PaidIsCaptured`, `RecordedForItsOrder`, `RecordsAreKept` |
| `serial` | 2 orders, 2 keys, 2 payments, both providers, 1 request at a time, 2 faults | `PaidStaysPaid`, `RecordedOrderIsPaid` |
| `liveness` | 1 order, 1 key, 1 payment, Stripe, 2 requests at once, 2 faults | `CapturedIsRecorded`, `ChargedIsRecorded` |
| `double_payment` | 1 order, 2 keys, 2 payments, Stripe | refutes `NoDoublePayment` |
| `paid_overwritten` | 1 order, 2 keys, 2 payments, Stripe, 2 requests at once | refutes `PaidStaysPaid` |
| `unpaid_recorded` | 1 order, 2 keys, 2 payments, MockBank | refutes `RecordedOnlyOnSuccess` |
| `refund` | 1 order, 1 transaction of either provider, 2 requests, direct refunds under the id of one of them, 2 in flight at once, 1 fault | `IInv`, `RefundedIsPaidBack`, `SucceededIsPaidBack`, `DeclinedIsNotPaidBack`, `SecondFollowsLostAnswer`, `RefundsReconcile`, `AuditedIsPaidBack`, `DecisionsStand`, `ApprovedIsSettled`, `ImplementsRefundLedger` |
| `double_refund` | 1 transaction, Stripe, 1 request, 2 direct refunds, one after another | refutes `NoDoubleRefund` |
| `security` | 2 handlers, 2 stamps, 3 versions, 3 pairs, 1 receipt, 2 rows verified | `DeskInv`, `ChainedToTheLast`, `OrderedLogVerifies`, `AlterationDetected`, `ReceiptsVerify`, `ActiveCanSign`, `RotationsLoggedAreReal`, `VerdictsAreTrue` |
| `audit_fork` | 2 handlers, 3 stamps, 2 versions | refutes `UntouchedLogVerifies` |
| `checkout` | 2 products, 1 order of up to 2 items, 3 nonces, 1 key, 2 in flight; 2 emails, 2 persons, 2 in flight | `TypeOK`, `OrderAddsUp`, `ChargedAsOrdered`, `NonceBeginsOnePayment`, `FailuresBounded`, `RegistrantOwnsAccount`, `DeployedHasAdmin` |

**Bounds.** The first seven runs are of `MCPaymentFlow`. Every race in this code
is between two requests that touch one order, one attempt, one payment or one
event, so two workers meet in every way; a third request comes after one of them
has ended, and there is no limit on how many come one after another. Two keys
and two payments are what a second charge, a reused key or a confused payment id
needs; two orders are what a booking to the wrong order needs. `MaxFaults`
bounds crashes and failed statements together; one fault separates any two
commits, two also hit the repair of the first. Provider errors, lost answers,
signing failures and redeliveries are not bounded. The theorems of section 4
need none of these bounds.

In `refund`, `AdminKeys` is the id of one of the two requests: a direct refund
under it meets an approval of that request, which takes it for its own, and an
approval of the other one, which it races for the transaction, as a direct refund
under a key of its own would; one transaction and two keys are what refunds that
overlap, or follow a lost answer, need. Keys of their own beside it and two
transactions of one order are left to the theorems, which hold for any number
(and `double_refund` has two direct refunds under keys of their own).
`MCLateApproval` lets approvals come too late for that one request only, as all
they do is to log an event that nothing reads. In `security`, `MaxStamp` is the length of
the log: two rows, or one row and a call that was lost, are what an order of
stamps needs to go wrong, so `audit_fork` has one more than it needs; and three
versions are two rotations, one of them perhaps cut off. An altered log is not
continued (`MCUntouched`), as no step of the program looks at what was altered
before it verifies. `MCOneReceipt` leaves out a second signature: no action and
no property relates two receipts, so that what is wrong with one of two is wrong
with it alone; the key it names may still have any number of later ones. In
`checkout`, `MaxItems` and `MaxQuantity` are the limits
of `inputValidator.js` made small, with items one beyond both offered;
`MaxFails` and `Window` are the constants of `velocityCheck.js`; prices differ
at first, so that a mix-up shows; two workers and three nonces let one request
slip past the velocity check and another be blocked. `Checkout` and `Accounts`
share no variable and no property speaks of both, so the instance lets one of
them move and not the other.

**Symmetry** is used where no action and no property tells the values apart, and
in no run with a liveness property.

**Fairness** (`Fairness`, `ClientRetries`). A request in flight goes on: the
event loop runs it to its end or to an exception (weak fairness of `Step`).
Stripe redelivers an event until it is answered 2xx, and a free slot appears
again and again (strong fairness of `ReceiveEvent`, per payment). The Security
Service is not down for ever (strong fairness of `StoreReceipt`).
`ChargedIsRecorded` also assumes that a client without an answer retries under
its key as long as the order takes payments, and that the provider answers some
of these calls. The code itself retries nothing. Of refunds only that a request
in flight goes on (weak fairness of `Step`, per worker) is assumed, and nothing
of the provider: `ApprovedIsSettled` rests on the timeout.

**What the violations show.**

- `NoDoublePayment`: `assertOrderCanCreatePayment` admits an order that is
  already processing, so a second create request with a new idempotency key
  charges it again, and both payments are confirmed. The end-to-end test "double
  payment blocked" pays an order again only after it is paid, and
  `reconciliationService` reports what happens here as a mismatch.
- `PaidStaysPaid`: `updateOrderStatus` updates by id alone, after its check. A
  payment_failed event for the first payment, read before and written after the
  confirmation of the second, turns a paid order into payment_failed. Run
  `serial` shows that this takes two overlapping requests: without overlap the
  property holds, whatever crashes.
- `RecordedOnlyOnSuccess`: sync reports a MockBank payment as succeeded if its
  order is paid, so syncing a declined or pending payment of an order that
  another payment paid records it as a success.
- `NoDoubleRefund`: `refundWithTimeout` gives up on a call that Stripe may still
  carry out, and the refund is marked failed; a failed refund does not count as
  active, and the next one is sent without an idempotency key. Two refunds of a
  part, which Stripe accepts up to the amount charged, are then both paid back.
  `SecondFollowsLostAnswer` shows that this is the only way.
- `UntouchedLogVerifies`: `log` takes its timestamp before it waits for the
  advisory lock. Two calls that get the lock in the other order leave a log
  which nobody touched and which does not verify. `OrderedLogVerifies` shows
  that nothing else breaks it.

**What is not promised.** `CapturedIsRecorded` is checked with one payment per
order. With two, a late event of the declined first payment can fail the order
while the second is being confirmed; the event of the second is then refused
with 409 until a client retries. For MockBank two requests under one key mint
two payments and the attempt keeps only one of them; `RecordedForItsOrder` shows
that nothing is booked wrongly, but the other is never recorded. A refund the
provider answers as pending is resolved by no handler, and neither is a request
left in approved_processing by a crash; `ApprovedIsSettled` excepts both. A
request may say provider_failed of a refund that was made, if the failure came
after the money; the properties show that it never goes the other way, and the
same of the event provider_refund_failed. If an admin refunds directly under
the id of a request that waits for review, its approval is answered from that
refund without a look at the transaction: when the provider has paid and the
books failed, the request ends as succeeded, and the log says
provider_refund_succeeded, while the transaction still says success; when the
direct refund is still at the provider, the request ends as provider_failed.
`SucceededIsPaidBack`, `AuditedIsPaidBack` and the ledger therefore promise the
money in every case and the books only for an approval's own refund;
`SeparateKeysAreBooked` promises both if the keys are kept apart, which the code
leaves to its clients. A rotation whose answer was lost is not in the log; a
version that is in it is published, but with `RECEIPT_ACTIVE_KEY_VERSION` set it
may be the old one and not the one just made. That the log calls a receipt
invalid means something only where its reason is "Invalid receipt". A refund of a part marks the
transaction and the order as refunded.

## 4. Proofs

The theorems hold for every set of orders, keys, workers and so on, and every
bound. They assume only the named assumptions on the constants: the providers
are among the two the code knows, bounds are natural numbers, transactions are
numbers in the order of their creation, "no value" is not one of the values
(`ConstantsAssumption`, `RefundAssumption`, `KeysAssumption`); an event can be
altered into another one (`AuditAssumption`) and all that handlers log is an
event (`DeskAssumption`); the customer and the merchant of `seed.js` do not have
the address of an admin, and whoever deploys is not one of those who register
(`AccountsAssumption`); the
catalogue and the requests in flight are finitely many, and `MAX_FAILS` and
`WINDOW_MS` are not zero (`CheckoutAssumption`). The theorems with a hypothesis
of their own are named with it below.

Every inductive invariant was checked with TLC before it was proved: `IInv` and
`DeskInv` are invariants of runs; `RepairInv`, `SerialInv` and `DeclineInv` were
checked on the instances of `stripe`, `serial` and `providers`, and the `IInv`
of `CheckoutInvariants` on that of `checkout`, where they hold.

### Payments: `PaymentFlowProofs`, `PaymentOrderProofs`, `PaymentRefinementProofs`

**The inductive invariant.** None of the safety invariants is inductive: each
depends on what requests in flight have read. `IInv` ties three things together:

- the tables to the provider (`OrderInv`, `AttemptInv`, `TxInv`, `EventInv`): a
  payment id in an order or an attempt is of a payment made for that order; a
  paid order has a captured payment, a failed one a declined payment; a
  transaction stands for captured money and is booked to its payment's order; a
  processed event's transaction is sealed;
- the provider to the attempts (`PaymentInv`): a payment was made under a key
  whose attempt has the same order and provider, and `reply` agrees with
  `state`;
- every request in flight to both (`WorkerInv`: `CreateInv`, `ConfirmInv`,
  `WebhookInv`): a request that confirms has a payment that is captured, or, for
  MockBank, of an order that was paid; the row it loaded has nothing the stored
  row has not.

What makes it inductive is that a request's knowledge never becomes wrong: the
lemmas on how the state grows show that attempts keep their order and provider,
payments keep their metadata and never leave succeeded or failed, transactions
keep their order, MAC and receipt. What could become wrong, the order's status,
is not relied upon. Each part is preserved by a lemma of its own, with one step
per action that can disturb it; `Invariant` combines them, and the theorems
`TypeCorrect`, `NoUnpaidOrderIsPaid`, `NoOrderFailsByAccident`,
`RecordsAreTrue`, `RecordsAreBookedRight`, `NoEventIsLost` and `RecordsLast`
follow from it.

**What an order's status is worth** (`PaymentOrderProofs`), three ways.

- *Stripe alone.* `PaidOrdersAreRepairable` (hypothesis
  `Providers = {"stripe"}`): a paid order has its transaction, or a delivery can
  still book it. `confirmPayment` commits "paid" first and a crash may follow, so
  what matters is that the payment is found again. `RepairInv` says why: Stripe
  makes one payment per key, an attempt refers to the payment of its own key and
  never to another (`OnePaymentPerKey`, `AttemptKeepsPayment`), and a request
  that confirms a payment holds the key of its attempt; so a paid order has an
  attempt with a captured payment, now and later. MockBank mints a second payment
  under a key, which is why the hypothesis is needed.
- *One request at a time* (hypothesis `OneRequest`, on `Workers`), with any
  provider, and with crashes and failures anywhere. `SerialInv`: what
  `confirmPayment` or `updateOrderStatus` read of an order is still so when they
  write. `RecordedOrdersArePaid` and `PaidOrdersStayPaid` follow. The run
  `paid_overwritten` shows two requests breaking the second.
- *In general.* `PaidOrdersYieldToDeclines`: the only step that takes a paid
  order back is the UPDATE to payment_failed for a declined payment of that
  order. So by `DeclineInv` a transaction's order is paid unless a payment of it
  was declined (`UnpaidRecordsHaveDeclines`), and in any case it is an order the
  provider has taken money for (`RecordedOrdersTookMoney`), also where
  `unpaid_recorded` shows a transaction of a payment that was not captured.

`Arrival` is the lemma most steps rest on: a request is at a point of its code
because of one certain action, so a fact about that point needs to be shown for
that action and for those that change what it speaks of, and for no other.

**Refinement.** `PaymentFlowImplementsLedger`: each action does one of a few
kinds of thing to the ledger's four sets, or nothing; each kind is a ledger step
under `IInv`. MockBank payments are outside the mapping: they have no events,
and sync records some that were never captured. `PromiseInOrder` carries the
ledger's order back to the backend.

### Refunds: `RefundProofs`

`IInv` of `RefundInvariants` says which rows a request in flight may rely on:

- a worker owns its request (`WorkerOwnsRequest`): one being created has no row
  yet, one being refunded was claimed, for the transaction the worker refunds;
- it owns its refund (`WorkerOwnsRefund`), stage by stage; and no two workers
  hold one refund or act on one request (`OneWorkerEach`);
- at most one refund of a transaction is active (`OneActiveRefund`), and a row
  says of the provider's call what the provider made of it (`RefundRowOK`);
- what an approval is about to be answered was true when it was read and stays
  so, also if it is what a direct refund under its key had come to (`AnswerOK`);
- requests, transactions, orders and the audit log follow from the refunds
  (`RequestRowOK`, `RefundedTxOK`, `OrderOK`, `AuditOK`).

The claim, an UPDATE that asks for pending_review, is what makes a worker the
owner of a request, and the unique index on the idempotency key of a refund:
without either, a second worker could settle what the first still refunds. A
direct refund may have inserted the row under a request's id first; then the
approval finds it and never has a row of its own, so that `refund[k].request`
tells for ever whose refund it is. `SeparateKeysAreBooked` is the one theorem
with a hypothesis, `Requests \cap AdminKeys = {}`. The
`*Writers` lemmas say which actions write each variable at all, so that every
part is shown for those alone. `RefinesRefundLedger` uses `IInv` for the order
of the ledger and `TxStays`, `RefundStays` and the like for what is never taken
back.

### Keys, log and handlers: `SecurityProofs`

`KeysInv`: the published versions are 1..n without a gap, each with its own
pair, and a rotation works on version n + 1 or activates n; so it never
overwrites a key that a receipt needs, and whatever it is cut off at, the active
version is complete. `AuditInv`: the row a call holds the lock for is chained to
what is still the last row, stamps differ, and a row's hash tells whether it is
the row that was written; the last because a hash is injective, here by
construction of the model. `DeskInv`: of what is logged, being logged or still to
be logged, a rotation names a published version, a valid receipt is a signed one
and a receipt refused by the service is not; the first two stay so because
versions and receipts are only added, the third is of the moment it was
answered. `DeskComposes` shows that the handlers use the log and the keys as
the two modules specify them, so that what holds of each alone holds of both
together.

### Accounts: `AccountsProofs`

`AccountsInv`: only where the deployment puts an admin (`AdminEmails`) is there
ever one; a request that waits for its token owns the row or has read a role the row
keeps. `RowsKept` is the argument: no writer of `users` takes a row, its data,
the password of a customer or the rank of an admin away. `TokensKeepTheirRank`
is stated as a theorem only and has no run of its own.

### Orders and the guard: `Sums`, `CheckoutProofs`

**Sums.** What the items of an order add up to is a fold, and the total of its
lines another, over lists and sets of any size. The induction theorems of the
library cannot be used with the provers at hand. `Sums` gets by without them:
`Counting` shows by the pigeonhole principle that a set of numbers up to n which
holds 0 and the successor of each of its members holds n. Over the sizes of the
subsets of a finite set, this gives that a fold has a value and only one
(`FoldExists`, `FoldUnique`), which the recursive definitions of the library
leave open, and `SumTakesOut`: a sum does not depend on the order.
`MergedIsFold` and `MergedAddsUp` then give what `normalizeRequestedItems`
computes for a list of any length, and its bound, which `TypeOK` needs;
`PricedLines` puts the two together for `buildPricedItems`.

**The inductive invariant** (`IInv` of `CheckoutInvariants`):

- an order about to be inserted has its id to itself and adds up already
  (`InsertInv`), a stored one adds up (`OrderInv`), and an attempt is for one that
  is stored, at its total (`AttemptInv`);
- a nonce that a request has used up is in the table, is held by no other
  request, and has begun no payment while the request waits for the velocity
  check (`NonceInv`);
- the recent failures, and the requests that have passed the velocity check and
  may still fail, are together fewer than `MaxFails` and the workers
  (`FailureInv`): a request that passes finds fewer than `MaxFails` failures, and
  from then on a failure is only ever exchanged for the request it is of.

`OrdersAddUp`, `PaymentsAreAsOrdered`, `NoncesAreUsedOnce` and
`VelocityLagIsBounded` follow, for any number of requests in flight.
`PlacedStays` adds that what was placed, claimed or used stays so, which makes
"at its total" mean the total of the order as it was placed.

### Only model-checked

Liveness (`CapturedIsRecorded`, `ChargedIsRecorded`, `ApprovedIsSettled`): the
prover has no rules for fairness. That is all: every safety property, action
property and refinement that a passing run checks is proved, those of `serial`
and `PaidIsRecordedOrRepairable` with the hypotheses named above.

## 5. Not modelled

- **Cryptography, key wrapping, mTLS** (`src/src/crypto`, `kmsService.js`):
  libraries. The models keep whether a MAC or receipt is stored, what a hash is
  of, and which pair signed; a wrap or a signature is a step that may fail.
- **Access control, validation middleware, rate limiter**: stateless checks of
  one request, or configuration of a library. A refused request changes nothing,
  and the models start behind them.
- **Admin views, configuration, health, evidence reports**: read-only. Of the
  reconciliation report, the mismatches a refund could cause are defined in
  `RefundFlow`; the others are what `RecordedOrderIsPaid`,
  `PaidIsRecordedOrRepairable` and `NoDoublePayment` state.
- **Rows of the legacy audit chain, and the HMAC of a single row**: nothing
  writes the former any more, and checking the latter changes no state.
- **Merchants and products of `seed.js`**: rows that the other models take as
  given.
- **`decryptUserPII`, `unwrap-key`**: nothing calls them.
- **Test scripts, migrations, deployment files**: read for what they say of the
  program.
- **Left out of the flows**: a card that is confirmed again by the client under
  one intent; idempotency keys of
  several users, whose rows never meet;
  payments of an order that is being refunded, except for what they overwrite.

What would come next: `PaymentFlow` composed with `RefundFlow`, for a sync or a
redelivery that meets a refunded order; and the safety half of the liveness
properties, that a payment not recorded yet never gets stuck.

## 6. Running

    tlc -config stripe.cfg MCPaymentFlow.tla      # and providers, serial, liveness, double_payment,
                                                  # paid_overwritten, unpaid_recorded
    tlc -config refund.cfg MCRefund.tla           # and double_refund
    tlc -config security.cfg MCSecurity.tla       # and audit_fork
    tlc -config checkout.cfg MCCheckout.tla
    tlapm PaymentFlowProofs.tla                   # and PaymentOrderProofs, PaymentRefinementProofs,
                                                  # RefundProofs, SecurityProofs, AccountsProofs,
                                                  # Sums, CheckoutProofs

`stripe` is the largest run, about 4.5 million states. With two workers `refund`,
which also checks liveness, takes about three minutes, `stripe`, `security` and
`checkout` between two and three, the others less.
