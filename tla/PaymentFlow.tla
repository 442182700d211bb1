---------------------------- MODULE PaymentFlow ----------------------------
(***************************************************************************)
(* How an order of the store is paid: the create-intent request, the       *)
(* confirmation of a captured payment, the Stripe webhook and the sync     *)
(* request, as the backend interleaves them over PostgreSQL and a payment  *)
(* provider it does not control (src/src/payments, src/src/orders).        *)
(*                                                                         *)
(* A worker is one request in flight in the Node process.  It runs one     *)
(* statement per step; every await is a point where the other workers run, *)
(* where the statement may fail, and where the process may crash, which    *)
(* ends all requests at once and leaves what was committed.  A database    *)
(* transaction is its reads, each a step, and one step for its writes and  *)
(* COMMIT.                                                                 *)
(*                                                                         *)
(* All orders belong to one payer: an attempt is unique per payer and      *)
(* idempotency key, so two payers never meet.  Amounts are the order's     *)
(* own, so "the amounts agree" is "the orders agree".                      *)
(***************************************************************************)
EXTENDS Naturals, OrderStateMachine

CONSTANTS
  Orders,      \* orders of one payer
  Keys,        \* idempotency keys the payer's client sends
  Payments,    \* provider payment ids the provider may mint
  Providers,   \* the providers in use, among "stripe" and "mock_bank"
  Workers,     \* requests that can be in flight at once
  MaxFaults,   \* bound: how many crashes and failed statements there may be
  None         \* a null column, or a local variable not yet set

ASSUME ConstantsAssumption ==
  /\ Providers \subseteq {"stripe", "mock_bank"}
  /\ MaxFaults \in Nat
  /\ None \notin Orders \cup Keys \cup Payments \cup {"stripe", "mock_bank"}

VARIABLES
  order,     \* table orders: status, stripe_payment_intent_id
  attempt,   \* table payment_attempts, by idempotency key
  tx,        \* table transactions, by provider payment id
  event,     \* table webhook_events: the processing_status of each payment's event
  payment,   \* what the provider knows of each payment
  worker,    \* the requests in flight: where each stands, and its local variables
  faults     \* crashes and failed statements so far

tables == <<order, attempt, tx, event>>
vars == <<order, attempt, tx, event, payment, worker, faults>>

-----------------------------------------------------------------------------
(* Rows and local variables *)

OrderRow == [status : OrderStatus, intent : Payments \cup {None}]

AttemptRow == [order : Orders \cup {None}, provider : Providers \cup {None},
               payment : Payments \cup {None},
               status : {"none", "created", "processing", "succeeded", "failed"}]

NoAttempt == [order |-> None, provider |-> None, payment |-> None,
              status |-> "none"]

\* mac and receipt: hmac_signature and jws_receipt are stored.
TxRow == [order : Orders \cup {None}, mac : BOOLEAN, receipt : BOOLEAN]

NoTx == [order |-> None, mac |-> FALSE, receipt |-> FALSE]

\* state: what became of the money; reply: what the create call answered.
ProviderStatus == {"none", "processing", "succeeded", "failed"}

PaymentRow == [state : ProviderStatus, reply : ProviderStatus,
               provider : Providers \cup {None},
               order : Orders \cup {None}, key : Keys \cup {None}]

NoPayment == [state |-> "none", reply |-> "none", provider |-> None,
              order |-> None, key |-> None]

CreatePc  == {"claim", "call", "persist", "attach", "markFailed", "readFailed",
              "writeFailed", "catch"}
ConfirmPc == {"load", "findTx", "readPaid", "writePaid", "markSucceeded",
              "txnRead", "txnCommit", "insertTx", "mac", "sign"}
WebhookPc == {"findOrder", "markProcessed", "markEventFailed"}

\* seen: the order status confirmPayment loaded; row: the transaction row the
\* SELECT or INSERT returned to it.
WorkerState == [pc : {"idle"} \cup CreatePc \cup ConfirmPc \cup WebhookPc,
                job : {"none", "create", "webhook", "sync"},
                order : Orders \cup {None}, key : Keys \cup {None},
                payment : Payments \cup {None},
                seen : OrderStatus \cup {None}, row : TxRow]

Idle == [pc |-> "idle", job |-> "none", order |-> None, key |-> None,
         payment |-> None, seen |-> None, row |-> NoTx]

TypeOK ==
  /\ order \in [Orders -> OrderRow]
  /\ attempt \in [Keys -> AttemptRow]
  /\ tx \in [Payments -> TxRow]
  /\ event \in [Payments -> {"none", "received", "processed", "failed"}]
  /\ payment \in [Payments -> PaymentRow]
  /\ worker \in [Workers -> WorkerState]
  /\ faults \in 0..MaxFaults

Init ==
  /\ order = [o \in Orders |-> [status |-> "pending", intent |-> None]]
  /\ attempt = [k \in Keys |-> NoAttempt]
  /\ tx = [p \in Payments |-> NoTx]
  /\ event = [p \in Payments |-> "none"]
  /\ payment = [p \in Payments |-> NoPayment]
  /\ worker = [w \in Workers |-> Idle]
  /\ faults = 0

At(w, pc) == worker[w].pc = pc

Goto(w, pc) == worker' = [worker EXCEPT ![w].pc = pc]

Finish(w) == worker' = [worker EXCEPT ![w] = Idle]

\* An exception leaves the routine: createPaymentIntent and handleWebhook have
\* a catch block, a sync request just answers with the error.
Raise(w) ==
  \/ worker[w].job = "create" /\ Goto(w, "catch")
  \/ worker[w].job = "webhook" /\ Goto(w, "markEventFailed")
  \/ worker[w].job = "sync" /\ Finish(w)

\* The UPDATE of payment_attempts inside confirmPayment's transaction holds the
\* row until COMMIT; every other UPDATE of that row waits.
AttemptLocked(k) == \E v \in Workers : At(v, "txnCommit") /\ worker[v].key = k

-----------------------------------------------------------------------------
(* createPaymentIntent *)

\* Mutant: the WHERE clause does not look at the status.
TakesAnyOrder(o) == TRUE

\* updateOrderProcessing's WHERE clause, and assertOrderCanCreatePayment.
CanCreatePayment(o) == order[o].status \in {"pending", "payment_failed", "processing"}

\* Mutant: the row found under the key is not compared with the request.
ClaimsAnyRow(k, o, pr) == attempt[k].payment = None

\* The row found under the key agrees with the request, and has no provider
\* payment yet.  One that has is answered at once, one that does not agree is
\* refused: neither changes anything.
ClaimsRow(k, o, pr) ==
  attempt[k].order = o /\ attempt[k].provider = pr /\ attempt[k].payment = None

\* The transaction of createPaymentIntent.  For a new key the INSERT, the move
\* of the order to "processing" and the COMMIT are one step; for a known one the
\* SELECT comes first.
ClaimPaymentAttempt(w, o, k, pr) ==
  /\ At(w, "idle")
  /\ CanCreatePayment(o)
  /\ \/ /\ attempt[k] = NoAttempt
        /\ attempt' = [attempt EXCEPT ![k] = [NoAttempt EXCEPT !.order = o,
                                               !.provider = pr, !.status = "created"]]
        /\ order' = [order EXCEPT ![o].status = "processing"]
     \/ /\ attempt[k] # NoAttempt
        /\ ClaimsRow(k, o, pr)
        /\ UNCHANGED <<attempt, order>>
  /\ worker' = [worker EXCEPT ![w] =
       [Idle EXCEPT !.pc = IF attempt[k] = NoAttempt THEN "call" ELSE "claim",
                    !.job = "create", !.order = o, !.key = k]]
  /\ UNCHANGED <<tx, event, payment, faults>>

\* updateOrderProcessing and COMMIT, for a known key.
UpdateOrderProcessing(w) ==
  LET o == worker[w].order
  IN /\ At(w, "claim")
     /\ \/ /\ CanCreatePayment(o)
           /\ order' = [order EXCEPT ![o].status = "processing"]
           /\ Goto(w, "call")
        \/ ~CanCreatePayment(o) /\ Finish(w) /\ UNCHANGED order
     /\ UNCHANGED <<attempt, tx, event, payment, faults>>

\* Mutant: the key is not passed on to Stripe.
KeyNotSent(k) == {}

\* Stripe answers a key it has seen with the payment it made for it.
SamePayment(k) == {p \in Payments : payment[p].provider = "stripe" /\ payment[p].key = k}

\* The provider's side of createPayment for worker w: p is the payment made
\* before for this key (Stripe only) or a new one, with any outcome.  MockBank
\* ignores the key.
ProviderCreates(w, p) ==
  LET k == worker[w].key
      pr == attempt[k].provider
  IN IF pr = "stripe" /\ SamePayment(k) # {}
     THEN p \in SamePayment(k) /\ UNCHANGED payment
     ELSE /\ payment[p] = NoPayment
          /\ \E s \in ProviderStatus \ {"none"} :
               payment' = [payment EXCEPT ![p] =
                             [state |-> s, reply |-> s, provider |-> pr,
                              order |-> worker[w].order, key |-> k]]

\* providerModule.createPayment returns, or throws: a declined card is an
\* exception of Stripe's and a status of MockBank's.
CallProvider(w, p) ==
  /\ At(w, "call")
  /\ ProviderCreates(w, p)
  /\ worker' = [worker EXCEPT
       ![w].payment = p,
       ![w].pc = IF payment'[p].provider = "stripe" /\ payment'[p].reply = "failed"
                 THEN "catch" ELSE "persist"]
  /\ UNCHANGED <<tables, faults>>

\* The call fails: refused before any payment was made, or, over the network,
\* the answer is lost after one was.
ProviderCallFails(w) ==
  /\ At(w, "call")
  /\ \/ UNCHANGED payment
     \/ /\ attempt[worker[w].key].provider = "stripe"
        /\ \E p \in Payments : ProviderCreates(w, p)
  /\ Raise(w)
  /\ UNCHANGED <<tables, faults>>

\* persistProviderPayment.
PersistProviderPayment(w) ==
  LET p == worker[w].payment
      k == worker[w].key
  IN /\ At(w, "persist")
     /\ ~AttemptLocked(k)
     /\ attempt' = [attempt EXCEPT ![k].payment = p, ![k].status = payment[p].reply]
     /\ Goto(w, "attach")
     /\ UNCHANGED <<order, tx, event, payment, faults>>

\* attachProviderPaymentToOrder, whatever the order's status is by now; then
\* MockBank's answer is acted on at once.
AttachProviderPaymentToOrder(w) ==
  LET p == worker[w].payment
  IN /\ At(w, "attach")
     /\ order' = [order EXCEPT ![worker[w].order].intent = p]
     /\ IF payment[p].provider = "mock_bank" /\ payment[p].reply \in {"succeeded", "failed"}
        THEN Goto(w, IF payment[p].reply = "succeeded" THEN "load" ELSE "markFailed")
        ELSE Finish(w)
     /\ UNCHANGED <<attempt, tx, event, payment, faults>>

\* markAttemptStatus to "failed": for a payment MockBank declined, and in the
\* catch block, which rethrows.
MarkAttemptFailed(w) ==
  /\ \/ At(w, "markFailed") /\ Goto(w, "readFailed")
     \/ At(w, "catch") /\ Finish(w)
  /\ ~AttemptLocked(worker[w].key)
  /\ attempt' = [attempt EXCEPT ![worker[w].key].status = "failed"]
  /\ UNCHANGED <<order, tx, event, payment, faults>>

-----------------------------------------------------------------------------
(* orderService.updateOrderStatus: SELECT and assertTransition, then an    *)
(* UPDATE that does not look at the status again                           *)

Target(w) == IF worker[w].pc \in {"readFailed", "writeFailed"}
             THEN "payment_failed" ELSE "paid"

AllowsTarget(w) == CanTransition(order[worker[w].order].status, Target(w))

ReadOrderStatus(w) ==
  /\ worker[w].pc \in {"readFailed", "readPaid"}
  /\ IF AllowsTarget(w)
     THEN Goto(w, IF At(w, "readPaid") THEN "writePaid" ELSE "writeFailed")
     ELSE Raise(w)
  /\ UNCHANGED <<tables, payment, faults>>

SetOrder(w) == order' = [order EXCEPT ![worker[w].order] =
                           [status |-> Target(w), intent |-> worker[w].payment]]

WriteOrderStatus(w) ==
  /\ worker[w].pc \in {"writeFailed", "writePaid"}
  /\ SetOrder(w)
  /\ \/ At(w, "writePaid") /\ Goto(w, "markSucceeded")
     \/ At(w, "writeFailed") /\ worker[w].job = "webhook" /\ Goto(w, "markProcessed")
     \/ At(w, "writeFailed") /\ worker[w].job = "create" /\ Finish(w)
  /\ UNCHANGED <<attempt, tx, event, payment, faults>>

-----------------------------------------------------------------------------
(* confirmPayment *)

\* assertReconciliation: the order the provider's metadata names is the one of
\* the attempt.  MockBank's retrievePayment gives sync nothing to compare.
Reconciles(w, k) ==
  LET p == worker[w].payment
  IN \/ payment[p].order = attempt[k].order
     \/ worker[w].job = "sync" /\ payment[p].provider = "mock_bank"

\* getPaymentAttemptForProviderPayment, JOIN orders: the row and the order's
\* status as they are now.
LoadAttempt(w) ==
  LET p == worker[w].payment
      rows == {k \in Keys : attempt[k].payment = p
                            /\ attempt[k].provider = payment[p].provider}
  IN /\ At(w, "load")
     /\ \/ \E k \in rows :
             IF Reconciles(w, k)
             THEN worker' = [worker EXCEPT
                    ![w].pc = "findTx", ![w].key = k,
                    ![w].order = attempt[k].order,
                    ![w].seen = order[attempt[k].order].status]
             ELSE Raise(w)
        \/ rows = {} /\ Raise(w)
     /\ UNCHANGED <<tables, payment, faults>>

\* The SELECT of an existing transaction decides between repairing its order
\* and recording the payment.
FindTransaction(w) ==
  LET row == tx[worker[w].payment]
  IN /\ At(w, "findTx")
     /\ worker' = [worker EXCEPT
          ![w].row = row,
          ![w].pc = IF row = NoTx THEN "txnRead"
                    ELSE IF worker[w].seen = "paid" THEN "markSucceeded" ELSE "readPaid"]
     /\ UNCHANGED <<tables, payment, faults>>

MarkAttemptSucceeded(w) ==
  /\ At(w, "markSucceeded")
  /\ ~AttemptLocked(worker[w].key)
  /\ attempt' = [attempt EXCEPT ![worker[w].key].status = "succeeded"]
  /\ Goto(w, "mac")
  /\ UNCHANGED <<order, tx, event, payment, faults>>

\* The transaction: UPDATE payment_attempts takes the row lock; unless the
\* order was loaded as paid, updateOrderStatus reads it.  A refused transition
\* rolls back.
BeginConfirmation(w) ==
  /\ At(w, "txnRead")
  /\ ~AttemptLocked(worker[w].key)
  /\ IF worker[w].seen = "paid" \/ AllowsTarget(w)
     THEN Goto(w, "txnCommit")
     ELSE Raise(w)
  /\ UNCHANGED <<tables, payment, faults>>

CommitConfirmation(w) ==
  /\ At(w, "txnCommit")
  /\ attempt' = [attempt EXCEPT ![worker[w].key].status = "succeeded"]
  /\ IF worker[w].seen = "paid" THEN UNCHANGED order ELSE SetOrder(w)
  /\ Goto(w, "insertTx")
  /\ UNCHANGED <<tx, event, payment, faults>>

\* Mutant: the conflicting row is replaced, losing what was stored in it.
ReplacesRow(w) == [order |-> worker[w].order, mac |-> FALSE, receipt |-> FALSE]

\* INSERT INTO transactions ... ON CONFLICT keeps the row that is there.
InsertedRow(w) == IF tx[worker[w].payment] = NoTx
                  THEN [NoTx EXCEPT !.order = worker[w].order]
                  ELSE tx[worker[w].payment]

CreateSuccessfulTransaction(w) ==
  /\ At(w, "insertTx")
  /\ tx' = [tx EXCEPT ![worker[w].payment] = InsertedRow(w)]
  /\ worker' = [worker EXCEPT ![w].pc = "mac", ![w].row = InsertedRow(w)]
  /\ UNCHANGED <<order, attempt, event, payment, faults>>

\* attachSecurityArtifactsToTransaction, first half: the MAC, if the row had none.
StoreMac(w) ==
  /\ At(w, "mac")
  /\ tx' = IF worker[w].row.mac THEN tx
           ELSE [tx EXCEPT ![worker[w].payment].mac = TRUE]
  /\ Goto(w, "sign")
  /\ UNCHANGED <<order, attempt, event, payment, faults>>

\* confirmPayment has returned.
Confirmed(w) == IF worker[w].job = "webhook" THEN Goto(w, "markProcessed") ELSE Finish(w)

\* Second half: the receipt, signed by the Security Service, if the row had none.
StoreReceipt(w) ==
  /\ At(w, "sign")
  /\ tx' = IF worker[w].row.receipt THEN tx
           ELSE [tx EXCEPT ![worker[w].payment].receipt = TRUE]
  /\ Confirmed(w)
  /\ UNCHANGED <<order, attempt, event, payment, faults>>

SigningFails(w) ==
  /\ At(w, "sign")
  /\ ~worker[w].row.receipt
  /\ Raise(w)
  /\ UNCHANGED <<tables, payment, faults>>

-----------------------------------------------------------------------------
(* handleWebhook and syncPayment *)

\* Mutant: any event but a success is handled as a failure.
HasAnyEvent(p) == payment[p].provider = "stripe" /\ payment[p].state # "none"

\* A Stripe payment whose money has moved, or will not move, has an event, of
\* type payment_intent.succeeded or payment_intent.payment_failed.
HasEvent(p) == payment[p].provider = "stripe" /\ payment[p].state \in {"succeeded", "failed"}

\* Mutant: an event that is in the ledger counts as handled.
HandledOnceRecorded(p) == event[p] # "none"

\* Only a processed event is answered as a duplicate.
Duplicate(p) == event[p] = "processed"

\* A delivery, the first or a repeated one: recordReceivedEvent, then the
\* switch on the type.  A duplicate changes nothing.
ReceiveEvent(w, p) ==
  /\ At(w, "idle")
  /\ HasEvent(p)
  /\ ~Duplicate(p)
  /\ event' = [event EXCEPT ![p] = IF @ = "none" THEN "received" ELSE @]
  /\ worker' = [worker EXCEPT ![w] =
       [Idle EXCEPT !.job = "webhook", !.payment = p,
                    !.pc = IF payment[p].state = "succeeded" THEN "load" ELSE "findOrder"]]
  /\ UNCHANGED <<order, attempt, tx, payment, faults>>

\* payment_intent.payment_failed: the order that refers to the payment, if any
\* still does.
FindOrderOfFailedPayment(w) ==
  LET rows == {o \in Orders : order[o].intent = worker[w].payment}
  IN /\ At(w, "findOrder")
     /\ \/ \E o \in rows :
             worker' = [worker EXCEPT ![w].pc = "readFailed", ![w].order = o]
        \/ rows = {} /\ Goto(w, "markProcessed")
     /\ UNCHANGED <<tables, payment, faults>>

\* Mutant: the catch block acknowledges the event.
AcknowledgesErrors(w) == "processed"

\* Mutant: the ledger is given the attempt's word for a success.
MarksSucceeded(w) == IF At(w, "markProcessed") THEN "succeeded" ELSE "failed"

\* markProcessed, or markFailed in the catch block, whatever another delivery
\* has written there.
LedgerStatus(w) == IF At(w, "markProcessed") THEN "processed" ELSE "failed"

MarkEvent(w) ==
  /\ worker[w].pc \in {"markProcessed", "markEventFailed"}
  /\ event' = [event EXCEPT ![worker[w].payment] = LedgerStatus(w)]
  /\ Finish(w)
  /\ UNCHANGED <<order, attempt, tx, payment, faults>>

\* Mutant: a payment that has not failed is taken for a success.
ReportedNotFailed(p, o) == payment[p].state # "failed"

\* syncPayment's providerStatus: a MockBank payment is reported succeeded when
\* the order o it belongs to is paid.
ReportedSucceeded(p, o) ==
  IF payment[p].provider = "mock_bank" THEN order[o].status = "paid"
  ELSE payment[p].state = "succeeded"

\* getOrderForPayment and retrievePayment; confirmPayment follows only for a
\* payment reported succeeded, otherwise nothing changes.
SyncPayment(w, p) ==
  /\ At(w, "idle")
  /\ \E k \in Keys : /\ attempt[k].payment = p
                     /\ ReportedSucceeded(p, attempt[k].order)
  /\ worker' = [worker EXCEPT ![w] =
       [Idle EXCEPT !.pc = "load", !.job = "sync", !.payment = p]]
  /\ UNCHANGED <<tables, payment, faults>>

-----------------------------------------------------------------------------
(* The environment *)

\* Stripe settles a payment it had answered as still processing.
ProviderSettles(p) ==
  /\ payment[p].provider = "stripe" /\ payment[p].state = "processing"
  /\ \E s \in {"succeeded", "failed"} : payment' = [payment EXCEPT ![p].state = s]
  /\ UNCHANGED <<tables, worker, faults>>

\* A statement fails: an open transaction rolls back,
\* and the exception goes where Raise says; from the catch blocks, and before
\* createPaymentIntent's, it ends the request.
StatementFails(w) ==
  /\ faults < MaxFaults
  /\ faults' = faults + 1
  /\ \/ worker[w].pc \in {"claim", "catch", "markEventFailed"} /\ Finish(w)
     \/ worker[w].pc \notin {"idle", "claim", "catch", "markEventFailed"} /\ Raise(w)
  /\ UNCHANGED <<tables, payment>>

\* The Node process dies and is restarted; open transactions roll back.
Crash ==
  /\ faults < MaxFaults
  /\ \E w \in Workers : ~At(w, "idle")
  /\ worker' = [w \in Workers |-> Idle]
  /\ faults' = faults + 1
  /\ UNCHANGED <<tables, payment>>

-----------------------------------------------------------------------------
\* A step of a request that is already in flight.
Step(w) ==
  \/ UpdateOrderProcessing(w)
  \/ \E p \in Payments : CallProvider(w, p)
  \/ ProviderCallFails(w)
  \/ PersistProviderPayment(w) \/ AttachProviderPaymentToOrder(w)
  \/ MarkAttemptFailed(w)
  \/ ReadOrderStatus(w) \/ WriteOrderStatus(w)
  \/ LoadAttempt(w) \/ FindTransaction(w) \/ MarkAttemptSucceeded(w)
  \/ BeginConfirmation(w) \/ CommitConfirmation(w)
  \/ CreateSuccessfulTransaction(w) \/ StoreMac(w)
  \/ StoreReceipt(w) \/ SigningFails(w)
  \/ FindOrderOfFailedPayment(w) \/ MarkEvent(w)

Next ==
  \/ \E w \in Workers :
       \/ \E o \in Orders, k \in Keys, pr \in Providers : ClaimPaymentAttempt(w, o, k, pr)
       \/ \E p \in Payments : ReceiveEvent(w, p) \/ SyncPayment(w, p)
       \/ Step(w)
       \/ StatementFails(w)
  \/ \E p \in Payments : ProviderSettles(p)
  \/ Crash

Spec == Init /\ [][Next]_vars

-----------------------------------------------------------------------------
(* Safety *)

Stripe(p) == payment[p].provider = "stripe"
Captured(p) == payment[p].state = "succeeded"
Recorded(p) == tx[p] # NoTx
Sealed(p) == Recorded(p) /\ tx[p].mac /\ tx[p].receipt

\* No order is paid unless the provider captured a payment made for that very
\* order: createPaymentIntent, the webhook and sync all reach "paid" through
\* confirmPayment, from snapshots that may be out of date.
PaidIsCaptured ==
  \A o \in Orders : order[o].status = "paid" =>
    \E p \in Payments : Captured(p) /\ payment[p].order = o

\* An order is payment_failed only if a payment made for it was declined:
\* a lost answer, a crash or a refused retry never fails the order.
FailedIsDeclined ==
  \A o \in Orders : order[o].status = "payment_failed" =>
    \E p \in Payments : payment[p].state = "failed" /\ payment[p].order = o

\* A transaction of a Stripe payment stands for captured money, whichever
\* requests raced to record it.
RecordedIsCaptured ==
  \A p \in Payments : Recorded(p) /\ Stripe(p) => Captured(p)

\* A transaction is booked to the order its payment was made for, also when
\* one idempotency key was sent for two orders, and when sync has no metadata
\* to reconcile.
RecordedForItsOrder ==
  \A p \in Payments : Recorded(p) => tx[p].order = payment[p].order

\* Once the ledger answers an event as a duplicate, Stripe stops redelivering
\* it: by then its payment has a transaction, with MAC and receipt.
ProcessedIsSealed ==
  \A p \in Payments : event[p] = "processed" /\ Captured(p) => Sealed(p)

\* confirmPayment commits "paid" before it inserts the transaction.  With
\* Stripe, a paid order without one can always be repaired: the event of a
\* payment captured for it is still to be redelivered, and the delivery will
\* find the attempt of the payment.
PaidIsRecordedOrRepairable ==
  \A o \in Orders : order[o].status = "paid" =>
    \E p \in Payments :
      /\ Captured(p) /\ payment[p].order = o
      /\ \/ tx[p].order = o
         \/ ~Duplicate(p) /\ \E k \in Keys : attempt[k].payment = p

\* A transaction is never deleted, never moves to another order and never
\* loses its MAC or receipt, however many confirmations of it overlap.
RecordsAreKept ==
  [][\A p \in Payments : Recorded(p) =>
       /\ tx'[p].order = tx[p].order
       /\ tx[p].mac => tx'[p].mac
       /\ tx[p].receipt => tx'[p].receipt]_vars

\* reconciliationService's mismatch "successful_transaction_order_not_paid_or_
\* refunded" does not arise as long as requests do not overlap, whatever crashes
\* and fails in between: the order is paid before its transaction is inserted,
\* and nothing moves it away again.
RecordedOrderIsPaid ==
  \A p \in Payments : Recorded(p) => order[tx[p].order].status \in {"paid", "refunded"}

-----------------------------------------------------------------------------
(* What the repository says of the program, refuted by runs that expect it *)

\* The state machine lets a paid order go nowhere but to "refunded".  Refuted
\* when two requests overlap; the run "serial" shows it holds when none do.
PaidStaysPaid ==
  [][\A o \in Orders : order[o].status = "paid" => order'[o].status \in {"paid", "refunded"}]_vars

\* At most one successful transaction per order.
NoDoublePayment ==
  \A p, q \in Payments : Recorded(p) /\ Recorded(q) /\ tx[p].order = tx[q].order => p = q

\* Success is recorded only for a payment the provider says has succeeded.
RecordedOnlyOnSuccess == \A p \in Payments : Recorded(p) => Captured(p)

-----------------------------------------------------------------------------
(* Liveness *)

\* Every request in flight goes on; Stripe redelivers an event until it is
\* answered 2xx, and Node has room for it again and again; the Security Service
\* is not down for ever.
Fairness ==
  /\ \A w \in Workers : WF_vars(Step(w))
  /\ \A p \in Payments : SF_vars(\E w \in Workers : ReceiveEvent(w, p))
  /\ SF_vars(\E w \in Workers : StoreReceipt(w))

FairSpec == Spec /\ Fairness

\* Captured money whose payment id reached the attempt is recorded in the end,
\* with its receipt, and its event acknowledged, across crashes, signing
\* failures and overlapping deliveries.
CapturedIsRecorded ==
  \A p \in Payments :
    (Stripe(p) /\ Captured(p) /\ \E k \in Keys : attempt[k].payment = p)
      ~> (Sealed(p) /\ Duplicate(p))

\* A client whose request got no answer, or an error, sends it again under the
\* same key as long as the order takes payments, and the provider answers in
\* the end.
ClientRetries ==
  /\ \A k \in Keys : SF_vars(\E w \in Workers, o \in Orders, pr \in Providers :
       attempt[k] # NoAttempt /\ ClaimPaymentAttempt(w, o, k, pr))
  /\ SF_vars(\E w \in Workers, p \in Payments : CallProvider(w, p))

\* If clients retry, that covers every captured payment: also one whose id was
\* lost with the provider's answer or in a crash, and whose event was refused
\* with 404 until the retry brought the id back.
ChargedIsRecorded ==
  ClientRetries =>
    \A p \in Payments : (Stripe(p) /\ Captured(p)) ~> (Sealed(p) /\ Duplicate(p))
=============================================================================
