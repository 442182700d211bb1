----------------------------- MODULE RefundFlow -----------------------------
(***************************************************************************)
(* How a paid order is refunded: the customer's refund request, its review *)
(* by an admin, the admin's direct refund, and refundTransaction under     *)
(* both (src/src/refunds, the second half of src/src/payments/             *)
(* paymentService.js).                                                     *)
(*                                                                         *)
(* As in PaymentFlow, a worker is a request in flight in the Node process  *)
(* and a step is one statement or one transaction.  A refund call that has *)
(* been sent runs on at the provider whatever becomes of the worker.       *)
(*                                                                         *)
(* All requests come from one customer and all refunds from one admin: the *)
(* unique keys of the tables are per user.  Of an amount the model keeps   *)
(* whether it is the whole price.                                          *)
(***************************************************************************)
EXTENDS Naturals, OrderStateMachine

CONSTANTS
  Orders,      \* orders with at least one successful transaction
  Txs,         \* transactions, numbers in the order of created_at
  Requests,    \* ids of refund_requests rows
  AdminKeys,   \* idempotency keys of direct refunds: any string, also a request's id
  Providers,   \* the providers in use, among "stripe" and "mock_bank"
  Workers,     \* requests that can be in flight at once
  MaxFaults,   \* bound: crashes, failed statements and overwritten orders
  None         \* a null column, or a local variable not yet set

\* An approved request is refunded under its own id as idempotency key.  Nothing
\* keeps a direct refund from using the same one.
Keys == Requests \cup AdminKeys

ASSUME RefundAssumption ==
  /\ Txs \subseteq Nat
  /\ Providers \subseteq {"stripe", "mock_bank"}
  /\ None \notin Keys \cup Txs \cup Orders

VARIABLES
  order,     \* table orders: the status
  tx,        \* table transactions: order, provider, status
  refund,    \* table refunds, by idempotency key
  request,   \* table refund_requests, by id
  provider,  \* what became of the provider call made for each refund
  audit,     \* the audit events that name the outcome of each request
  worker,    \* the requests in flight
  faults     \* crashes, failed statements and overwritten orders so far

tables == <<order, tx, refund, request>>
vars == <<order, tx, refund, request, provider, audit, worker, faults>>

-----------------------------------------------------------------------------
(* Rows and local variables *)

TxRow == [order : Orders, provider : Providers, status : {"success", "refunded"}]

Amount == {"part", "full"}

RefundStatus == {"none", "processing", "pending", "succeeded", "failed"}

\* The request a refund is made for, None for a direct one, is no column: it goes
\* to the provider with the call, as metadata.
RefundRow == [tx : Txs \cup {None}, amount : Amount, status : RefundStatus,
              request : Requests \cup {None}]
NoRefund == [tx |-> None, amount |-> "full", status |-> "none", request |-> None]

Settled == {"cancelled", "rejected", "succeeded", "provider_failed"}
RequestStatus == {"none", "pending_review", "approved_processing"} \cup Settled
RequestRow == [order : Orders \cup {None}, tx : Txs \cup {None}, status : RequestStatus]
NoRequest == [order |-> None, tx |-> None, status |-> "none"]

\* "open": sent and not decided; "refused": the call threw.
CallState == {"none", "open", "refused", "pending", "succeeded", "failed"}

\* Of the events the handlers log, those that name the outcome of a request.
Events == {"provider_refund_succeeded", "provider_refund_failed"}

RequestPc == {"findTx", "insertRequest"}
RefundPc  == {"existing", "load", "insertRefund", "call", "await", "persist", "commit", "result"}

WorkerState == [pc : {"idle", "catch"} \cup RequestPc \cup RefundPc,
                request : Requests \cup {None}, key : Keys \cup {None},
                order : Orders \cup {None}, tx : Txs \cup {None}, amount : Amount,
                answer : RefundStatus]

Idle == [pc |-> "idle", request |-> None, key |-> None, order |-> None, tx |-> None,
         amount |-> "full", answer |-> "none"]

TypeOK ==
  /\ order \in [Orders -> {"paid", "refunded", "payment_failed"}]
  /\ tx \in [Txs -> TxRow]
  /\ refund \in [Keys -> RefundRow]
  /\ request \in [Requests -> RequestRow]
  /\ provider \in [Keys -> CallState]
  /\ audit \in [Requests -> SUBSET Events]
  /\ worker \in [Workers -> WorkerState]
  /\ faults \in Nat

\* Every order has been paid, perhaps more than once.
Init ==
  /\ order = [o \in Orders |-> "paid"]
  /\ tx \in [Txs -> {r \in TxRow : r.status = "success"}]
  /\ \A o \in Orders : \E t \in Txs : tx[t].order = o
  /\ refund = [k \in Keys |-> NoRefund]
  /\ request = [r \in Requests |-> NoRequest]
  /\ provider = [k \in Keys |-> "none"]
  /\ audit = [r \in Requests |-> {}]
  /\ worker = [w \in Workers |-> Idle]
  /\ faults = 0

At(w, pc) == worker[w].pc = pc
Goto(w, pc) == worker' = [worker EXCEPT ![w].pc = pc]
Finish(w) == worker' = [worker EXCEPT ![w] = Idle]
Unused(r) == \A w \in Workers : worker[w].request # r

\* auditService.log swallows every error of its own: the event is written, or
\* it is lost and nobody told.
Log(r, event) ==
  \/ audit' = [audit EXCEPT ![r] = @ \cup {event}] /\ UNCHANGED faults
  \/ UNCHANGED audit /\ faults < MaxFaults /\ faults' = faults + 1

\* An exception leaves refundTransaction: approveRefundRequest catches it, the
\* direct refund answers with the error.
Raise(w) == IF worker[w].request \in Requests THEN Goto(w, "catch") ELSE Finish(w)

-----------------------------------------------------------------------------
(* createRefundRequest *)

StartRequest(w, r, o) ==
  /\ At(w, "idle")
  /\ request[r] = NoRequest /\ Unused(r)
  /\ order[o] = "paid"
  /\ worker' = [worker EXCEPT ![w] = [Idle EXCEPT !.pc = "findTx", !.request = r, !.order = o]]
  /\ UNCHANGED <<tables, provider, audit, faults>>

\* The latest successful transaction of the order.
Refundable(o) == {t \in Txs : tx[t].order = o /\ tx[t].status = "success"}

FindSuccessfulTransaction(w) ==
  LET found == Refundable(worker[w].order)
  IN /\ At(w, "findTx")
     /\ \/ \E t \in found :
             /\ \A u \in found : u <= t
             /\ worker' = [worker EXCEPT ![w].pc = "insertRequest", ![w].tx = t]
        \/ found = {} /\ Finish(w)
     /\ UNCHANGED <<tables, provider, audit, faults>>

ActiveRequest(o) ==
  \E r \in Requests : /\ request[r].order = o
                      /\ request[r].status \in {"pending_review", "approved_processing"}

\* The INSERT, which the partial unique index refuses while another request of
\* the order is active; the order is not looked at again.
InsertRequest(w) ==
  LET r == worker[w].request
      o == worker[w].order
  IN /\ At(w, "insertRequest")
     /\ \/ /\ ~ActiveRequest(o)
           /\ request' = [request EXCEPT ![r] =
                [order |-> o, tx |-> worker[w].tx, status |-> "pending_review"]]
        \/ ActiveRequest(o) /\ UNCHANGED request
     /\ Finish(w)
     /\ UNCHANGED <<order, tx, refund, provider, audit, faults>>

-----------------------------------------------------------------------------
(* Cancel, reject, approve: each UPDATE asks for pending_review *)

\* Mutant: the WHERE clause names the id alone.
ReviewableWhenever(r) == request[r] # NoRequest

Reviewable(r) == request[r].status = "pending_review"

Decide(r, status) == request' = [request EXCEPT ![r].status = status]

CancelRefundRequest(r) ==
  /\ Reviewable(r)
  /\ Decide(r, "cancelled")
  /\ UNCHANGED <<order, tx, refund, provider, audit, worker, faults>>

RejectRefundRequest(r) ==
  /\ Reviewable(r)
  /\ Decide(r, "rejected")
  /\ UNCHANGED <<order, tx, refund, provider, audit, worker, faults>>

\* approveRefundRequest claims the request, then calls refundTransaction.
ClaimRequest(w, r) ==
  /\ At(w, "idle")
  /\ Reviewable(r)
  /\ Decide(r, "approved_processing")
  /\ worker' = [worker EXCEPT ![w] =
       [Idle EXCEPT !.pc = "existing", !.request = r, !.key = r, !.tx = request[r].tx]]
  /\ UNCHANGED <<order, tx, refund, provider, audit, faults>>

\* An approval that comes too late is answered 409, and the handler logs it as
\* a failure of the provider.
BlockApproval(r) ==
  /\ request[r] # NoRequest /\ ~Reviewable(r)
  /\ Log(r, "provider_refund_failed")
  /\ UNCHANGED <<tables, provider, worker>>

\* refundPayment: the admin refunds a transaction under a key of the client.  The
\* id of a request can be known once its row is there.
StartDirectRefund(w, k, t, a) ==
  /\ At(w, "idle")
  /\ k \in Requests => request[k] # NoRequest
  /\ worker' = [worker EXCEPT ![w] =
       [Idle EXCEPT !.pc = "existing", !.key = k, !.tx = t, !.amount = a]]
  /\ UNCHANGED <<tables, provider, audit, faults>>

-----------------------------------------------------------------------------
(* refundTransaction *)

\* A refund there is under the key is the result, whatever has become of it and
\* whatever it was made for; but not one of another transaction.
GetExistingRefund(w) ==
  LET found == refund[worker[w].key]
  IN /\ At(w, "existing")
     /\ \/ found = NoRefund /\ Goto(w, "load")
        \/ /\ found.tx = worker[w].tx
           /\ worker' = [worker EXCEPT ![w].pc = "result", ![w].answer = found.status]
        \/ found # NoRefund /\ found.tx # worker[w].tx /\ Raise(w)
     /\ UNCHANGED <<tables, provider, audit, faults>>

LoadRefundableTransaction(w) ==
  /\ At(w, "load")
  /\ IF tx[worker[w].tx].status = "success" THEN Goto(w, "insertRefund") ELSE Raise(w)
  /\ UNCHANGED <<tables, provider, audit, faults>>

\* Mutant: a refund the provider holds as pending does not count as active.
ActiveOnceDone(k) == refund[k].status \in {"processing", "succeeded"}

\* The statuses of the SELECT, and of the partial unique index.
ActiveRefund(k) == refund[k].status \in {"processing", "pending", "succeeded"}

\* The SELECT of an active refund and the INSERT, which both unique indexes
\* guard once more.
InsertRefund(w) ==
  LET k == worker[w].key
      t == worker[w].tx
  IN /\ At(w, "insertRefund")
     /\ IF refund[k] # NoRefund \/ \E j \in Keys : refund[j].tx = t /\ ActiveRefund(j)
        THEN Raise(w) /\ UNCHANGED refund
        ELSE /\ refund' = [refund EXCEPT ![k] =
                  [tx |-> t, amount |-> worker[w].amount, status |-> "processing",
                   request |-> worker[w].request]]
             /\ Goto(w, "call")
     /\ UNCHANGED <<order, tx, request, provider, audit, faults>>

\* MockBank answers at once, with the outcome the caller asked for.
MockAnswers == {"pending", "succeeded", "failed"}

\* providerModule.refundPayment is called.  Stripe gets no idempotency key.
SendRefund(w) ==
  LET k == worker[w].key
  IN /\ At(w, "call")
     /\ \/ /\ tx[worker[w].tx].provider = "stripe"
           /\ provider' = [provider EXCEPT ![k] = "open"]
        \/ /\ tx[worker[w].tx].provider = "mock_bank"
           /\ \E s \in MockAnswers : provider' = [provider EXCEPT ![k] = s]
     /\ Goto(w, "await")
     /\ UNCHANGED <<tables, audit, faults>>

\* Mutant: every answer but a failure counts as success.
BooksUnlessFailed(w) == IF provider[worker[w].key] = "failed" THEN "failed" ELSE "succeeded"

\* nextStatus.
NextStatus(w) == provider[worker[w].key]

\* The provider has answered, and the UPDATE of refunds says what.
RecordAnswer(w) ==
  LET k == worker[w].key
  IN /\ At(w, "await")
     /\ provider[k] \in {"pending", "succeeded", "failed"}
     /\ refund' = [refund EXCEPT ![k].status = NextStatus(w)]
     /\ worker' = [worker EXCEPT
          ![w].pc = IF NextStatus(w) = "succeeded" THEN "persist" ELSE "result",
          ![w].answer = NextStatus(w)]
     /\ UNCHANGED <<order, tx, request, provider, audit, faults>>

\* Mutant: the call is awaited without a limit of time.
AwaitsForEver(w) == provider[worker[w].key] = "refused"

\* refundWithTimeout rejects: the provider threw, or Stripe has not answered in
\* time, or its answer got lost.
CallRejected(w) ==
  \/ provider[worker[w].key] = "refused"
  \/ tx[worker[w].tx].provider = "stripe"

RefundCallFails(w) ==
  /\ At(w, "await")
  /\ CallRejected(w)
  /\ refund' = [refund EXCEPT ![worker[w].key].status = "failed"]
  /\ Raise(w)
  /\ UNCHANGED <<order, tx, request, provider, audit, faults>>

\* persistSuccessfulRefund goes on unless the transaction is not "success" any
\* more or the order cannot move to "refunded".
CanPersist(w) ==
  /\ tx[worker[w].tx].status = "success"
  /\ CanTransition(order[tx[worker[w].tx].order], "refunded")

\* BEGIN, the UPDATE of the transaction, and the SELECT of updateOrderStatus.
CheckPersist(w) ==
  /\ At(w, "persist")
  /\ IF CanPersist(w) THEN Goto(w, "commit") ELSE Raise(w)
  /\ UNCHANGED <<tables, provider, audit, faults>>

\* Mutant: the UPDATE of the transaction is left out.
LeavesTransaction(t) == tx

BookRefunded(t) == [tx EXCEPT ![t].status = "refunded"]

\* The UPDATE of the order, by id alone, and the COMMIT, which shows both.
PersistSuccessfulRefund(w) ==
  LET t == worker[w].tx
  IN /\ At(w, "commit")
     /\ tx' = BookRefunded(t)
     /\ order' = [order EXCEPT ![tx[t].order] = "refunded"]
     /\ Goto(w, "result")
     /\ UNCHANGED <<refund, request, provider, audit, faults>>

-----------------------------------------------------------------------------
(* The end of approveRefundRequest, of refundPayment, and of their handlers *)

\* Mutant: a request is settled as soon as the provider has not refused it.
SettlesPending(answer) == IF answer = "failed" THEN "provider_failed" ELSE "succeeded"

\* requestStatus.
StatusOfRequest(answer) ==
  CASE answer = "succeeded" -> "succeeded"
    [] answer = "pending"   -> "approved_processing"
    [] OTHER                -> "provider_failed"

\* The event of approveRefundRequest's handler; the "refund_approved" before it
\* names no outcome.
LogOutcome(r, answer) ==
  IF answer = "pending" THEN UNCHANGED <<audit, faults>>
  ELSE Log(r, IF answer = "succeeded" THEN "provider_refund_succeeded"
                                      ELSE "provider_refund_failed")

\* The end of an approval; the one event of a direct refund names no request.
ReturnResult(w) ==
  LET r == worker[w].request
      answer == worker[w].answer
  IN /\ At(w, "result")
     /\ \/ r \in Requests /\ Decide(r, StatusOfRequest(answer)) /\ LogOutcome(r, answer)
        \/ r = None /\ UNCHANGED <<request, audit, faults>>
     /\ Finish(w)
     /\ UNCHANGED <<order, tx, refund, provider>>

\* The catch block, whatever the refund itself has come to.
CatchError(w) ==
  LET r == worker[w].request
  IN /\ At(w, "catch")
     /\ Decide(r, "provider_failed")
     /\ Log(r, "provider_refund_failed")
     /\ Finish(w)
     /\ UNCHANGED <<order, tx, refund, provider>>

-----------------------------------------------------------------------------
(* The environment *)

PaysBack(k) == provider[k] \in {"pending", "succeeded"}

\* Stripe never refunds more than was charged: a full refund stands alone.
StripeAccepts(k) ==
  \A j \in Keys \ {k} : refund[j].tx = refund[k].tx /\ PaysBack(j) =>
    refund[j].amount = "part" /\ refund[k].amount = "part"

\* Stripe decides on a call, and later on what it answered as pending.
StripeDecides(k) ==
  /\ provider[k] \in {"open", "pending"}
  /\ tx[refund[k].tx].provider = "stripe"
  /\ \/ provider[k] = "open" /\ StripeAccepts(k)
        /\ \E s \in {"pending", "succeeded", "failed"} : provider' = [provider EXCEPT ![k] = s]
     \/ provider[k] = "open" /\ provider' = [provider EXCEPT ![k] = "refused"]
     \/ provider[k] = "pending" /\ \E s \in {"succeeded", "failed"} :
          provider' = [provider EXCEPT ![k] = s]
  /\ UNCHANGED <<tables, audit, worker, faults>>

\* A statement fails, among them the UPDATE of refunds that was to follow the
\* provider's answer; the catch blocks swallow the failure of their own, and log
\* what they caught.
StatementFails(w) ==
  /\ faults < MaxFaults
  /\ faults' = faults + 1
  /\ \/ worker[w].pc \in RequestPc /\ Finish(w) /\ UNCHANGED audit
     \/ worker[w].pc \in RefundPc \ {"call"} /\ Raise(w) /\ UNCHANGED audit
     \/ /\ At(w, "catch") /\ Finish(w)
        /\ audit' = [audit EXCEPT ![worker[w].request] = @ \cup {"provider_refund_failed"}]
  /\ UNCHANGED <<tables, provider>>

Crash ==
  /\ faults < MaxFaults
  /\ \E w \in Workers : ~At(w, "idle")
  /\ worker' = [w \in Workers |-> Idle]
  /\ faults' = faults + 1
  /\ UNCHANGED <<tables, provider, audit>>

\* A payment request that read the order before it was paid overwrites it (see
\* PaymentFlow, WriteOrderStatus).
OrderOverwritten(o) ==
  /\ faults < MaxFaults
  /\ order[o] = "paid"
  /\ order' = [order EXCEPT ![o] = "payment_failed"]
  /\ faults' = faults + 1
  /\ UNCHANGED <<tx, refund, request, provider, audit, worker>>

-----------------------------------------------------------------------------
\* A step of a request that is already in flight.
Step(w) ==
  \/ FindSuccessfulTransaction(w) \/ InsertRequest(w)
  \/ GetExistingRefund(w) \/ LoadRefundableTransaction(w)
  \/ InsertRefund(w) \/ SendRefund(w)
  \/ RecordAnswer(w) \/ RefundCallFails(w)
  \/ CheckPersist(w) \/ PersistSuccessfulRefund(w) \/ ReturnResult(w) \/ CatchError(w)

Next ==
  \/ \E w \in Workers :
       \/ \E r \in Requests, o \in Orders : StartRequest(w, r, o)
       \/ \E r \in Requests : ClaimRequest(w, r)
       \/ \E k \in AdminKeys, t \in Txs, a \in Amount : StartDirectRefund(w, k, t, a)
       \/ Step(w)
       \/ StatementFails(w)
  \/ \E r \in Requests : CancelRefundRequest(r) \/ RejectRefundRequest(r) \/ BlockApproval(r)
  \/ \E k \in Keys : StripeDecides(k)
  \/ \E o \in Orders : OrderOverwritten(o)
  \/ Crash

Spec == Init /\ [][Next]_vars

-----------------------------------------------------------------------------
(* The report of reconciliationService *)

WithoutTransaction(o, status) == \A t \in Txs : ~(tx[t].order = o /\ tx[t].status = status)

\* "paid_order_without_successful_transaction"
PaidOrderWithoutTransaction ==
  {o \in Orders : order[o] = "paid" /\ WithoutTransaction(o, "success")}

\* "refunded_order_without_refunded_transaction"
RefundedOrderWithoutTransaction ==
  {o \in Orders : order[o] = "refunded" /\ WithoutTransaction(o, "refunded")}

-----------------------------------------------------------------------------
(* Safety *)

\* A transaction is booked as refunded only if the provider has paid a refund
\* of it back: no lost, late or pending answer books one.
RefundedIsPaidBack ==
  \A t \in Txs : tx[t].status = "refunded" =>
    \E k \in Keys : refund[k].tx = t /\ provider[k] = "succeeded"

\* The provider has paid back a refund of the request's transaction under the
\* request's id; if it is the refund of the approval, it is in the books as well.
\* A direct refund that got there first may have been paid and not booked.
PaidBackFor(r) ==
  /\ refund[r].tx = request[r].tx /\ provider[r] = "succeeded"
  /\ refund[r].request = r => tx[request[r].tx].status = "refunded"

\* A request that ends as succeeded has been paid back, and its transaction is
\* booked unless its approval was answered from a direct refund: across stale
\* reads, late answers, crashes and failures between the tables that say so.
SucceededIsPaidBack ==
  \A r \in Requests : request[r].status = "succeeded" => PaidBackFor(r)

\* Cancel, reject and approve race for one request: no refund is ever made for
\* one that was cancelled or rejected.
DeclinedIsNotPaidBack ==
  \A r \in Requests : request[r].status \in {"cancelled", "rejected"} =>
    \A k \in Keys : refund[k].request # r

\* The provider pays back two refunds of one transaction only if the answer to
\* one of them was lost or late, so that it is booked as failed.
SecondFollowsLostAnswer ==
  \A j, k \in Keys : j # k /\ refund[j].tx = refund[k].tx /\ PaysBack(j) /\ PaysBack(k) =>
    refund[j].status = "failed" \/ refund[k].status = "failed"

\* Refunds cause no mismatch in the report of reconciliationService, whichever
\* step of one fails, and in whatever order they overlap.
RefundsReconcile == PaidOrderWithoutTransaction = {} /\ RefundedOrderWithoutTransaction = {}

\* The audit log says "provider_refund_succeeded" only of a request that has been
\* paid back, and booked unless it was answered from a direct refund.
AuditedIsPaidBack ==
  \A r \in Requests : "provider_refund_succeeded" \in audit[r] => PaidBackFor(r)

\* What has been decided stays: a settled request, a refunded transaction, a
\* refund booked as succeeded or failed.
DecisionsStand ==
  [][/\ \A r \in Requests : request[r].status \in Settled => request'[r] = request[r]
     /\ \A t \in Txs : tx[t].status = "refunded" => tx'[t] = tx[t]
     /\ \A k \in Keys : refund[k].status \in {"succeeded", "failed"} => refund'[k] = refund[k]]_vars

\* What the repository says of refunds, refuted by a run that expects it: no
\* transaction is refunded twice.
NoDoubleRefund ==
  \A j, k \in Keys : refund[j].tx = refund[k].tx /\ PaysBack(j) /\ PaysBack(k) => j = k

-----------------------------------------------------------------------------
(* Liveness *)

\* Every request in flight goes on.  Nothing is assumed of the provider.
FairSpec == Spec /\ \A w \in Workers : WF_vars(Step(w))

\* An approved request does not hang on a silent provider: it is settled, unless
\* the provider answers that the refund is pending, or a fault interferes.
ApprovedIsSettled ==
  \A r \in Requests : request[r].status = "approved_processing" ~>
    request[r].status \in Settled \/ refund[r].status = "pending" \/ faults > 0
=============================================================================
