------------------------- MODULE PaymentInvariants -------------------------
(***************************************************************************)
(* The inductive invariants of PaymentFlow: what ties the tables, the      *)
(* provider and the local variables of the requests in flight together.    *)
(* PaymentFlowProofs and PaymentOrderProofs prove them; the run            *)
(* "providers" checks IInv.                                                *)
(***************************************************************************)
EXTENDS PaymentRefinement

Made(p) == payment[p].state # "none"

\* The provider has taken money, or declined, for order o.
PaidFor(o) == \E p \in Payments : Captured(p) /\ payment[p].order = o
DeclinedFor(o) == \E p \in Payments : payment[p].state = "failed" /\ payment[p].order = o

OrderInv ==
  \A o \in Orders :
    /\ order[o].status = "paid" => PaidFor(o)
    /\ order[o].status = "payment_failed" => DeclinedFor(o)
    /\ order[o].intent # None =>
         Made(order[o].intent) /\ payment[order[o].intent].order = o

AttemptInv ==
  \A k \in Keys :
    /\ attempt[k] # NoAttempt => attempt[k].order \in Orders /\ attempt[k].provider \in Providers
    /\ attempt[k].payment # None =>
         /\ Made(attempt[k].payment)
         /\ payment[attempt[k].payment].order = attempt[k].order

PaymentInv ==
  \A p \in Payments :
    /\ Made(p) =>
         /\ payment[p].order \in Orders /\ payment[p].key \in Keys
         /\ payment[p].provider \in Providers
         /\ payment[p].order = attempt[payment[p].key].order
         /\ payment[p].provider = attempt[payment[p].key].provider
    /\ ~Made(p) => payment[p] = NoPayment
    /\ payment[p].reply = "none" => ~Made(p)
    /\ payment[p].reply \in {"succeeded", "failed"} => payment[p].state = payment[p].reply

TxInv ==
  \A p \in Payments :
    Recorded(p) =>
      /\ tx[p].order \in Orders /\ tx[p].order = payment[p].order
      /\ Stripe(p) => Captured(p)

EventInv ==
  \A p \in Payments :
    /\ event[p] # "none" => HasEvent(p)
    /\ event[p] = "processed" /\ Captured(p) => Sealed(p)

\* What a request whose local variables are u has set by the time it reaches
\* each point.
CreateInv(u) ==
  /\ u.pc \in {"claim", "call", "persist", "attach", "markFailed", "catch"} => u.job = "create"
  /\ u.job = "create" => u.key \in Keys /\ attempt[u.key].order \in Orders
  /\ u.pc \in {"claim", "call", "persist", "attach"} =>
       /\ u.order \in Orders
       /\ attempt[u.key].order = u.order
  /\ u.pc \in {"persist", "attach", "markFailed", "readFailed", "writeFailed"} =>
       /\ u.payment \in Payments /\ Made(u.payment)
       /\ u.order \in Orders
       /\ payment[u.payment].order = u.order
  /\ u.pc \in {"markFailed", "readFailed", "writeFailed"} =>
       payment[u.payment].state = "failed"

ConfirmInv(u) ==
  /\ u.pc \in ConfirmPc =>
       /\ u.payment \in Payments /\ Made(u.payment)
       /\ Stripe(u.payment) => Captured(u.payment)
       /\ PaidFor(payment[u.payment].order)
  /\ u.pc \in ConfirmPc \ {"load"} =>
       /\ u.key \in Keys /\ u.order \in Orders
       /\ attempt[u.key].order = u.order /\ payment[u.payment].order = u.order
  /\ u.pc \in {"readPaid", "writePaid", "markSucceeded", "mac", "sign"} =>
       /\ Recorded(u.payment)
       /\ u.row.mac => tx[u.payment].mac
       /\ u.row.receipt => tx[u.payment].receipt
  /\ u.pc = "sign" => tx[u.payment].mac

WebhookInv(u) ==
  /\ u.pc \in WebhookPc => u.job = "webhook"
  /\ u.pc = "idle" <=> u.job = "none"
  /\ u.job = "webhook" => u.payment \in Payments /\ HasEvent(u.payment)
  /\ u.pc = "findOrder" => payment[u.payment].state = "failed"
  /\ u.pc = "markProcessed" /\ Captured(u.payment) => Sealed(u.payment)

WorkerInv(u) == CreateInv(u) /\ ConfirmInv(u) /\ WebhookInv(u)

\* Every table agrees with the provider, and every request in flight with the
\* tables: the strengthening that makes the safety invariants inductive.
IInv ==
  /\ TypeOK
  /\ OrderInv /\ AttemptInv /\ PaymentInv /\ TxInv /\ EventInv
  /\ \A w \in Workers : WorkerInv(worker[w])

-----------------------------------------------------------------------------
(* Stripe only: what makes a half-recorded payment repairable *)

\* What is lost is found again by its key: Stripe makes one payment per key, an
\* attempt refers to the payment of its own key, and a request knows which
\* payment the attempt it works on refers to.
KeyInv ==
  /\ \A p, q \in Payments :
       Made(p) /\ Made(q) /\ payment[p].key = payment[q].key => p = q
  /\ \A k \in Keys : attempt[k].payment # None => payment[attempt[k].payment].key = k
  /\ \A w \in Workers :
       /\ At(w, "persist") => payment[worker[w].payment].key = worker[w].key
       /\ worker[w].pc \in ConfirmPc \ {"load"} =>
            attempt[worker[w].key].payment = worker[w].payment

\* A paid order has an attempt whose payment was captured.
PaidByAttempt ==
  \A o \in Orders : order[o].status = "paid" =>
    \E k \in Keys : /\ attempt[k].payment # None /\ Captured(attempt[k].payment)
                    /\ attempt[k].order = o

RepairInv == KeyInv /\ PaidByAttempt

-----------------------------------------------------------------------------
(* One request at a time: what confirmPayment read still holds when it writes *)

SettledOrder(o) == order[o].status \in {"paid", "refunded"}

SnapshotInv(u) ==
  /\ u.pc \in {"findTx", "txnRead", "txnCommit"} => order[u.order].status = u.seen
  /\ u.pc = "insertTx" => SettledOrder(u.order)
  /\ u.pc = "writeFailed" => ~SettledOrder(u.order)

SerialInv == RecordedOrderIsPaid /\ \A w \in Workers : SnapshotInv(worker[w])

-----------------------------------------------------------------------------
(* Any number of requests: what may take a paid order back *)

\* Paid, unless a payment made for the order was declined.
PaidButForDeclines(o) == SettledOrder(o) \/ DeclinedFor(o)

\* An order that a transaction is booked to, or that a request is about to book
\* one to without touching the order any more.
DeclineInv ==
  /\ \A p \in Payments : Recorded(p) => PaidButForDeclines(tx[p].order)
  /\ \A w \in Workers :
       \/ At(w, "insertTx")
       \/ worker[w].pc \in {"findTx", "txnRead", "txnCommit"} /\ worker[w].seen = "paid"
       => PaidButForDeclines(worker[w].order)
=============================================================================
