-------------------------- MODULE RefundInvariants --------------------------
(***************************************************************************)
(* The inductive invariant of RefundFlow.  It says which rows a request in *)
(* flight may rely on: a refund that is processing at the provider has one *)
(* worker that awaits it, and none but that worker books it.               *)
(***************************************************************************)
EXTENDS RefundRefinement

\* The stages in which a worker has its own row of refunds.
Holding == {"call", "await", "persist", "commit"}

\* What the local variables of a worker hold: an approval refunds under the id
\* of its request, a direct refund under a key of the client.
LocalsOK(w) ==
  LET r == worker[w].request
      k == worker[w].key
      t == worker[w].tx
  IN /\ At(w, "idle") => r = None /\ k = None
     /\ worker[w].pc \in RequestPc => r \in Requests /\ k = None /\ worker[w].order \in Orders
     /\ At(w, "insertRequest") => t \in Txs
     /\ worker[w].pc \in RefundPc =>
          /\ t \in Txs
          /\ \/ r = None /\ k \in AdminKeys
             \/ r \in Requests /\ k = r
     /\ At(w, "catch") => r \in Requests

\* A request being created has no row yet; one being refunded has been claimed,
\* for the transaction the worker refunds, and before the INSERT no refund was
\* made for it.
WorkerOwnsRequest(w) ==
  LET r == worker[w].request
  IN r \in Requests =>
       /\ worker[w].pc \in RequestPc => request[r] = NoRequest
       /\ worker[w].pc \in RefundPc \cup {"catch"} => request[r].status = "approved_processing"
       /\ worker[w].pc \in RefundPc => request[r].tx = worker[w].tx
       /\ worker[w].pc \in {"existing", "load", "insertRefund"} => refund[r].request # r

\* The row of refunds and the provider's call, stage by stage.
WorkerOwnsRefund(w) ==
  LET k == worker[w].key
      t == worker[w].tx
  IN /\ worker[w].pc \in Holding =>
          refund[k].tx = t /\ refund[k].request = worker[w].request
     /\ At(w, "call") => refund[k].status = "processing" /\ provider[k] = "none"
     /\ At(w, "await") => refund[k].status = "processing" /\ provider[k] # "none"
     /\ worker[w].pc \in {"persist", "commit"} =>
          refund[k].status = "succeeded" /\ worker[w].answer = "succeeded"

\* What an approval has been answered, which may be what a direct refund under
\* the same key had come to when its row was read.
AnswerOK(w) ==
  LET r == worker[w].request
  IN At(w, "result") /\ r \in Requests /\ worker[w].answer = "succeeded" =>
       refund[r].status = "succeeded" /\ PaidBackFor(r)

\* No two workers act on one request or hold one refund.
OneWorkerEach ==
  \A v, w \in Workers : v # w =>
    /\ worker[v].request = worker[w].request => worker[v].request = None
    /\ worker[v].key = worker[w].key =>
         ~(worker[v].pc \in Holding /\ worker[w].pc \in Holding)

\* What a row of refunds says of the provider's call.
RefundRowOK(k) ==
  /\ refund[k].status = "none" => refund[k] = NoRefund /\ provider[k] = "none"
  /\ refund[k].status # "none" => refund[k].tx \in Txs
  /\ refund[k].request \in {None, k}
  /\ refund[k].status = "pending" => provider[k] \in {"pending", "succeeded", "failed"}
  /\ refund[k].status = "succeeded" => provider[k] = "succeeded"

\* The partial unique index on the transaction of an active refund.
OneActiveRefund ==
  \A j, k \in Keys :
    ActiveRefund(j) /\ ActiveRefund(k) /\ refund[j].tx = refund[k].tx => j = k

\* A request stands for a transaction; before the claim no refund is made for it,
\* and when it has succeeded there is one that was paid back.
RequestRowOK(r) ==
  /\ request[r].status = "none" => request[r] = NoRequest
  /\ request[r].status # "none" => request[r].tx \in Txs
  /\ request[r].status \in {"none", "pending_review", "cancelled", "rejected"} =>
       refund[r].request # r
  /\ request[r].status = "succeeded" => refund[r].status = "succeeded" /\ PaidBackFor(r)

RefundedTxOK(t) ==
  tx[t].status = "refunded" => \E k \in Keys : refund[k].tx = t /\ refund[k].status = "succeeded"

OrderOK(o) ==
  /\ order[o] = "paid" => \E t \in Txs : tx[t].order = o /\ tx[t].status = "success"
  /\ order[o] = "refunded" => \E t \in Txs : tx[t].order = o /\ tx[t].status = "refunded"

AuditOK(r) ==
  "provider_refund_succeeded" \in audit[r] =>
    request[r].tx \in Txs /\ refund[r].status = "succeeded" /\ PaidBackFor(r)

\* The inductive invariant: with the type, what a worker, a refund, a request,
\* a transaction, an order and the audit log say of one another.
IInv ==
  /\ TypeOK
  /\ \A w \in Workers : /\ LocalsOK(w) /\ WorkerOwnsRequest(w)
                          /\ WorkerOwnsRefund(w) /\ AnswerOK(w)
  /\ OneWorkerEach
  /\ \A k \in Keys : RefundRowOK(k)
  /\ OneActiveRefund
  /\ \A r \in Requests : RequestRowOK(r) /\ AuditOK(r)
  /\ \A t \in Txs : RefundedTxOK(t)
  /\ \A o \in Orders : OrderOK(o)
=============================================================================
