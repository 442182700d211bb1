------------------------- MODULE PaymentOrderProofs -------------------------
(***************************************************************************)
(* What an order's status is worth.  With Stripe alone, an order that is   *)
(* paid has its transaction or can still get it, whatever overlaps or      *)
(* fails.  As long as requests do not overlap, a paid order stays paid and *)
(* a transaction's order is paid, whatever fails; the run                  *)
(* "paid_overwritten" shows what overlapping requests do.  With both       *)
(* providers and with overlaps, only a declined payment takes a paid order *)
(* back, and a transaction without the provider's money needs one too (the *)
(* run "unpaid_recorded").                                                 *)
(***************************************************************************)
EXTENDS PaymentFlowProofs

LEMMA Ended ==
  ASSUME TypeOK, NEW w \in Workers, Finish(w) \/ Raise(w)
  PROVE  worker'[w].pc \in {"idle", "catch", "markEventFailed"}
BY DEF Finish, Raise, Goto, Idle, TypeOK, WorkerState

\* What confirmPayment has loaded when it goes on.
LEMMA Loaded ==
  ASSUME TypeOK, NEW w \in Workers, LoadAttempt(w), ~Raise(w)
  PROVE  \E k \in Keys :
           /\ At(w, "load") /\ attempt[k].payment = worker[w].payment
           /\ worker'[w].pc = "findTx" /\ worker'[w].key = k
           /\ worker'[w].payment = worker[w].payment
           /\ worker'[w].order = attempt[k].order
           /\ worker'[w].seen = order[attempt[k].order].status
<1>1. PICK k \in Keys :
        /\ At(w, "load") /\ attempt[k].payment = worker[w].payment
        /\ worker' = [worker EXCEPT
             ![w].pc = "findTx", ![w].key = k,
             ![w].order = attempt[k].order,
             ![w].seen = order[attempt[k].order].status]
  BY DEF LoadAttempt
<1>2. QED BY <1>1 DEF TypeOK, WorkerState

\* A request is at a point of its code because of the one step that leads there.
ArrivesBy(w) ==
  LET pc == worker'[w].pc
  IN /\ pc = "persist" => \E p \in Payments : CallProvider(w, p)
     /\ pc = "findTx" => LoadAttempt(w) /\ ~Raise(w)
     /\ pc \in {"txnRead", "readPaid"} => FindTransaction(w)
     /\ pc = "markSucceeded" => FindTransaction(w) \/ (WriteOrderStatus(w) /\ At(w, "writePaid"))
     /\ pc = "txnCommit" => BeginConfirmation(w) /\ Goto(w, pc)
     /\ pc = "insertTx" => CommitConfirmation(w)
     /\ pc = "writeFailed" => ReadOrderStatus(w) /\ At(w, "readFailed") /\ Goto(w, pc)
     /\ pc = "writePaid" => ReadOrderStatus(w) /\ At(w, "readPaid") /\ Goto(w, pc)
     /\ pc = "mac" => MarkAttemptSucceeded(w) \/ CreateSuccessfulTransaction(w)
     /\ pc = "sign" => StoreMac(w)

LEMMA Arrival ==
  ASSUME IInv, [Next]_vars, NEW w \in Workers, worker'[w] # worker[w]
  PROVE  ArrivesBy(w)
<1>0. TypeOK
  BY DEF IInv
<1>1. ASSUME worker'[w].pc \in {"idle", "catch", "markEventFailed", "claim", "call", "load",
                              "findOrder", "readFailed", "markFailed", "attach",
                              "markProcessed"}
      PROVE  ArrivesBy(w)
  BY <1>1 DEF ArrivesBy
<1>2. ASSUME Finish(w) \/ Raise(w)
      PROVE  ArrivesBy(w)
  BY <1>0, <1>1, <1>2, Ended
<1>3. ASSUME NEW pc \in {"claim", "call", "load", "findOrder", "readFailed", "markFailed",
                        "attach", "markProcessed"}, Goto(w, pc)
      PROVE  ArrivesBy(w)
  BY <1>0, <1>1, <1>3, GotoEffect
<1>4. CASE worker' = [v \in Workers |-> Idle]
  BY <1>1, <1>4 DEF Idle
<1>5. ASSUME NEW o \in Orders, NEW k \in Keys, NEW pr \in Providers,
             ClaimPaymentAttempt(w, o, k, pr)
      PROVE  ArrivesBy(w)
  <2>1. worker'[w].pc \in {"claim", "call"}
    BY <1>0, <1>5 DEF ClaimPaymentAttempt, Idle, TypeOK
  <2>2. QED BY <1>1, <2>1
<1>6. ASSUME NEW p \in Payments, ReceiveEvent(w, p) \/ SyncPayment(w, p)
      PROVE  ArrivesBy(w)
  <2>1. CASE ReceiveEvent(w, p)
    <3>1. worker'[w].pc \in {"load", "findOrder"}
      BY <1>0, <2>1 DEF ReceiveEvent, Idle, TypeOK
    <3>2. QED BY <1>1, <3>1
  <2>2. CASE SyncPayment(w, p)
    <3>1. worker'[w].pc = "load"
      BY <1>0, <2>2 DEF SyncPayment, Idle, TypeOK
    <3>2. QED BY <1>1, <3>1
  <2>3. QED BY <1>6, <2>1, <2>2
<1>7. CASE StatementFails(w)
  BY <1>2, <1>7 DEF StatementFails
<1>8. CASE \/ UpdateOrderProcessing(w) \/ ProviderCallFails(w) \/ PersistProviderPayment(w)
           \/ AttachProviderPaymentToOrder(w) \/ MarkAttemptFailed(w)
           \/ StoreReceipt(w) \/ SigningFails(w) \/ MarkEvent(w)
  BY <1>2, <1>3, <1>8
     DEF UpdateOrderProcessing, ProviderCallFails, PersistProviderPayment,
         AttachProviderPaymentToOrder, MarkAttemptFailed, StoreReceipt, Confirmed,
         SigningFails, MarkEvent
<1>9. ASSUME NEW p \in Payments, CallProvider(w, p)
      PROVE  ArrivesBy(w)
  <2>1. worker'[w].pc \in {"catch", "persist"}
    BY <1>0, <1>9 DEF CallProvider, TypeOK, WorkerState
  <2>2. QED BY <1>9, <2>1 DEF ArrivesBy
<1>10. CASE ReadOrderStatus(w)
  <2>1. ASSUME Goto(w, IF At(w, "readPaid") THEN "writePaid" ELSE "writeFailed")
        PROVE  ArrivesBy(w)
    BY <1>0, <1>10, <2>1, GotoEffect DEF ArrivesBy, ReadOrderStatus, At
  <2>2. QED BY <1>2, <1>10, <2>1 DEF ReadOrderStatus
<1>11. CASE WriteOrderStatus(w)
  <2>1. ASSUME At(w, "writePaid"), Goto(w, "markSucceeded")
        PROVE  ArrivesBy(w)
    BY <1>0, <1>11, <2>1, GotoEffect DEF ArrivesBy
  <2>2. QED BY <1>2, <1>3, <1>11, <2>1 DEF WriteOrderStatus
<1>12. CASE LoadAttempt(w) /\ ~Raise(w)
  <2>1. worker'[w].pc = "findTx"
    BY <1>0, <1>12, Loaded DEF TypeOK, WorkerState
  <2>2. QED BY <1>12, <2>1 DEF ArrivesBy
<1>13. CASE FindTransaction(w)
  <2>1. worker'[w].pc \in {"txnRead", "markSucceeded", "readPaid"}
    BY <1>0, <1>13 DEF FindTransaction, TypeOK, WorkerState
  <2>2. QED BY <1>13, <2>1 DEF ArrivesBy
<1>14. CASE MarkAttemptSucceeded(w)
  BY <1>0, <1>14, GotoEffect DEF ArrivesBy, MarkAttemptSucceeded
<1>15. CASE BeginConfirmation(w)
  <2>1. ASSUME Goto(w, "txnCommit") PROVE ArrivesBy(w)
    BY <1>0, <1>15, <2>1, GotoEffect DEF ArrivesBy
  <2>2. QED BY <1>2, <1>15, <2>1 DEF BeginConfirmation
<1>16. CASE CommitConfirmation(w)
  BY <1>0, <1>16, GotoEffect DEF ArrivesBy, CommitConfirmation
<1>17. CASE CreateSuccessfulTransaction(w)
  <2>1. worker'[w].pc = "mac"
    BY <1>0, <1>17 DEF CreateSuccessfulTransaction, TypeOK, WorkerState
  <2>2. QED BY <1>17, <2>1 DEF ArrivesBy
<1>18. CASE StoreMac(w)
  BY <1>0, <1>18, GotoEffect DEF ArrivesBy, StoreMac
<1>19. CASE FindOrderOfFailedPayment(w)
  <2>1. worker'[w].pc \in {"readFailed", "markProcessed"}
    BY <1>0, <1>19, GotoEffect DEF FindOrderOfFailedPayment, TypeOK, WorkerState
  <2>2. QED BY <1>1, <2>1
<1>20. LoadAttempt(w) => Raise(w) \/ ~Raise(w)
  OBVIOUS
<1>21. QED
  BY <1>0, <1>2, <1>4, <1>5, <1>6, <1>7, <1>8, <1>9, <1>10, <1>11, <1>12, <1>13, <1>14, <1>15,
     <1>16, <1>17, <1>18, <1>19, <1>20, WorkerChange DEF Step

-----------------------------------------------------------------------------
(* Stripe only *)

LEMMA OnePaymentPerKey ==
  ASSUME Providers = {"stripe"}, IInv, KeyInv, [Next]_vars
  PROVE  \A p, q \in Payments :
           payment'[p].state # "none" /\ payment'[q].state # "none"
             /\ payment'[p].key = payment'[q].key => p = q
<1>0. TypeOK /\ TypeOK' /\ Grows
  BY TypeStep, GrowsStep DEF IInv
<1>1. ASSUME NEW w \in Workers, NEW r \in Payments, At(w, "call"), ProviderCreates(w, r),
             ~Made(r), NEW p \in Payments, Made(p)
      PROVE  payment[p].key # worker[w].key
  <2>1. attempt[worker[w].key].provider = "stripe"
    BY <1>1, ProviderCreatesEffect
  <2>2. SamePayment(worker[w].key) = {}
    <3>1. SamePayment(worker[w].key) # {} => r \in SamePayment(worker[w].key)
      BY <1>1, <2>1 DEF ProviderCreates
    <3>2. payment[r].provider # "stripe"
      BY <1>1, ConstantsAssumption DEF IInv, PaymentInv, NoPayment
    <3>3. QED BY <3>1, <3>2 DEF SamePayment
  <2>3. payment[p].provider = "stripe"
    BY <1>1 DEF IInv, PaymentInv
  <2>4. QED BY <2>2, <2>3 DEF SamePayment
<1>2. ASSUME NEW p \in Payments, payment'[p].state # "none", ~Made(p)
      PROVE  \E w \in Workers :
               /\ At(w, "call") /\ ProviderCreates(w, p)
               /\ payment'[p].key = worker[w].key
               /\ \A q \in Payments \ {p} : payment'[q] = payment[q]
  <2>1. ~UNCHANGED payment
    BY <1>2 DEF Made
  <2>2. ~\E q \in Payments : ProviderSettles(q)
    BY <1>0, <1>2 DEF ProviderSettles, Made, TypeOK, PaymentRow
  <2>3. PICK w \in Workers, q \in Payments : At(w, "call") /\ ProviderCreates(w, q)
    BY <2>1, <2>2, PaymentChange
  <2>4. QED BY <1>0, <1>2, <2>1, <2>3, ProviderCreatesEffect DEF Made, TypeOK
<1>3. QED BY <1>0, <1>1, <1>2 DEF KeyInv, Grows, Made

\* An attempt is never taken to another payment.
LEMMA AttemptKeepsPayment ==
  ASSUME Providers = {"stripe"}, IInv, KeyInv, [Next]_vars,
         NEW k \in Keys, attempt[k].payment # None
  PROVE  attempt'[k].payment = attempt[k].payment /\ attempt'[k].order = attempt[k].order
<1>0. TypeOK /\ TypeOK' /\ Grows
  BY TypeStep, GrowsStep DEF IInv
<1>1. attempt[k] # NoAttempt /\ attempt[k].order \in Orders
  BY DEF IInv, AttemptInv, NoAttempt
<1>2. attempt'[k].order = attempt[k].order
  BY <1>0, <1>1 DEF Grows
<1>3. ASSUME NEW w \in Workers, NEW o \in Orders, NEW l \in Keys, NEW pr \in Providers,
             ClaimPaymentAttempt(w, o, l, pr)
      PROVE  attempt'[k] = attempt[k]
  BY <1>0, <1>1, <1>3 DEF ClaimPaymentAttempt, TypeOK
<1>4. ASSUME NEW w \in Workers, PersistProviderPayment(w)
      PROVE  attempt'[k].payment = attempt[k].payment
  <2>1. /\ worker[w].payment \in Payments /\ Made(worker[w].payment)
        /\ payment[worker[w].payment].key = worker[w].key
    BY <1>4 DEF PersistProviderPayment, At, IInv, WorkerInv, CreateInv, KeyInv
  <2>2. /\ attempt[k].payment \in Payments /\ Made(attempt[k].payment)
        /\ payment[attempt[k].payment].key = k
    BY <1>0 DEF IInv, AttemptInv, KeyInv, TypeOK, AttemptRow
  <2>3. QED BY <1>0, <1>4, <2>1, <2>2 DEF PersistProviderPayment, TypeOK, AttemptRow, KeyInv
<1>5. ASSUME NEW w \in Workers, \/ MarkAttemptFailed(w) \/ MarkAttemptSucceeded(w)
                                \/ CommitConfirmation(w)
      PROVE  attempt'[k].payment = attempt[k].payment
  BY <1>0, <1>5 DEF MarkAttemptFailed, MarkAttemptSucceeded, CommitConfirmation, TypeOK,
                    AttemptRow
<1>6. QED BY <1>2, <1>3, <1>4, <1>5, AttemptChange

LEMMA KeyStep ==
  ASSUME Providers = {"stripe"}, IInv, KeyInv, [Next]_vars
  PROVE  KeyInv'
<1>0. TypeOK /\ TypeOK' /\ Grows
  BY TypeStep, GrowsStep DEF IInv
<1>1. ASSUME NEW k \in Keys, attempt'[k].payment # None
      PROVE  payment'[attempt'[k].payment].key = k
  <2>1. CASE attempt[k].payment # None
    BY <1>0, <2>1, AttemptKeepsPayment
       DEF IInv, AttemptInv, KeyInv, Grows, TypeOK, AttemptRow
  <2>2. CASE attempt[k].payment = None
    <3>1. ASSUME NEW w \in Workers, NEW o \in Orders, NEW l \in Keys, NEW pr \in Providers,
                 ClaimPaymentAttempt(w, o, l, pr)
          PROVE  FALSE
      <4>1. CASE attempt'[k] = attempt[k]
        BY <1>1, <2>2, <4>1
      <4>2. CASE attempt'[k].payment = None
        BY <1>1, <4>2
      <4>3. QED BY <1>0, <3>1, <4>1, <4>2 DEF ClaimPaymentAttempt, TypeOK, NoAttempt
    <3>2. ASSUME NEW w \in Workers, \/ MarkAttemptFailed(w) \/ MarkAttemptSucceeded(w)
                                    \/ CommitConfirmation(w)
          PROVE  FALSE
      <4>1. attempt'[k].payment = attempt[k].payment
        BY <1>0, <3>2 DEF MarkAttemptFailed, MarkAttemptSucceeded, CommitConfirmation,
                          TypeOK, AttemptRow
      <4>2. QED BY <1>1, <2>2, <4>1
    <3>3. PICK w \in Workers : PersistProviderPayment(w)
      BY <1>1, <2>2, <3>1, <3>2, AttemptChange
    <3>4. /\ worker[w].payment \in Payments /\ Made(worker[w].payment)
          /\ payment[worker[w].payment].key = worker[w].key
      BY <3>3 DEF PersistProviderPayment, At, IInv, WorkerInv, CreateInv, KeyInv
    <3>5. k = worker[w].key /\ attempt'[k].payment = worker[w].payment
      BY <1>0, <1>1, <2>2, <3>3 DEF PersistProviderPayment, TypeOK, AttemptRow
    <3>6. QED BY <1>0, <3>4, <3>5 DEF Grows
  <2>3. QED BY <2>1, <2>2
<1>2. ASSUME NEW w \in Workers, worker'[w].pc = "persist"
      PROVE  payment'[worker'[w].payment].key = worker'[w].key
  <2>1. CASE worker'[w] = worker[w]
    BY <1>0, <1>2, <2>1 DEF KeyInv, At, Grows, IInv, WorkerInv, CreateInv
  <2>2. CASE worker'[w] # worker[w]
    <3>1. PICK p \in Payments : CallProvider(w, p)
      BY <1>2, <2>2, Arrival DEF ArrivesBy
    <3>2. At(w, "call") /\ ProviderCreates(w, p)
      BY <3>1 DEF CallProvider
    <3>3. worker'[w].payment = p /\ worker'[w].key = worker[w].key
      BY <1>0, <3>1 DEF CallProvider, TypeOK, WorkerState
    <3>4. payment'[p].key = worker[w].key
      BY <1>0, <3>2, ProviderCreatesEffect DEF TypeOK
    <3>5. QED BY <3>3, <3>4
  <2>3. QED BY <2>1, <2>2
<1>3. ASSUME NEW w \in Workers, worker'[w].pc \in ConfirmPc \ {"load"}
      PROVE  attempt'[worker'[w].key].payment = worker'[w].payment
  <2>1. CASE /\ worker[w].pc \in ConfirmPc \ {"load"}
             /\ worker'[w].key = worker[w].key /\ worker'[w].payment = worker[w].payment
    <3>1. /\ worker[w].key \in Keys /\ worker[w].payment \in Payments
          /\ attempt[worker[w].key].payment = worker[w].payment
      BY <2>1 DEF IInv, WorkerInv, ConfirmInv, KeyInv
    <3>2. QED BY <2>1, <3>1, ConstantsAssumption, AttemptKeepsPayment
  <2>2. CASE \E k \in Keys : /\ worker'[w].key = k /\ worker'[w].payment = worker[w].payment
                             /\ attempt[k].payment = worker[w].payment
                             /\ worker[w].payment \in Payments
    BY <2>2, ConstantsAssumption, AttemptKeepsPayment
  <2>3. CASE worker'[w] = worker[w]
    BY <1>3, <2>1, <2>3
  <2>4. ASSUME LoadAttempt(w), ~Raise(w)
        PROVE  \E k \in Keys : /\ worker'[w].key = k /\ worker'[w].payment = worker[w].payment
                               /\ attempt[k].payment = worker[w].payment
                               /\ worker[w].payment \in Payments
    <3>1. worker[w].payment \in Payments
      BY <2>4 DEF LoadAttempt, At, IInv, WorkerInv, ConfirmInv, ConfirmPc
    <3>2. QED BY <1>0, <2>4, <3>1, Loaded DEF TypeOK, WorkerState
  <2> DEFINE GoesOn == /\ worker[w].pc \in ConfirmPc \ {"load"}
                       /\ worker'[w].key = worker[w].key /\ worker'[w].payment = worker[w].payment
  <2>5. ASSUME FindTransaction(w) \/ CreateSuccessfulTransaction(w)
        PROVE  GoesOn
    BY <1>0, <2>5 DEF FindTransaction, CreateSuccessfulTransaction, At, ConfirmPc, TypeOK, WorkerState
  <2>6. ASSUME \/ WriteOrderStatus(w) /\ At(w, "writePaid")
               \/ ReadOrderStatus(w) /\ At(w, "readPaid") /\ Goto(w, "writePaid")
               \/ BeginConfirmation(w) /\ Goto(w, "txnCommit")
               \/ CommitConfirmation(w) \/ MarkAttemptSucceeded(w) \/ StoreMac(w)
        PROVE  GoesOn
    <3>1. worker[w].pc \in ConfirmPc \ {"load"}
      BY <2>6 DEF WriteOrderStatus, BeginConfirmation, CommitConfirmation,
                  MarkAttemptSucceeded, StoreMac, At, ConfirmPc
    <3>2. \E pc : Goto(w, pc)
      BY <2>6 DEF WriteOrderStatus, CommitConfirmation, MarkAttemptSucceeded, StoreMac, At
    <3>3. QED BY <1>0, <3>1, <3>2, GotoEffect
  <2>7. CASE worker'[w] # worker[w]
    <3>1. \/ LoadAttempt(w) /\ ~Raise(w)
          \/ GoesOn
      BY <1>3, <2>5, <2>6, <2>7, Arrival DEF ArrivesBy, ConfirmPc
    <3>2. QED BY <2>1, <2>2, <2>4, <3>1
  <2>8. QED BY <2>3, <2>7
<1>4. QED BY <1>1, <1>2, <1>3, OnePaymentPerKey DEF KeyInv, Made, At

LEMMA PaidByAttemptStep ==
  ASSUME Providers = {"stripe"}, IInv, RepairInv, [Next]_vars
  PROVE  PaidByAttempt'
<1> SUFFICES ASSUME NEW o \in Orders, order'[o].status = "paid"
             PROVE  \E k \in Keys : /\ attempt'[k].payment # None
                                    /\ payment'[attempt'[k].payment].state = "succeeded"
                                    /\ attempt'[k].order = o
  BY DEF PaidByAttempt, Captured
<1>0. TypeOK /\ TypeOK' /\ Grows /\ KeyInv
  BY TypeStep, GrowsStep DEF IInv, RepairInv
<1>1. ASSUME NEW k \in Keys, attempt[k].payment # None, Captured(attempt[k].payment),
             attempt[k].order = o
      PROVE  \E l \in Keys : /\ attempt'[l].payment # None
                             /\ payment'[attempt'[l].payment].state = "succeeded"
                             /\ attempt'[l].order = o
  <2>1. attempt'[k].payment = attempt[k].payment /\ attempt'[k].order = o
    BY <1>0, <1>1, AttemptKeepsPayment
  <2>2. attempt[k].payment \in Payments /\ Made(attempt[k].payment)
    BY <1>0, <1>1 DEF TypeOK, AttemptRow, IInv, AttemptInv
  <2>3. payment'[attempt[k].payment].state = "succeeded"
    BY <1>0, <1>1, <2>2 DEF Grows, Captured
  <2>4. QED BY <1>1, <2>1, <2>3
<1>2. CASE order[o].status = "paid"
  BY <1>1, <1>2 DEF RepairInv, PaidByAttempt
<1>3. CASE order[o].status # "paid"
  <2>1. PICK w \in Workers :
          worker[w].pc \in {"writePaid", "txnCommit"} /\ worker[w].order = o
    <3>1. ASSUME NEW w \in Workers, SetOrder(w)
          PROVE  worker[w].order = o /\ Target(w) = "paid"
      BY <1>0, <1>3, <3>1 DEF SetOrder, TypeOK, OrderRow
    <3>2. ASSUME NEW w \in Workers, NEW q \in Orders, NEW k \in Keys, NEW pr \in Providers,
                 ClaimPaymentAttempt(w, q, k, pr)
          PROVE  FALSE
      BY <1>0, <1>3, <3>2 DEF ClaimPaymentAttempt, TypeOK, OrderRow
    <3>3. ASSUME NEW w \in Workers, AttachProviderPaymentToOrder(w) \/ UpdateOrderProcessing(w)
          PROVE  FALSE
      BY <1>0, <1>3, <3>3 DEF AttachProviderPaymentToOrder, UpdateOrderProcessing, TypeOK, OrderRow
    <3>4. ASSUME NEW w \in Workers, WriteOrderStatus(w) \/ CommitConfirmation(w)
          PROVE  worker[w].pc \in {"writePaid", "txnCommit"} /\ worker[w].order = o
      BY <1>3, <3>1, <3>4 DEF WriteOrderStatus, CommitConfirmation, At, Target
    <3>5. QED BY <1>3, <3>2, <3>3, <3>4, OrderChange
  <2> DEFINE p == worker[w].payment
             k == worker[w].key
  <2>2. /\ p \in Payments /\ k \in Keys /\ attempt[k].order = o
        /\ Stripe(p) => Captured(p)
        /\ Made(p)
    BY <2>1 DEF IInv, WorkerInv, ConfirmInv, ConfirmPc
  <2>3. Captured(p)
    BY <2>2 DEF IInv, PaymentInv, Stripe
  <2>4. attempt[k].payment = p
    BY <1>0, <2>1 DEF KeyInv, ConfirmPc
  <2>5. attempt[k].payment # None
    BY <2>2, <2>4, ConstantsAssumption
  <2>6. QED BY <1>1, <2>2, <2>3, <2>4, <2>5
<1>4. QED BY <1>2, <1>3

LEMMA InitRepair == Init => RepairInv
<1> SUFFICES ASSUME Init PROVE RepairInv
  OBVIOUS
<1>1. KeyInv
  BY DEF Init, KeyInv, Made, NoPayment, NoAttempt, At, Idle, ConfirmPc
<1>2. PaidByAttempt
  BY DEF Init, PaidByAttempt
<1>3. QED BY <1>1, <1>2 DEF RepairInv

\* With Stripe as the only provider, every paid order either has its transaction
\* or has a captured payment whose event is not acknowledged yet and whose
\* attempt a redelivery will find: no crash, lost answer or overlap of requests
\* leaves a paid order that the backend cannot record any more.
THEOREM PaidOrdersAreRepairable ==
  ASSUME Providers = {"stripe"}
  PROVE  Spec => []PaidIsRecordedOrRepairable
<1>1. IInv /\ RepairInv => PaidIsRecordedOrRepairable
  <2> SUFFICES ASSUME IInv, RepairInv, NEW o \in Orders, order[o].status = "paid"
               PROVE  \E p \in Payments :
                        /\ Captured(p) /\ payment[p].order = o
                        /\ \/ tx[p].order = o
                           \/ ~Duplicate(p) /\ \E k \in Keys : attempt[k].payment = p
    BY DEF PaidIsRecordedOrRepairable
  <2>1. PICK k \in Keys : /\ attempt[k].payment # None /\ Captured(attempt[k].payment)
                          /\ attempt[k].order = o
    BY DEF RepairInv, PaidByAttempt
  <2> DEFINE p == attempt[k].payment
  <2>2. p \in Payments /\ payment[p].order = o
    BY <2>1 DEF IInv, TypeOK, AttemptRow, AttemptInv
  <2>3. Duplicate(p) => tx[p].order = o
    BY <2>1, <2>2 DEF Duplicate, IInv, EventInv, TxInv, Sealed
  <2>4. QED BY <2>1, <2>2, <2>3
<1>2. IInv /\ RepairInv /\ [Next]_vars => RepairInv'
  BY KeyStep, PaidByAttemptStep DEF RepairInv
<1>3. QED BY InitRepair, Invariant, <1>1, <1>2, PTL DEF Spec

-----------------------------------------------------------------------------
(* One request at a time *)

OneRequest == \A v, w \in Workers : v = w

\* The points of a request's code between a read of its order and the write
\* that relies on it are not reached by a step that writes an order.
LEMMA WritesEndSnapshots ==
  ASSUME OneRequest, IInv, [Next]_vars, NEW w \in Workers
  PROVE  \/ UNCHANGED order
         \/ CommitConfirmation(w)
         \/ worker'[w].pc \notin {"findTx", "txnRead", "txnCommit", "insertTx", "writeFailed"}
<1>0. TypeOK
  BY DEF IInv
<1>1. ASSUME NEW o \in Orders, NEW k \in Keys, NEW pr \in Providers,
             ClaimPaymentAttempt(w, o, k, pr)
      PROVE  worker'[w].pc \in {"claim", "call"}
  BY <1>0, <1>1 DEF ClaimPaymentAttempt, Idle, TypeOK
<1>2. ASSUME AttachProviderPaymentToOrder(w)
      PROVE  worker'[w].pc \in {"load", "markFailed", "idle", "catch", "markEventFailed"}
  BY <1>0, <1>2, GotoEffect, Ended DEF AttachProviderPaymentToOrder
<1>3. ASSUME WriteOrderStatus(w)
      PROVE  worker'[w].pc \in {"markSucceeded", "markProcessed", "idle", "catch",
                                "markEventFailed"}
  BY <1>0, <1>3, GotoEffect, Ended DEF WriteOrderStatus
<1>4. ASSUME UpdateOrderProcessing(w)
      PROVE  worker'[w].pc \in {"call", "idle", "catch", "markEventFailed"}
  BY <1>0, <1>4, GotoEffect, Ended DEF UpdateOrderProcessing
<1>5. \/ UNCHANGED order
      \/ \E o \in Orders, k \in Keys, pr \in Providers : ClaimPaymentAttempt(w, o, k, pr)
      \/ AttachProviderPaymentToOrder(w) \/ WriteOrderStatus(w) \/ CommitConfirmation(w)
      \/ UpdateOrderProcessing(w)
  BY OrderChange DEF OneRequest
<1>6. QED BY <1>1, <1>2, <1>3, <1>4, <1>5

LEMMA SettledStays ==
  ASSUME OneRequest, IInv, SerialInv, [Next]_vars, NEW o \in Orders, SettledOrder(o)
  PROVE  order'[o].status \in {"paid", "refunded"}
<1>0. TypeOK
  BY DEF IInv
<1>1. ASSUME NEW w \in Workers, NEW q \in Orders, NEW k \in Keys, NEW pr \in Providers,
             ClaimPaymentAttempt(w, q, k, pr)
      PROVE  order'[o] = order[o]
  BY <1>0, <1>1 DEF ClaimPaymentAttempt, CanCreatePayment, SettledOrder, TypeOK
<1>2. ASSUME NEW w \in Workers, AttachProviderPaymentToOrder(w) \/ UpdateOrderProcessing(w)
      PROVE  order'[o].status = order[o].status
  BY <1>0, <1>2 DEF AttachProviderPaymentToOrder, UpdateOrderProcessing, CanCreatePayment,
                    SettledOrder, TypeOK, OrderRow
<1>3. ASSUME NEW w \in Workers, SetOrder(w), Target(w) = "paid" \/ worker[w].order # o
      PROVE  order'[o].status \in {"paid", order[o].status}
  BY <1>0, <1>3 DEF SetOrder, TypeOK, OrderRow
<1>4. ASSUME NEW w \in Workers, WriteOrderStatus(w) \/ CommitConfirmation(w)
      PROVE  order'[o].status \in {"paid", order[o].status}
  <2>1. CASE WriteOrderStatus(w) /\ At(w, "writeFailed")
    <3>1. worker[w].order # o
      BY <2>1 DEF SerialInv, SnapshotInv, At
    <3>2. QED BY <1>3, <2>1, <3>1 DEF WriteOrderStatus
  <2>2. CASE \/ WriteOrderStatus(w) /\ At(w, "writePaid")
             \/ CommitConfirmation(w)
    BY <1>3, <2>2 DEF WriteOrderStatus, CommitConfirmation, Target, At
  <2>3. QED BY <1>4, <2>1, <2>2 DEF WriteOrderStatus, At
<1>5. QED BY <1>1, <1>2, <1>4, OrderChange DEF SettledOrder

LEMMA SnapshotStep ==
  ASSUME OneRequest, IInv, SerialInv, [Next]_vars, NEW w \in Workers
  PROVE  SnapshotInv(worker[w])'
<1> DEFINE u == worker[w]
           v == worker'[w]
<1>0. TypeOK /\ TypeOK' /\ SnapshotInv(u)
  BY TypeStep DEF IInv, SerialInv
<1>1. ASSUME CommitConfirmation(w)
      PROVE  /\ v.pc = "insertTx"
             /\ order'[v.order].status \in {"paid", "refunded"}
  <2>1. v.pc = "insertTx" /\ v.order = u.order /\ u.order \in Orders
    BY <1>0, <1>1, GotoEffect DEF CommitConfirmation, At, IInv, WorkerInv, ConfirmInv, ConfirmPc
  <2>2. CASE u.seen = "paid"
    BY <1>0, <1>1, <2>1, <2>2 DEF CommitConfirmation, At, SnapshotInv
  <2>3. CASE u.seen # "paid"
    BY <1>0, <1>1, <2>1, <2>3 DEF CommitConfirmation, At, SetOrder, Target, TypeOK
  <2>4. QED BY <2>1, <2>2, <2>3
<1>2. CASE UNCHANGED order /\ ~CommitConfirmation(w) /\ v = u
  BY <1>0, <1>2 DEF SnapshotInv, SettledOrder
<1>3. CASE UNCHANGED order /\ ~CommitConfirmation(w) /\ v # u
  <2>1. ArrivesBy(w)
    BY <1>3, Arrival
  <2>2. v.pc = "findTx" => order'[v.order].status = v.seen
    BY <1>0, <1>3, <2>1, Loaded DEF ArrivesBy
  <2>3. v.pc = "txnRead" => order'[v.order].status = v.seen
    <3>1. ASSUME FindTransaction(w)
          PROVE  u.pc = "findTx" /\ v.order = u.order /\ v.seen = u.seen
      BY <1>0, <3>1 DEF FindTransaction, At, TypeOK, WorkerState
    <3>2. QED BY <1>0, <1>3, <2>1, <3>1 DEF ArrivesBy, SnapshotInv
  <2>4. v.pc = "txnCommit" => order'[v.order].status = v.seen
    <3>1. ASSUME BeginConfirmation(w), Goto(w, "txnCommit")
          PROVE  u.pc = "txnRead" /\ v.order = u.order /\ v.seen = u.seen
      BY <1>0, <3>1 DEF BeginConfirmation, Goto, At, TypeOK, WorkerState
    <3>2. QED BY <1>0, <1>3, <2>1, <3>1 DEF ArrivesBy, SnapshotInv
  <2>5. v.pc # "insertTx"
    BY <1>3, <2>1 DEF ArrivesBy
  <2>6. v.pc = "writeFailed" => order'[v.order].status \notin {"paid", "refunded"}
    <3>1. ASSUME ReadOrderStatus(w), At(w, "readFailed"), Goto(w, "writeFailed")
          PROVE  order'[v.order].status \notin {"paid", "refunded"}
      <4>1. v.order = u.order
        BY <1>0, <3>1, GotoEffect
      <4>2. v.pc = "writeFailed"
        BY <1>0, <3>1, GotoEffect
      <4>3. ~Raise(w)
        BY <1>0, <4>2, Ended
      <4>4. CanTransition(order[u.order].status, "payment_failed")
        BY <3>1, <4>3 DEF ReadOrderStatus, AllowsTarget, Target, At
      <4>5. QED BY <1>3, <4>1, <4>4 DEF CanTransition, ValidTransitions, OrderStatus
    <3>2. QED BY <2>1, <3>1 DEF ArrivesBy
  <2>7. QED BY <2>2, <2>3, <2>4, <2>5, <2>6 DEF SnapshotInv, SettledOrder
<1>4. CASE CommitConfirmation(w)
  BY <1>1, <1>4 DEF SnapshotInv, SettledOrder
<1>5. CASE v.pc \notin {"findTx", "txnRead", "txnCommit", "insertTx", "writeFailed"}
  BY <1>5 DEF SnapshotInv
<1>6. QED BY <1>2, <1>3, <1>4, <1>5, WritesEndSnapshots

\* A transaction is inserted by a request at the end of confirmPayment.
LEMMA NewRecord ==
  ASSUME IInv, [Next]_vars, NEW p \in Payments, ~Recorded(p), tx'[p] # NoTx
  PROVE  \E w \in Workers : /\ At(w, "insertTx") /\ UNCHANGED order
                            /\ worker[w].payment = p /\ worker[w].order \in Orders
                            /\ tx'[p].order = worker[w].order
<1>0. TypeOK
  BY DEF IInv
<1>1. ASSUME NEW w \in Workers, StoreMac(w) \/ StoreReceipt(w)
      PROVE  FALSE
  <2>1. Recorded(worker[w].payment) /\ worker[w].payment \in Payments
    BY <1>1 DEF StoreMac, StoreReceipt, At, IInv, WorkerInv, ConfirmInv, ConfirmPc
  <2>2. QED BY <1>0, <1>1, <2>1 DEF StoreMac, StoreReceipt, TypeOK, Recorded
<1>2. PICK w \in Workers : CreateSuccessfulTransaction(w)
  BY <1>1, TxChange DEF Recorded
<1>3. worker[w].payment = p
  BY <1>0, <1>2 DEF CreateSuccessfulTransaction, Recorded, TypeOK
<1>4. tx'[p].order = worker[w].order
  BY <1>0, <1>2, <1>3 DEF CreateSuccessfulTransaction, InsertedRow, Recorded, NoTx, TypeOK
<1>5. At(w, "insertTx") /\ UNCHANGED order /\ worker[w].order \in Orders
  BY <1>2 DEF CreateSuccessfulTransaction, At, IInv, WorkerInv, ConfirmInv, ConfirmPc
<1>6. QED BY <1>3, <1>4, <1>5

LEMMA RecordedOrderStep ==
  ASSUME OneRequest, IInv, SerialInv, [Next]_vars
  PROVE  RecordedOrderIsPaid'
<1> SUFFICES ASSUME NEW p \in Payments, tx'[p] # NoTx
             PROVE  order'[tx'[p].order].status \in {"paid", "refunded"}
  BY DEF RecordedOrderIsPaid, Recorded
<1>0. TypeOK /\ Grows
  BY GrowsStep DEF IInv
<1>1. CASE Recorded(p)
  <2>1. tx[p].order \in Orders /\ SettledOrder(tx[p].order)
    BY <1>1 DEF IInv, TxInv, SerialInv, RecordedOrderIsPaid, SettledOrder
  <2>2. QED BY <1>0, <1>1, <2>1, SettledStays DEF Grows
<1>2. CASE ~Recorded(p)
  BY <1>2, NewRecord DEF At, SerialInv, SnapshotInv, SettledOrder
<1>3. QED BY <1>1, <1>2

LEMMA InitSerial == Init => SerialInv
BY DEF Init, SerialInv, RecordedOrderIsPaid, Recorded, SnapshotInv, Idle

LEMMA SerialInvariant ==
  ASSUME OneRequest
  PROVE  Spec => []SerialInv
<1>1. IInv /\ SerialInv /\ [Next]_vars => SerialInv'
  BY SnapshotStep, RecordedOrderStep DEF SerialInv
<1>2. QED BY InitSerial, Invariant, <1>1, PTL DEF Spec

\* As long as requests do not overlap, every transaction's order is paid,
\* whatever crashes and fails in between: confirmPayment writes the order first
\* and no later request takes it away.
THEOREM RecordedOrdersArePaid ==
  ASSUME OneRequest
  PROVE  Spec => []RecordedOrderIsPaid
<1>1. SerialInv => RecordedOrderIsPaid
  BY DEF SerialInv
<1>2. QED BY SerialInvariant, <1>1, PTL

\* As long as requests do not overlap, a paid order is never moved to another
\* status: not by a retry of the payment, nor by a late failure event.
THEOREM PaidOrdersStayPaid ==
  ASSUME OneRequest
  PROVE  Spec => PaidStaysPaid
<1>1. IInv /\ SerialInv /\ [Next]_vars =>
        [\A o \in Orders : order[o].status = "paid" => order'[o].status \in {"paid", "refunded"}]_vars
  BY SettledStays DEF SettledOrder
<1>2. QED BY SerialInvariant, Invariant, <1>1, PTL DEF Spec, PaidStaysPaid

-----------------------------------------------------------------------------
(* Any number of requests at a time *)

\* The one step that takes a paid order back: the UPDATE that follows a decline of
\* another payment for it.
LEMMA OnlyDeclinesOverwrite ==
  ASSUME IInv, [Next]_vars, NEW o \in Orders, SettledOrder(o), order'[o].status # order[o].status,
         order'[o].status # "paid"
  PROVE  \E w \in Workers :
           /\ WriteOrderStatus(w) /\ At(w, "writeFailed") /\ worker[w].order = o
           /\ payment[worker[w].payment].state = "failed"
           /\ payment[worker[w].payment].order = o
<1>0. TypeOK
  BY DEF IInv
<1>1. ASSUME NEW w \in Workers, NEW q \in Orders, NEW k \in Keys, NEW pr \in Providers,
             ClaimPaymentAttempt(w, q, k, pr)
      PROVE  FALSE
  BY <1>0, <1>1 DEF ClaimPaymentAttempt, CanCreatePayment, SettledOrder, TypeOK
<1>2. ASSUME NEW w \in Workers, AttachProviderPaymentToOrder(w) \/ UpdateOrderProcessing(w)
      PROVE  FALSE
  BY <1>0, <1>2 DEF AttachProviderPaymentToOrder, UpdateOrderProcessing, CanCreatePayment,
                    SettledOrder, TypeOK, OrderRow
<1>3. ASSUME NEW w \in Workers, SetOrder(w)
      PROVE  Target(w) # "paid" /\ worker[w].order = o
  BY <1>0, <1>3 DEF SetOrder, TypeOK, OrderRow
<1>4. ASSUME NEW w \in Workers, CommitConfirmation(w)
      PROVE  FALSE
  BY <1>3, <1>4 DEF CommitConfirmation, Target, At
<1>5. ASSUME NEW w \in Workers, WriteOrderStatus(w)
      PROVE  /\ At(w, "writeFailed") /\ worker[w].order = o
             /\ payment[worker[w].payment].state = "failed"
             /\ payment[worker[w].payment].order = o
  <2>1. worker[w].order = o /\ At(w, "writeFailed")
    BY <1>3, <1>5 DEF WriteOrderStatus, Target, At
  <2>2. QED BY <2>1 DEF At, IInv, WorkerInv, CreateInv
<1>6. QED BY <1>1, <1>2, <1>4, <1>5, OrderChange

LEMMA DeclinesStay ==
  ASSUME IInv, [Next]_vars, NEW o \in Orders, PaidButForDeclines(o)
  PROVE  PaidButForDeclines(o)'
<1>1. ASSUME NEW p \in Payments, payment[p].state = "failed", payment[p].order = o
      PROVE  PaidButForDeclines(o)'
  <2>1. payment'[p].state = "failed" /\ payment'[p].order = o
    BY <1>1, GrowsStep DEF Grows, Made
  <2>2. QED BY <2>1 DEF PaidButForDeclines, DeclinedFor
<1>2. CASE DeclinedFor(o)
  BY <1>1, <1>2 DEF DeclinedFor
<1>3. CASE SettledOrder(o) /\ order'[o].status \in {"paid", order[o].status}
  BY <1>3 DEF SettledOrder, PaidButForDeclines
<1>4. CASE SettledOrder(o) /\ order'[o].status \notin {"paid", order[o].status}
  <2>1. PICK w \in Workers : /\ payment[worker[w].payment].state = "failed"
                             /\ payment[worker[w].payment].order = o
                             /\ At(w, "writeFailed")
    BY <1>4, OnlyDeclinesOverwrite
  <2>2. worker[w].payment \in Payments
    BY <2>1 DEF At, IInv, WorkerInv, CreateInv
  <2>3. QED BY <1>1, <2>1, <2>2
<1>5. QED BY <1>2, <1>3, <1>4 DEF PaidButForDeclines

LEMMA DeclineStep ==
  ASSUME IInv, DeclineInv, [Next]_vars
  PROVE  DeclineInv'
<1>0. TypeOK /\ TypeOK' /\ Grows
  BY TypeStep, GrowsStep DEF IInv
<1>1. ASSUME NEW p \in Payments, tx'[p] # NoTx, NEW o, o = tx'[p].order
      PROVE  PaidButForDeclines(o)'
  <2>1. CASE Recorded(p)
    <3>1. tx[p].order = o
      BY <1>0, <1>1, <2>1 DEF Grows
    <3>2. o \in Orders /\ PaidButForDeclines(o)
      BY <2>1, <3>1 DEF IInv, TxInv, DeclineInv
    <3>3. QED BY <3>2, DeclinesStay
  <2>2. CASE ~Recorded(p)
    <3>1. o \in Orders /\ PaidButForDeclines(o)
      BY <1>1, <2>2, NewRecord DEF DeclineInv
    <3>2. QED BY <3>1, DeclinesStay
  <2>3. QED BY <2>1, <2>2
<1>2. ASSUME NEW w \in Workers,
             \/ worker'[w].pc = "insertTx"
             \/ worker'[w].pc \in {"findTx", "txnRead", "txnCommit"} /\ worker'[w].seen = "paid",
             NEW o, o = worker'[w].order
      PROVE  PaidButForDeclines(o)'
  <2> DEFINE u == worker[w]
             v == worker'[w]
  <2>1. CASE v = u
    <3>1. o \in Orders /\ PaidButForDeclines(o)
      BY <1>2, <2>1 DEF At, IInv, WorkerInv, ConfirmInv, ConfirmPc, DeclineInv
    <3>2. QED BY <3>1, DeclinesStay
  <2>2. CASE v # u
    <3>0. ArrivesBy(w)
      BY <2>2, Arrival
    <3>1. CASE v.pc = "findTx"
      <4>1. PICK k \in Keys : /\ attempt[k].order = o /\ v.seen = order[o].status
                              /\ attempt[k].payment = u.payment /\ At(w, "load")
        BY <1>0, <1>2, <3>0, <3>1, Loaded DEF ArrivesBy
      <4>2. u.payment \in Payments /\ attempt[k] # NoAttempt
        BY <4>1, ConstantsAssumption DEF At, IInv, WorkerInv, ConfirmInv, ConfirmPc, NoAttempt
      <4>3. o \in Orders /\ PaidButForDeclines(o)
        BY <1>2, <3>1, <4>1, <4>2 DEF IInv, AttemptInv, PaidButForDeclines, SettledOrder
      <4>4. QED BY <4>3, DeclinesStay
    <3>2. CASE v.pc \in {"txnRead", "txnCommit"}
      <4>1. u.pc \in {"findTx", "txnRead"} /\ v.order = u.order /\ v.seen = u.seen
        <5>1. ASSUME FindTransaction(w)
              PROVE  u.pc = "findTx" /\ v.order = u.order /\ v.seen = u.seen
          BY <1>0, <5>1 DEF FindTransaction, At, TypeOK, WorkerState
        <5>2. ASSUME BeginConfirmation(w), Goto(w, "txnCommit")
              PROVE  u.pc = "txnRead" /\ v.order = u.order /\ v.seen = u.seen
          BY <1>0, <5>2 DEF BeginConfirmation, Goto, At, TypeOK, WorkerState
        <5>3. QED BY <3>0, <3>2, <5>1, <5>2 DEF ArrivesBy
      <4>2. o \in Orders /\ PaidButForDeclines(o)
        BY <1>2, <3>2, <4>1 DEF At, IInv, WorkerInv, ConfirmInv, ConfirmPc, DeclineInv
      <4>3. QED BY <4>2, DeclinesStay
    <3>3. CASE v.pc = "insertTx"
      <4>1. CommitConfirmation(w) /\ At(w, "txnCommit")
        BY <3>0, <3>3 DEF ArrivesBy, CommitConfirmation
      <4>2. u.order = o /\ o \in Orders
        BY <1>0, <1>2, <4>1, GotoEffect DEF CommitConfirmation, At, IInv, WorkerInv, ConfirmInv, ConfirmPc
      <4>3. CASE u.seen = "paid"
        BY <4>1, <4>2, <4>3, DeclinesStay DEF At, DeclineInv
      <4>4. CASE u.seen # "paid"
        <5>1. order'[o].status = "paid"
          BY <1>0, <4>1, <4>2, <4>4 DEF CommitConfirmation, At, SetOrder, Target, TypeOK
        <5>2. QED BY <4>2, <5>1 DEF PaidButForDeclines, SettledOrder
      <4>5. QED BY <4>3, <4>4
    <3>4. QED BY <1>2, <3>1, <3>2, <3>3
  <2>3. QED BY <2>1, <2>2
<1>3. QED BY <1>1, <1>2 DEF DeclineInv, Recorded, At

LEMMA InitDecline == Init => DeclineInv
BY DEF Init, DeclineInv, Recorded, At, Idle

\* Whatever overlaps: the order of a transaction is paid, unless a payment made
\* for that order was declined.  reconciliationService's mismatch
\* "successful_transaction_order_not_paid_or_refunded" never has another cause.
THEOREM UnpaidRecordsHaveDeclines ==
  Spec => [](\A p \in Payments : Recorded(p) => PaidButForDeclines(tx[p].order))
<1>1. DeclineInv => \A p \in Payments : Recorded(p) => PaidButForDeclines(tx[p].order)
  BY DEF DeclineInv
<1>2. IInv /\ DeclineInv /\ [Next]_vars => DeclineInv'
  BY DeclineStep
<1>3. QED BY InitDecline, Invariant, <1>1, <1>2, PTL DEF Spec

\* Whatever overlaps: a paid order is taken back by nothing but updateOrderStatus
\* to payment_failed, for a payment of that order which was declined; never by
\* a create request, a sync or a confirmation.
THEOREM PaidOrdersYieldToDeclines ==
  Spec => [][\A o \in Orders :
               order[o].status = "paid" /\ order'[o].status # "paid" =>
                 \E w \in Workers :
                   /\ WriteOrderStatus(w) /\ At(w, "writeFailed") /\ worker[w].order = o
                   /\ payment[worker[w].payment].state = "failed"
                   /\ payment[worker[w].payment].order = o]_vars
<1>1. ASSUME IInv, [Next]_vars
      PROVE  [\A o \in Orders :
               order[o].status = "paid" /\ order'[o].status # "paid" =>
                 \E w \in Workers :
                   /\ WriteOrderStatus(w) /\ At(w, "writeFailed") /\ worker[w].order = o
                   /\ payment[worker[w].payment].state = "failed"
                   /\ payment[worker[w].payment].order = o]_vars
  BY <1>1, OnlyDeclinesOverwrite DEF SettledOrder
<1>2. QED BY Invariant, <1>1, PTL DEF Spec

\* Every transaction, also one MockBank's sync recorded for a payment that was
\* declined (the run "unpaid_recorded"), is booked to an order the provider has
\* taken money for.
THEOREM RecordedOrdersTookMoney ==
  Spec => [](\A p \in Payments : Recorded(p) => PaidFor(tx[p].order))
<1> DEFINE MoneyInv == \A p \in Payments : Recorded(p) => PaidFor(tx[p].order)
<1>1. ASSUME IInv, MoneyInv, [Next]_vars PROVE MoneyInv'
  <2>0. Grows
    BY <1>1, GrowsStep
  <2>1. ASSUME NEW o, PaidFor(o) PROVE PaidFor(o)'
    BY <2>0, <2>1 DEF PaidFor, Captured, Made, Grows
  <2>2. ASSUME NEW p \in Payments, tx'[p] # NoTx, NEW o, o = tx'[p].order
        PROVE  PaidFor(o)
    <3>1. CASE Recorded(p)
      BY <1>1, <2>0, <2>2, <3>1 DEF Grows
    <3>2. CASE ~Recorded(p)
      <4>1. PICK w \in Workers : /\ At(w, "insertTx") /\ worker[w].payment = p
                                 /\ o = worker[w].order
        BY <1>1, <2>2, <3>2, NewRecord
      <4>2. PaidFor(payment[p].order) /\ payment[p].order = o
        BY <1>1, <4>1 DEF At, IInv, WorkerInv, ConfirmInv, ConfirmPc
      <4>3. QED BY <4>2
    <3>3. QED BY <3>1, <3>2
  <2>3. QED BY <2>1, <2>2 DEF Recorded
<1>2. Init => MoneyInv
  BY DEF Init, Recorded
<1>3. QED BY Invariant, <1>1, <1>2, PTL DEF Spec
=============================================================================
