------------------------- MODULE PaymentFlowProofs -------------------------
(***************************************************************************)
(* PaymentFlow is type-correct and safe for every set of orders, keys,     *)
(* payments and workers, every choice of providers and any number of       *)
(* faults.                                                                *)
(***************************************************************************)
EXTENDS PaymentInvariants, TLAPS

LEMMA TransitionTypes ==
  /\ "pending" \in OrderStatus /\ "processing" \in OrderStatus
  /\ "paid" \in OrderStatus /\ "payment_failed" \in OrderStatus
BY DEF OrderStatus

LEMMA RowTypes ==
  /\ NoTx \in TxRow /\ NoAttempt \in AttemptRow
  /\ NoPayment \in PaymentRow /\ Idle \in WorkerState
<1>1. NoTx \in TxRow
  BY DEF NoTx, TxRow
<1>2. NoAttempt \in AttemptRow /\ NoPayment \in PaymentRow
  BY DEF NoAttempt, AttemptRow, NoPayment, PaymentRow, ProviderStatus
<1>3. Idle \in WorkerState
  BY <1>1 DEF Idle, WorkerState
<1>4. QED BY <1>1, <1>2, <1>3

LEMMA GotoType ==
  ASSUME TypeOK, NEW w \in Workers,
         NEW pc \in {"idle"} \cup CreatePc \cup ConfirmPc \cup WebhookPc, Goto(w, pc)
  PROVE  worker' \in [Workers -> WorkerState]
BY DEF TypeOK, Goto, WorkerState

LEMMA FinishType ==
  ASSUME TypeOK, NEW w \in Workers, Finish(w)
  PROVE  worker' \in [Workers -> WorkerState]
BY RowTypes DEF TypeOK, Finish

LEMMA RaiseType ==
  ASSUME TypeOK, NEW w \in Workers, Raise(w)
  PROVE  worker' \in [Workers -> WorkerState]
BY GotoType, FinishType DEF Raise, CreatePc, WebhookPc

LEMMA InitType == Init => TypeOK
<1> SUFFICES ASSUME Init PROVE TypeOK
  OBVIOUS
<1>1. order \in [Orders -> OrderRow]
  BY TransitionTypes DEF Init, OrderRow
<1>2. faults \in 0..MaxFaults
  BY ConstantsAssumption DEF Init
<1>3. QED BY <1>1, <1>2, RowTypes DEF Init, TypeOK

-----------------------------------------------------------------------------
(* Type correctness: one step per action *)

\* A request about to call the provider has its attempt; the provider either
\* answers with a payment it made for this key or makes a new one.
LEMMA ProviderCreatesEffect ==
  ASSUME IInv, NEW w \in Workers, At(w, "call"), NEW p \in Payments, ProviderCreates(w, p)
  PROVE  LET k == worker[w].key
             o == worker[w].order
         IN /\ k \in Keys /\ o \in Orders /\ attempt[k].order = o
            /\ attempt[k].provider \in Providers
            /\ \/ UNCHANGED payment /\ Made(p) /\ payment[p].key = k
               \/ /\ ~Made(p)
                  /\ \E s \in {"processing", "succeeded", "failed"} :
                       payment' = [payment EXCEPT ![p] =
                                     [state |-> s, reply |-> s,
                                      provider |-> attempt[k].provider,
                                      order |-> o, key |-> k]]
<1> DEFINE k == worker[w].key
           o == worker[w].order
<1>1. k \in Keys /\ o \in Orders /\ attempt[k].order = o
  BY DEF IInv, WorkerInv, CreateInv, At
<1>2. attempt[k].provider \in Providers
  BY <1>1, ConstantsAssumption DEF IInv, AttemptInv, NoAttempt
<1>3. CASE attempt[k].provider = "stripe" /\ SamePayment(k) # {}
  BY <1>1, <1>2, <1>3, ConstantsAssumption
     DEF ProviderCreates, SamePayment, Made, IInv, PaymentInv, NoPayment
<1>4. CASE ~(attempt[k].provider = "stripe" /\ SamePayment(k) # {})
  BY <1>1, <1>2, <1>4 DEF ProviderCreates, Made, NoPayment, ProviderStatus
<1>5. QED BY <1>1, <1>2, <1>3, <1>4

LEMMA TypeStep == IInv /\ [Next]_vars => TypeOK'
<1> SUFFICES ASSUME IInv, [Next]_vars PROVE TypeOK'
  OBVIOUS
<1> USE DEF tables, At
<1>0. /\ TypeOK /\ PaymentInv
      /\ \A w \in Workers :
           CreateInv(worker[w]) /\ ConfirmInv(worker[w]) /\ WebhookInv(worker[w])
  BY DEF IInv, WorkerInv
<1>1. ASSUME NEW w \in Workers, NEW o \in Orders, NEW k \in Keys, NEW pr \in Providers,
             ClaimPaymentAttempt(w, o, k, pr)
      PROVE  TypeOK'
  <2>1. attempt' \in [Keys -> AttemptRow]
    <3> DEFINE row == [NoAttempt EXCEPT !.order = o, !.provider = pr, !.status = "created"]
    <3>1. row \in AttemptRow
      BY RowTypes DEF AttemptRow
    <3>2. UNCHANGED attempt \/ attempt' = [attempt EXCEPT ![k] = row]
      BY <1>1 DEF ClaimPaymentAttempt
    <3>3. QED BY <1>0, <3>1, <3>2 DEF TypeOK
  <2>2. order' \in [Orders -> OrderRow]
    BY <1>0, <1>1, TransitionTypes DEF ClaimPaymentAttempt, TypeOK, OrderRow
  <2>3. worker' \in [Workers -> WorkerState]
    <3> DEFINE u == [Idle EXCEPT !.pc = IF attempt[k] = NoAttempt THEN "call" ELSE "claim",
                                 !.job = "create", !.order = o, !.key = k]
    <3>1. u \in WorkerState
      BY RowTypes DEF WorkerState, CreatePc
    <3>2. worker' = [worker EXCEPT ![w] = u]
      BY <1>1 DEF ClaimPaymentAttempt
    <3>3. QED BY <1>0, <3>1, <3>2 DEF TypeOK
  <2>4. QED BY <1>0, <1>1, <2>1, <2>2, <2>3 DEF ClaimPaymentAttempt, TypeOK
<1>2. ASSUME NEW w \in Workers, At(w, "call"), NEW p \in Payments, ProviderCreates(w, p)
      PROVE  payment' \in [Payments -> PaymentRow]
  BY <1>0, <1>2, ProviderCreatesEffect DEF TypeOK, PaymentRow, ProviderStatus
<1>3. ASSUME NEW w \in Workers, NEW p \in Payments, CallProvider(w, p)
      PROVE  TypeOK'
  <2>1. worker' \in [Workers -> WorkerState]
    BY <1>0, <1>3 DEF CallProvider, TypeOK, WorkerState, CreatePc
  <2>2. QED BY <1>0, <1>2, <1>3, <2>1 DEF CallProvider, TypeOK
<1>4. ASSUME NEW w \in Workers, ProviderCallFails(w)
      PROVE  TypeOK'
  <2>1. payment' \in [Payments -> PaymentRow]
    BY <1>0, <1>2, <1>4 DEF ProviderCallFails, TypeOK
  <2>2. QED BY <1>0, <1>4, <2>1, RaiseType DEF ProviderCallFails, TypeOK
<1>5. ASSUME NEW w \in Workers, PersistProviderPayment(w)
      PROVE  TypeOK'
  <2>1. worker' \in [Workers -> WorkerState]
    BY <1>0, <1>5, GotoType DEF PersistProviderPayment, CreatePc
  <2>2. worker[w].payment \in Payments /\ payment[worker[w].payment].reply \in ProviderStatus \ {"none"}
    BY <1>0, <1>5 DEF PersistProviderPayment, CreateInv, PaymentInv, Made, TypeOK, PaymentRow
  <2>3. attempt' \in [Keys -> AttemptRow]
    BY <1>0, <1>5, <2>2 DEF PersistProviderPayment, TypeOK, AttemptRow, ProviderStatus
  <2>4. QED BY <1>0, <1>5, <2>1, <2>3 DEF PersistProviderPayment, TypeOK
<1>6. ASSUME NEW w \in Workers, AttachProviderPaymentToOrder(w)
      PROVE  TypeOK'
  <2>1. worker' \in [Workers -> WorkerState]
    BY <1>0, <1>6, GotoType, FinishType DEF AttachProviderPaymentToOrder, CreatePc, ConfirmPc
  <2>2. order' \in [Orders -> OrderRow]
    BY <1>0, <1>6 DEF AttachProviderPaymentToOrder, CreateInv, TypeOK, OrderRow
  <2>3. QED BY <1>0, <1>6, <2>1, <2>2 DEF AttachProviderPaymentToOrder, TypeOK
<1>7. ASSUME NEW w \in Workers, MarkAttemptFailed(w)
      PROVE  TypeOK'
  <2>1. worker' \in [Workers -> WorkerState]
    BY <1>0, <1>7, GotoType, FinishType DEF MarkAttemptFailed, CreatePc
  <2>2. attempt' \in [Keys -> AttemptRow]
    BY <1>0, <1>7 DEF MarkAttemptFailed, TypeOK, AttemptRow
  <2>3. QED BY <1>0, <1>7, <2>1, <2>2 DEF MarkAttemptFailed, TypeOK
<1> DEFINE SetsOrder(w) == SetOrder(w) /\ worker[w].payment \in Payments
<1>8. ASSUME NEW w \in Workers, SetsOrder(w)
      PROVE  order' \in [Orders -> OrderRow]
  BY <1>0, <1>8, TransitionTypes DEF SetOrder, Target, TypeOK, OrderRow
<1>9. ASSUME NEW w \in Workers, ReadOrderStatus(w)
      PROVE  TypeOK'
  BY <1>0, <1>9, GotoType, RaiseType DEF ReadOrderStatus, TypeOK, CreatePc, ConfirmPc
<1>10. ASSUME NEW w \in Workers, WriteOrderStatus(w)
       PROVE  TypeOK'
  <2>1. worker' \in [Workers -> WorkerState]
    BY <1>0, <1>10, GotoType, FinishType DEF WriteOrderStatus, ConfirmPc, WebhookPc
  <2>2. worker[w].payment \in Payments
    BY <1>0, <1>10 DEF WriteOrderStatus, CreateInv, ConfirmInv, ConfirmPc
  <2>3. QED BY <1>0, <1>8, <1>10, <2>1, <2>2 DEF WriteOrderStatus, TypeOK
<1>11. ASSUME NEW w \in Workers, LoadAttempt(w)
       PROVE  TypeOK'
  <2>1. ASSUME NEW k \in Keys, attempt[k].payment = worker[w].payment, At(w, "load")
        PROVE  attempt[k].order \in Orders
    BY <1>0, <2>1, ConstantsAssumption DEF IInv, AttemptInv, ConfirmInv, ConfirmPc, PaymentInv
  <2>2. worker' \in [Workers -> WorkerState]
    <3>1. CASE Raise(w)
      BY <1>0, <3>1, RaiseType
    <3>2. CASE ~Raise(w)
      <4>1. PICK k \in Keys :
              /\ attempt[k].payment = worker[w].payment /\ At(w, "load")
              /\ worker' = [worker EXCEPT
                    ![w].pc = "findTx", ![w].key = k,
                    ![w].order = attempt[k].order,
                    ![w].seen = order[attempt[k].order].status]
        BY <1>11, <3>2 DEF LoadAttempt
      <4>2. attempt[k].order \in Orders /\ order[attempt[k].order].status \in OrderStatus
        BY <1>0, <2>1, <4>1 DEF TypeOK, OrderRow
      <4> DEFINE u == [worker[w] EXCEPT !.pc = "findTx", !.key = k, !.order = attempt[k].order,
                                        !.seen = order[attempt[k].order].status]
      <4>3. u \in WorkerState
        BY <1>0, <4>2 DEF TypeOK, WorkerState, ConfirmPc
      <4>4. worker' = [worker EXCEPT ![w] = u]
        BY <1>0, <4>1 DEF TypeOK
      <4>5. QED BY <1>0, <4>3, <4>4 DEF TypeOK
    <3>3. QED BY <3>1, <3>2
  <2>3. QED BY <1>0, <1>11, <2>2 DEF LoadAttempt, TypeOK
<1>12. ASSUME NEW w \in Workers, FindTransaction(w)
       PROVE  TypeOK'
  <2>1. tx[worker[w].payment] \in TxRow
    BY <1>0, <1>12 DEF FindTransaction, ConfirmInv, ConfirmPc, TypeOK
  <2>2. worker' \in [Workers -> WorkerState]
    BY <1>0, <1>12, <2>1 DEF FindTransaction, TypeOK, WorkerState, ConfirmPc
  <2>3. QED BY <1>0, <1>12, <2>2 DEF FindTransaction, TypeOK
<1>13. ASSUME NEW w \in Workers, MarkAttemptSucceeded(w)
       PROVE  TypeOK'
  <2>1. attempt' \in [Keys -> AttemptRow]
    BY <1>0, <1>13 DEF MarkAttemptSucceeded, TypeOK, AttemptRow
  <2>2. QED BY <1>0, <1>13, <2>1, GotoType DEF MarkAttemptSucceeded, TypeOK, ConfirmPc
<1>14. ASSUME NEW w \in Workers, BeginConfirmation(w)
       PROVE  TypeOK'
  BY <1>0, <1>14, GotoType, RaiseType DEF BeginConfirmation, TypeOK, ConfirmPc
<1>15. ASSUME NEW w \in Workers, CommitConfirmation(w)
       PROVE  TypeOK'
  <2>1. attempt' \in [Keys -> AttemptRow]
    BY <1>0, <1>15 DEF CommitConfirmation, TypeOK, AttemptRow
  <2>2. order' \in [Orders -> OrderRow]
    BY <1>0, <1>8, <1>15 DEF CommitConfirmation, ConfirmInv, ConfirmPc, TypeOK
  <2>3. QED BY <1>0, <1>15, <2>1, <2>2, GotoType DEF CommitConfirmation, TypeOK, ConfirmPc
<1>16. ASSUME NEW w \in Workers, CreateSuccessfulTransaction(w)
       PROVE  TypeOK'
  <2>1. InsertedRow(w) \in TxRow
    BY <1>0, <1>16 DEF CreateSuccessfulTransaction, InsertedRow, ConfirmInv, ConfirmPc,
                       TypeOK, TxRow, NoTx
  <2>2. tx' \in [Payments -> TxRow]
    BY <1>0, <1>16, <2>1 DEF CreateSuccessfulTransaction, TypeOK
  <2> DEFINE u == [worker[w] EXCEPT !.pc = "mac", !.row = InsertedRow(w)]
  <2>3. u \in WorkerState
    BY <1>0, <2>1 DEF TypeOK, WorkerState, ConfirmPc
  <2>4. worker' = [worker EXCEPT ![w] = u]
    BY <1>0, <1>16 DEF CreateSuccessfulTransaction, TypeOK
  <2>5. worker' \in [Workers -> WorkerState]
    BY <1>0, <2>3, <2>4 DEF TypeOK
  <2>6. QED BY <1>0, <1>16, <2>2, <2>5 DEF CreateSuccessfulTransaction, TypeOK
<1>17. ASSUME NEW w \in Workers, StoreMac(w)
       PROVE  TypeOK'
  <2>1. tx' \in [Payments -> TxRow]
    BY <1>0, <1>17 DEF StoreMac, TypeOK, TxRow
  <2>2. QED BY <1>0, <1>17, <2>1, GotoType DEF StoreMac, TypeOK, ConfirmPc
<1>18. ASSUME NEW w \in Workers, StoreReceipt(w)
       PROVE  TypeOK'
  <2>1. tx' \in [Payments -> TxRow]
    BY <1>0, <1>18 DEF StoreReceipt, TypeOK, TxRow
  <2>2. QED BY <1>0, <1>18, <2>1, GotoType, FinishType
            DEF StoreReceipt, Confirmed, TypeOK, WebhookPc
<1>19. ASSUME NEW w \in Workers, SigningFails(w)
       PROVE  TypeOK'
  BY <1>0, <1>19, RaiseType DEF SigningFails, TypeOK
<1>20. ASSUME NEW w \in Workers, NEW p \in Payments, ReceiveEvent(w, p)
       PROVE  TypeOK'
  <2>1. worker' \in [Workers -> WorkerState]
    BY <1>0, <1>20, RowTypes
       DEF ReceiveEvent, TypeOK, WorkerState, Idle, ConfirmPc, WebhookPc
  <2>2. QED BY <1>0, <1>20, <2>1 DEF ReceiveEvent, TypeOK
<1>21. ASSUME NEW w \in Workers, FindOrderOfFailedPayment(w)
       PROVE  TypeOK'
  <2>1. worker' \in [Workers -> WorkerState]
    BY <1>0, <1>21, GotoType
       DEF FindOrderOfFailedPayment, TypeOK, WorkerState, CreatePc, WebhookPc
  <2>2. QED BY <1>0, <1>21, <2>1 DEF FindOrderOfFailedPayment, TypeOK
<1>22. ASSUME NEW w \in Workers, MarkEvent(w)
       PROVE  TypeOK'
  BY <1>0, <1>22, FinishType DEF MarkEvent, LedgerStatus, TypeOK
<1>23. ASSUME NEW w \in Workers, NEW p \in Payments, SyncPayment(w, p)
       PROVE  TypeOK'
  <2>1. worker' \in [Workers -> WorkerState]
    BY <1>0, <1>23, RowTypes DEF SyncPayment, TypeOK, WorkerState, Idle, ConfirmPc
  <2>2. QED BY <1>0, <1>23, <2>1 DEF SyncPayment, TypeOK
<1>24. ASSUME NEW p \in Payments, ProviderSettles(p)
       PROVE  TypeOK'
  BY <1>0, <1>24 DEF ProviderSettles, TypeOK, PaymentRow, ProviderStatus
<1>25. ASSUME NEW w \in Workers, UpdateOrderProcessing(w)
       PROVE  TypeOK'
  <2>1. order' \in [Orders -> OrderRow]
    BY <1>0, <1>25, TransitionTypes DEF UpdateOrderProcessing, TypeOK, OrderRow
  <2>2. QED BY <1>0, <1>25, <2>1, GotoType, FinishType
            DEF UpdateOrderProcessing, TypeOK, CreatePc
<1>26. ASSUME NEW w \in Workers, StatementFails(w)
       PROVE  TypeOK'
  BY <1>0, <1>26, RaiseType, FinishType, ConstantsAssumption DEF StatementFails, TypeOK
<1>27. CASE Crash
  BY <1>0, <1>27, RowTypes, ConstantsAssumption DEF Crash, TypeOK
<1>28. CASE UNCHANGED vars
  BY <1>0, <1>28 DEF vars, TypeOK
<1>29. QED
  BY <1>1, <1>3, <1>4, <1>5, <1>6, <1>7, <1>9, <1>10, <1>11, <1>12, <1>13, <1>14, <1>15,
     <1>16, <1>17, <1>18, <1>19, <1>20, <1>21, <1>22, <1>23, <1>24, <1>25, <1>26, <1>27, <1>28
     DEF Next, Step

-----------------------------------------------------------------------------
(* Which actions change which table *)

LEMMA PaymentChange ==
  ASSUME IInv, [Next]_vars
  PROVE  \/ UNCHANGED payment
         \/ \E w \in Workers, p \in Payments : At(w, "call") /\ ProviderCreates(w, p)
         \/ \E p \in Payments : ProviderSettles(p)
BY DEF Next, Step, vars, tables, ClaimPaymentAttempt, CallProvider, ProviderCallFails,
       PersistProviderPayment, AttachProviderPaymentToOrder, MarkAttemptFailed,
       ReadOrderStatus, WriteOrderStatus, LoadAttempt, FindTransaction, MarkAttemptSucceeded,
       BeginConfirmation, CommitConfirmation, CreateSuccessfulTransaction, StoreMac,
       StoreReceipt, SigningFails, ReceiveEvent, FindOrderOfFailedPayment, MarkEvent,
       SyncPayment, UpdateOrderProcessing, StatementFails, Crash

LEMMA TxChange ==
  ASSUME [Next]_vars
  PROVE  \/ UNCHANGED tx
         \/ \E w \in Workers : CreateSuccessfulTransaction(w) \/ StoreMac(w) \/ StoreReceipt(w)
BY DEF Next, Step, vars, tables, ClaimPaymentAttempt, CallProvider, ProviderCallFails,
       PersistProviderPayment, AttachProviderPaymentToOrder, MarkAttemptFailed,
       ReadOrderStatus, WriteOrderStatus, LoadAttempt, FindTransaction, MarkAttemptSucceeded,
       BeginConfirmation, CommitConfirmation, SigningFails, ReceiveEvent,
       FindOrderOfFailedPayment, MarkEvent, SyncPayment, ProviderSettles,
       UpdateOrderProcessing, StatementFails, Crash

LEMMA AttemptChange ==
  ASSUME [Next]_vars
  PROVE  \/ UNCHANGED attempt
         \/ \E w \in Workers, o \in Orders, k \in Keys, pr \in Providers :
              ClaimPaymentAttempt(w, o, k, pr)
         \/ \E w \in Workers : \/ PersistProviderPayment(w) \/ MarkAttemptFailed(w)
                               \/ MarkAttemptSucceeded(w) \/ CommitConfirmation(w)
BY DEF Next, Step, vars, tables, CallProvider, ProviderCallFails,
       AttachProviderPaymentToOrder, ReadOrderStatus, WriteOrderStatus, LoadAttempt,
       FindTransaction, BeginConfirmation, CreateSuccessfulTransaction, StoreMac,
       StoreReceipt, SigningFails, ReceiveEvent, FindOrderOfFailedPayment, MarkEvent,
       SyncPayment, ProviderSettles,
       UpdateOrderProcessing, StatementFails, Crash

LEMMA OrderChange ==
  ASSUME [Next]_vars
  PROVE  \/ UNCHANGED order
         \/ \E w \in Workers, o \in Orders, k \in Keys, pr \in Providers :
              ClaimPaymentAttempt(w, o, k, pr)
         \/ \E w \in Workers : \/ AttachProviderPaymentToOrder(w)
                               \/ WriteOrderStatus(w) \/ CommitConfirmation(w)
                               \/ UpdateOrderProcessing(w)
BY DEF Next, Step, vars, tables, CallProvider, ProviderCallFails, PersistProviderPayment,
       MarkAttemptFailed, ReadOrderStatus, LoadAttempt, FindTransaction,
       MarkAttemptSucceeded, BeginConfirmation, CreateSuccessfulTransaction, StoreMac,
       StoreReceipt, SigningFails, ReceiveEvent, FindOrderOfFailedPayment, MarkEvent,
       SyncPayment, ProviderSettles, StatementFails, Crash

LEMMA EventChange ==
  ASSUME [Next]_vars
  PROVE  \/ UNCHANGED event
         \/ \E w \in Workers : MarkEvent(w) \/ \E p \in Payments : ReceiveEvent(w, p)
BY DEF Next, Step, vars, tables, ClaimPaymentAttempt, CallProvider, ProviderCallFails,
       PersistProviderPayment, AttachProviderPaymentToOrder, MarkAttemptFailed,
       ReadOrderStatus, WriteOrderStatus, LoadAttempt, FindTransaction, MarkAttemptSucceeded,
       BeginConfirmation, CommitConfirmation, CreateSuccessfulTransaction, StoreMac,
       StoreReceipt, SigningFails, FindOrderOfFailedPayment, SyncPayment,
       ProviderSettles,
       UpdateOrderProcessing, StatementFails, Crash

-----------------------------------------------------------------------------
(* Nothing the invariant relies on is ever undone *)

\* A payment keeps its order, key and provider, and its outcome once it has
\* one; a transaction keeps its order, MAC and receipt; an attempt keeps its
\* order and provider.
Grows ==
  /\ \A p \in Payments : Made(p) =>
       /\ payment'[p].state # "none"
       /\ payment'[p].order = payment[p].order
       /\ payment'[p].key = payment[p].key
       /\ payment'[p].provider = payment[p].provider
       /\ payment[p].state \in {"succeeded", "failed"} => payment'[p].state = payment[p].state
  /\ \A p \in Payments : Recorded(p) =>
       /\ tx'[p] # NoTx /\ tx'[p].order = tx[p].order
       /\ tx[p].mac => tx'[p].mac
       /\ tx[p].receipt => tx'[p].receipt
  /\ \A k \in Keys : attempt[k].order \in Orders =>
       attempt'[k].order = attempt[k].order /\ attempt'[k].provider = attempt[k].provider

LEMMA GrowsStep == IInv /\ [Next]_vars => Grows
<1> SUFFICES ASSUME IInv, [Next]_vars PROVE Grows
  OBVIOUS
<1>0. TypeOK /\ TypeOK' BY TypeStep DEF IInv
<1>1. ASSUME NEW p \in Payments, Made(p)
      PROVE  /\ payment'[p].state # "none"
             /\ payment'[p].order = payment[p].order
             /\ payment'[p].key = payment[p].key
             /\ payment'[p].provider = payment[p].provider
             /\ payment[p].state \in {"succeeded", "failed"} => payment'[p].state = payment[p].state
  <2>1. CASE UNCHANGED payment
    BY <1>1, <2>1 DEF Made
  <2>2. ASSUME NEW w \in Workers, NEW q \in Payments, At(w, "call"), ProviderCreates(w, q)
        PROVE  UNCHANGED payment[p]
    BY <1>0, <1>1, <2>2, ProviderCreatesEffect DEF TypeOK, Made
  <2>3. ASSUME NEW q \in Payments, ProviderSettles(q)
        PROVE  /\ payment'[p].state # "none"
               /\ payment'[p].order = payment[p].order
               /\ payment'[p].key = payment[p].key
               /\ payment'[p].provider = payment[p].provider
               /\ payment[p].state \in {"succeeded", "failed"} => payment'[p].state = payment[p].state
    BY <1>0, <1>1, <2>3 DEF ProviderSettles, TypeOK, PaymentRow, Made
  <2>4. QED BY <1>1, <2>1, <2>2, <2>3, PaymentChange DEF Made
<1>2. ASSUME NEW p \in Payments, Recorded(p)
      PROVE  /\ tx'[p] # NoTx /\ tx'[p].order = tx[p].order
             /\ tx[p].mac => tx'[p].mac
             /\ tx[p].receipt => tx'[p].receipt
  <2>0. tx[p].order \in Orders
    BY <1>2 DEF IInv, TxInv
  <2>1. ASSUME NEW w \in Workers, CreateSuccessfulTransaction(w)
        PROVE  tx'[p] = tx[p]
    BY <1>0, <1>2, <2>1 DEF CreateSuccessfulTransaction, InsertedRow, Recorded, TypeOK
  <2>2. ASSUME NEW w \in Workers, StoreMac(w) \/ StoreReceipt(w)
        PROVE  /\ tx'[p].order = tx[p].order
               /\ tx[p].mac => tx'[p].mac
               /\ tx[p].receipt => tx'[p].receipt
    BY <1>0, <1>2, <2>2 DEF StoreMac, StoreReceipt, TypeOK, TxRow
  <2>3. QED BY <1>2, <2>0, <2>1, <2>2, TxChange, ConstantsAssumption DEF Recorded, NoTx
<1>3. ASSUME NEW k \in Keys, attempt[k].order \in Orders
      PROVE  attempt'[k].order = attempt[k].order /\ attempt'[k].provider = attempt[k].provider
  <2>1. ASSUME NEW w \in Workers, NEW o \in Orders, NEW l \in Keys, NEW pr \in Providers,
               ClaimPaymentAttempt(w, o, l, pr)
        PROVE  attempt'[k].order = attempt[k].order /\ attempt'[k].provider = attempt[k].provider
    BY <1>0, <1>3, <2>1, ConstantsAssumption DEF ClaimPaymentAttempt, NoAttempt, TypeOK
  <2>2. ASSUME NEW w \in Workers, \/ PersistProviderPayment(w) \/ MarkAttemptFailed(w)
                                  \/ MarkAttemptSucceeded(w) \/ CommitConfirmation(w)
        PROVE  attempt'[k].order = attempt[k].order /\ attempt'[k].provider = attempt[k].provider
    BY <1>0, <1>3, <2>2 DEF PersistProviderPayment, MarkAttemptFailed, MarkAttemptSucceeded,
                            CommitConfirmation, TypeOK, AttemptRow
  <2>3. QED BY <1>3, <2>1, <2>2, AttemptChange
<1>4. QED BY <1>1, <1>2, <1>3 DEF Grows

LEMMA OutcomesStay ==
  ASSUME IInv, Grows, NEW o
  PROVE  (PaidFor(o) => PaidFor(o)') /\ (DeclinedFor(o) => DeclinedFor(o)')
BY DEF Grows, PaidFor, DeclinedFor, Captured, Made

-----------------------------------------------------------------------------
(* The tables *)

LEMMA OrderStep == IInv /\ [Next]_vars => OrderInv'
<1> SUFFICES ASSUME IInv, [Next]_vars, NEW o \in Orders
             PROVE  /\ order'[o].status = "paid" => PaidFor(o)'
                    /\ order'[o].status = "payment_failed" => DeclinedFor(o)'
                    /\ order'[o].intent # None =>
                         payment'[order'[o].intent].state # "none" /\ payment'[order'[o].intent].order = o
  BY DEF OrderInv, Made
<1>0. TypeOK /\ TypeOK' /\ Grows
  BY TypeStep, GrowsStep DEF IInv
<1>1. /\ order[o].status = "paid" => PaidFor(o)'
      /\ order[o].status = "payment_failed" => DeclinedFor(o)'
  BY <1>0, OutcomesStay DEF IInv, OrderInv
<1>2. order[o].intent # None => payment'[order[o].intent].state # "none" /\ payment'[order[o].intent].order = o
  BY <1>0 DEF IInv, OrderInv, Grows, Made, TypeOK, OrderRow
<1>3. ASSUME NEW w \in Workers, NEW q \in Orders, NEW k \in Keys, NEW pr \in Providers,
             ClaimPaymentAttempt(w, q, k, pr)
      PROVE  order'[o].intent = order[o].intent /\ order'[o].status \in {"processing", order[o].status}
  BY <1>0, <1>3 DEF ClaimPaymentAttempt, TypeOK, OrderRow
<1>4. ASSUME NEW w \in Workers, AttachProviderPaymentToOrder(w)
      PROVE  /\ order'[o].status = order[o].status
             /\ \/ order'[o].intent = order[o].intent
                \/ payment'[order'[o].intent].state # "none" /\ payment'[order'[o].intent].order = o
  <2>1. /\ worker[w].payment \in Payments /\ Made(worker[w].payment)
        /\ payment[worker[w].payment].order = worker[w].order
    BY <1>4 DEF AttachProviderPaymentToOrder, At, IInv, WorkerInv, CreateInv
  <2>2. QED BY <1>0, <1>4, <2>1 DEF AttachProviderPaymentToOrder, TypeOK, OrderRow, Made
<1>5. ASSUME NEW w \in Workers, SetOrder(w),
             worker[w].payment \in Payments, Made(worker[w].payment),
             payment[worker[w].payment].order = worker[w].order,
             Target(w) = "paid" => PaidFor(worker[w].order),
             Target(w) = "payment_failed" => DeclinedFor(worker[w].order)
      PROVE  \/ order'[o] = order[o]
             \/ /\ order'[o].status = "paid" => PaidFor(o)'
                /\ order'[o].status = "payment_failed" => DeclinedFor(o)'
                /\ payment'[order'[o].intent].state # "none" /\ payment'[order'[o].intent].order = o
  <2>1. CASE worker[w].order = o
    <3>1. order'[o] = [status |-> Target(w), intent |-> worker[w].payment]
      BY <1>0, <1>5, <2>1 DEF SetOrder, TypeOK
    <3>2. QED BY <1>0, <1>5, <2>1, <3>1, OutcomesStay DEF Grows, Made
  <2>2. CASE worker[w].order # o
    BY <1>0, <1>5, <2>2 DEF SetOrder, TypeOK
  <2>3. QED BY <2>1, <2>2
<1>6. ASSUME NEW w \in Workers, WriteOrderStatus(w) \/ CommitConfirmation(w)
      PROVE  \/ order'[o] = order[o]
             \/ /\ order'[o].status = "paid" => PaidFor(o)'
                /\ order'[o].status = "payment_failed" => DeclinedFor(o)'
                /\ payment'[order'[o].intent].state # "none" /\ payment'[order'[o].intent].order = o
  <2>1. CASE UNCHANGED order
    BY <2>1
  <2>2. CASE worker[w].pc \in {"writePaid", "txnCommit"} /\ SetOrder(w)
    <3>1. /\ worker[w].payment \in Payments /\ Made(worker[w].payment)
          /\ payment[worker[w].payment].order = worker[w].order /\ PaidFor(worker[w].order)
      BY <2>2 DEF IInv, WorkerInv, ConfirmInv, ConfirmPc
    <3>2. QED BY <1>5, <2>2, <3>1 DEF Target
  <2>3. CASE worker[w].pc = "writeFailed" /\ SetOrder(w)
    <3>1. /\ worker[w].payment \in Payments /\ Made(worker[w].payment)
          /\ payment[worker[w].payment].order = worker[w].order
          /\ DeclinedFor(worker[w].order)
      BY <2>3 DEF IInv, WorkerInv, CreateInv, DeclinedFor
    <3>2. QED BY <1>5, <2>3, <3>1 DEF Target
  <2>4. QED BY <1>6, <2>1, <2>2, <2>3 DEF WriteOrderStatus, CommitConfirmation, At
<1>7. ASSUME NEW w \in Workers, UpdateOrderProcessing(w)
      PROVE  order'[o].intent = order[o].intent /\ order'[o].status \in {"processing", order[o].status}
  BY <1>0, <1>7 DEF UpdateOrderProcessing, TypeOK, OrderRow
<1>8. QED BY <1>1, <1>2, <1>3, <1>4, <1>6, <1>7, OrderChange

LEMMA AttemptStep == IInv /\ [Next]_vars => AttemptInv'
<1> SUFFICES ASSUME IInv, [Next]_vars, NEW k \in Keys
             PROVE  /\ attempt'[k] # NoAttempt =>
                         attempt'[k].order \in Orders /\ attempt'[k].provider \in Providers
                    /\ attempt'[k].payment # None =>
                         /\ payment'[attempt'[k].payment].state # "none"
                         /\ payment'[attempt'[k].payment].order = attempt'[k].order
  BY DEF AttemptInv, Made
<1>0. TypeOK /\ TypeOK' /\ Grows
  BY TypeStep, GrowsStep DEF IInv
<1>1. CASE UNCHANGED attempt
  BY <1>0, <1>1 DEF IInv, AttemptInv, Grows, Made, TypeOK, AttemptRow
<1>2. ASSUME NEW w \in Workers, NEW o \in Orders, NEW l \in Keys, NEW pr \in Providers,
             ClaimPaymentAttempt(w, o, l, pr)
      PROVE  \/ attempt'[k] = attempt[k]
             \/ attempt'[k].order = o /\ attempt'[k].provider = pr /\ attempt'[k].payment = None
  BY <1>0, <1>2 DEF ClaimPaymentAttempt, TypeOK, NoAttempt
<1>3. ASSUME NEW w \in Workers, PersistProviderPayment(w)
      PROVE  \/ attempt'[k] = attempt[k]
             \/ /\ attempt'[k].order \in Orders /\ attempt'[k].provider = attempt[k].provider
                /\ attempt[k] # NoAttempt
                /\ payment'[attempt'[k].payment].state # "none"
                /\ payment'[attempt'[k].payment].order = attempt'[k].order
  <2>1. /\ worker[w].payment \in Payments /\ Made(worker[w].payment)
        /\ worker[w].order \in Orders /\ worker[w].key \in Keys
        /\ payment[worker[w].payment].order = worker[w].order
        /\ attempt[worker[w].key].order = worker[w].order
    BY <1>3 DEF PersistProviderPayment, At, IInv, WorkerInv, CreateInv
  <2>2. QED BY <1>0, <1>3, <2>1, ConstantsAssumption
            DEF PersistProviderPayment, TypeOK, AttemptRow, Made, NoAttempt
<1>4. ASSUME NEW w \in Workers, \/ MarkAttemptFailed(w) \/ MarkAttemptSucceeded(w)
                                \/ CommitConfirmation(w)
      PROVE  \/ attempt'[k] = attempt[k]
             \/ /\ attempt'[k].order = attempt[k].order
                /\ attempt'[k].provider = attempt[k].provider
                /\ attempt'[k].payment = attempt[k].payment
                /\ k = worker[w].key
  BY <1>0, <1>4 DEF MarkAttemptFailed, MarkAttemptSucceeded, CommitConfirmation, TypeOK, AttemptRow
<1>5. ASSUME NEW w \in Workers, \/ MarkAttemptFailed(w) \/ MarkAttemptSucceeded(w)
                                \/ CommitConfirmation(w)
      PROVE  worker[w].key \in Keys /\ attempt[worker[w].key].order \in Orders
  BY <1>5 DEF MarkAttemptFailed, MarkAttemptSucceeded, CommitConfirmation, At,
              IInv, WorkerInv, CreateInv, ConfirmInv, ConfirmPc
<1>6. attempt[k].order \in Orders => attempt[k].provider \in Providers
  BY ConstantsAssumption DEF IInv, AttemptInv, NoAttempt
<1>7. attempt[k].payment # None =>
        /\ payment'[attempt[k].payment].state # "none"
        /\ payment'[attempt[k].payment].order = attempt[k].order
  BY <1>0 DEF IInv, AttemptInv, Grows, Made, TypeOK, AttemptRow
<1>8. attempt[k] # NoAttempt => attempt[k].order \in Orders /\ attempt[k].provider \in Providers
  BY DEF IInv, AttemptInv
<1>9. QED BY <1>1, <1>2, <1>3, <1>4, <1>5, <1>6, <1>7, <1>8, AttemptChange

LEMMA PaymentStep == IInv /\ [Next]_vars => PaymentInv'
<1> SUFFICES ASSUME IInv, [Next]_vars, NEW p \in Payments
             PROVE  /\ payment'[p].state # "none" =>
                         /\ payment'[p].order \in Orders /\ payment'[p].key \in Keys
                         /\ payment'[p].provider \in Providers
                         /\ payment'[p].order = attempt'[payment'[p].key].order
                         /\ payment'[p].provider = attempt'[payment'[p].key].provider
                    /\ payment'[p].state = "none" => payment'[p] = NoPayment
                    /\ payment'[p].reply = "none" => payment'[p].state = "none"
                    /\ payment'[p].reply \in {"succeeded", "failed"} =>
                         payment'[p].state = payment'[p].reply
  BY DEF PaymentInv, Made
<1>0. TypeOK /\ TypeOK' /\ Grows
  BY TypeStep, GrowsStep DEF IInv
<1>1. ASSUME payment'[p] = payment[p]
      PROVE  payment'[p].state # "none" =>
               /\ payment'[p].order = attempt'[payment'[p].key].order
               /\ payment'[p].provider = attempt'[payment'[p].key].provider
  BY <1>0, <1>1 DEF IInv, PaymentInv, Grows, Made
<1>2. CASE payment'[p] = payment[p]
  BY <1>1, <1>2 DEF IInv, PaymentInv, Made
<1>3. ASSUME NEW w \in Workers, NEW q \in Payments, At(w, "call"), ProviderCreates(w, q),
             payment'[p] # payment[p]
      PROVE  /\ payment'[p].state # "none"
             /\ payment'[p].order \in Orders /\ payment'[p].key \in Keys
             /\ payment'[p].provider \in Providers
             /\ payment'[p].order = attempt[payment'[p].key].order
             /\ payment'[p].provider = attempt[payment'[p].key].provider
             /\ payment'[p].reply = payment'[p].state
  BY <1>0, <1>3, ProviderCreatesEffect DEF TypeOK
<1>4. ASSUME NEW q \in Payments, ProviderSettles(q), payment'[p] # payment[p]
      PROVE  /\ Made(p) /\ payment[p].state = "processing"
             /\ payment'[p].state # "none"
             /\ payment'[p].order = payment[p].order
             /\ payment'[p].key = payment[p].key
             /\ payment'[p].provider = payment[p].provider
             /\ payment'[p].reply = payment[p].reply
  BY <1>0, <1>4 DEF ProviderSettles, TypeOK, PaymentRow, Made
<1>5. CASE \E w \in Workers, q \in Payments : At(w, "call") /\ ProviderCreates(w, q)
  BY <1>0, <1>2, <1>3, <1>5 DEF Grows
<1>6. CASE \E q \in Payments : ProviderSettles(q)
  BY <1>0, <1>2, <1>4, <1>6 DEF Grows, IInv, PaymentInv, Made
<1>7. QED BY <1>2, <1>5, <1>6, PaymentChange

LEMMA TxStep == IInv /\ [Next]_vars => TxInv'
<1> SUFFICES ASSUME IInv, [Next]_vars, NEW p \in Payments, tx'[p] # NoTx
             PROVE  /\ tx'[p].order \in Orders /\ tx'[p].order = payment'[p].order
                    /\ payment'[p].provider = "stripe" => payment'[p].state = "succeeded"
  BY DEF TxInv, Recorded, Stripe, Captured
<1>0. TypeOK /\ TypeOK' /\ Grows
  BY TypeStep, GrowsStep DEF IInv
<1>1. ASSUME Made(p), Stripe(p) => Captured(p), tx'[p].order \in Orders,
             tx'[p].order = payment[p].order
      PROVE  /\ tx'[p].order \in Orders /\ tx'[p].order = payment'[p].order
             /\ payment'[p].provider = "stripe" => payment'[p].state = "succeeded"
  BY <1>0, <1>1 DEF Grows, Stripe, Captured
<1>2. CASE Recorded(p)
  <2>1. Made(p)
    BY <1>2, ConstantsAssumption DEF IInv, TxInv, PaymentInv, NoPayment
  <2>2. QED BY <1>0, <1>1, <1>2, <2>1 DEF Grows, IInv, TxInv
<1>3. ASSUME ~Recorded(p), NEW w \in Workers, CreateSuccessfulTransaction(w)
      PROVE  /\ Made(p) /\ (Stripe(p) => Captured(p)) /\ tx'[p].order \in Orders
             /\ tx'[p].order = payment[p].order
  <2>1. worker[w].payment = p
    BY <1>0, <1>3 DEF CreateSuccessfulTransaction, Recorded, TypeOK
  <2>2. /\ Made(p) /\ (Stripe(p) => Captured(p))
        /\ worker[w].order \in Orders /\ payment[p].order = worker[w].order
    BY <1>3, <2>1 DEF CreateSuccessfulTransaction, At, IInv, WorkerInv, ConfirmInv, ConfirmPc
  <2>3. tx'[p].order = worker[w].order
    BY <1>0, <1>3, <2>1 DEF CreateSuccessfulTransaction, InsertedRow, Recorded, NoTx, TypeOK
  <2>4. QED BY <2>2, <2>3
<1>4. ASSUME ~Recorded(p), NEW w \in Workers, StoreMac(w) \/ StoreReceipt(w)
      PROVE  FALSE
  <2>1. Recorded(worker[w].payment) /\ worker[w].payment \in Payments
    BY <1>4 DEF StoreMac, StoreReceipt, At, IInv, WorkerInv, ConfirmInv, ConfirmPc
  <2>2. QED BY <1>0, <1>4, <2>1 DEF StoreMac, StoreReceipt, TypeOK, Recorded
<1>5. QED BY <1>1, <1>2, <1>3, <1>4, TxChange DEF Recorded

LEMMA EventStep == IInv /\ [Next]_vars => EventInv'
<1> SUFFICES ASSUME IInv, [Next]_vars, NEW p \in Payments
             PROVE  /\ event'[p] # "none" => HasEvent(p)'
                    /\ event'[p] = "processed" /\ payment'[p].state = "succeeded" =>
                         tx'[p] # NoTx /\ tx'[p].mac /\ tx'[p].receipt
  BY DEF EventInv, Captured, Sealed, Recorded
<1>0. TypeOK /\ TypeOK' /\ Grows
  BY TypeStep, GrowsStep DEF IInv
<1>1. HasEvent(p) => HasEvent(p)'
  BY <1>0, ConstantsAssumption DEF HasEvent, Grows, Made
<1>2. Sealed(p) => tx'[p] # NoTx /\ tx'[p].mac /\ tx'[p].receipt
  BY <1>0 DEF Sealed, Grows
<1>3. HasEvent(p) /\ payment'[p].state = "succeeded" => Captured(p)
  BY <1>0 DEF HasEvent, Grows, Made, Captured
<1>4. CASE event'[p] = event[p]
  BY <1>1, <1>2, <1>3, <1>4 DEF IInv, EventInv
<1>5. ASSUME NEW w \in Workers, NEW q \in Payments, ReceiveEvent(w, q), event'[p] # event[p]
      PROVE  HasEvent(p) /\ event'[p] # "processed"
  BY <1>0, <1>5 DEF ReceiveEvent, TypeOK
<1>6. ASSUME NEW w \in Workers, MarkEvent(w), event'[p] # event[p]
      PROVE  /\ HasEvent(p)
             /\ event'[p] = "processed" /\ Captured(p) => Sealed(p)
  <2>1. p = worker[w].payment /\ event'[p] = LedgerStatus(w)
    BY <1>0, <1>6 DEF MarkEvent, TypeOK
  <2>2. HasEvent(p) /\ (At(w, "markProcessed") /\ Captured(p) => Sealed(p))
    BY <1>6, <2>1 DEF MarkEvent, At, IInv, WorkerInv, WebhookInv, WebhookPc
  <2>3. QED BY <2>1, <2>2 DEF LedgerStatus
<1>7. QED BY <1>1, <1>2, <1>3, <1>4, <1>5, <1>6, EventChange

-----------------------------------------------------------------------------
(* The requests in flight *)

\* What a request knows stays true in every step.
LEMMA KnowledgeStays ==
  ASSUME IInv, Grows, NEW u \in WorkerState, WorkerInv(u)
  PROVE  WorkerInv(u)'
<1>1. CreateInv(u)'
  BY DEF WorkerInv, CreateInv, Grows, Made
<1>2. ConfirmInv(u)'
  <2>1. ASSUME u.pc \in ConfirmPc
        PROVE  /\ Made(u.payment)' /\ payment'[u.payment].order = payment[u.payment].order
               /\ (Stripe(u.payment) => Captured(u.payment))'
               /\ PaidFor(payment[u.payment].order)'
    <3>1. /\ u.payment \in Payments /\ Made(u.payment)
          /\ Stripe(u.payment) => Captured(u.payment)
          /\ PaidFor(payment[u.payment].order)
      BY <2>1 DEF WorkerInv, ConfirmInv
    <3>2. /\ Made(u.payment)' /\ payment'[u.payment].order = payment[u.payment].order
          /\ (Stripe(u.payment) => Captured(u.payment))'
      BY <3>1 DEF Grows, Made, Stripe, Captured
    <3> DEFINE o == payment[u.payment].order
    <3>3. PICK p \in Payments : Captured(p) /\ payment[p].order = o
      BY <3>1 DEF PaidFor
    <3>4. payment'[p].state = "succeeded" /\ payment'[p].order = payment'[u.payment].order
      BY <3>2, <3>3 DEF Grows, Made, Captured
    <3>5. PaidFor(payment[u.payment].order)'
      BY <3>4 DEF PaidFor, Captured
    <3>6. QED BY <3>2, <3>5
  <2>2. ASSUME u.pc \in ConfirmPc \ {"load"}
        PROVE  /\ u.key \in Keys /\ u.order \in Orders
               /\ attempt'[u.key].order = u.order /\ payment[u.payment].order = u.order
    BY <2>2 DEF WorkerInv, ConfirmInv, Grows
  <2>3. ASSUME u.pc \in ConfirmPc, Recorded(u.payment)
        PROVE  /\ Recorded(u.payment)'
               /\ tx[u.payment].mac => tx'[u.payment].mac
               /\ tx[u.payment].receipt => tx'[u.payment].receipt
    BY <2>3 DEF WorkerInv, ConfirmInv, Grows, Recorded
  <2>4. u.pc \in {"readPaid", "writePaid", "markSucceeded", "mac", "sign"} =>
          /\ Recorded(u.payment)'
          /\ u.row.mac => tx'[u.payment].mac
          /\ u.row.receipt => tx'[u.payment].receipt
    BY <2>3 DEF WorkerInv, ConfirmInv, ConfirmPc
  <2>5. u.pc = "sign" => tx'[u.payment].mac
    BY <2>3 DEF WorkerInv, ConfirmInv, ConfirmPc
  <2>6. u.pc \in ConfirmPc => u.payment \in Payments
    BY DEF WorkerInv, ConfirmInv
  <2>7. QED BY <2>1, <2>2, <2>4, <2>5, <2>6 DEF ConfirmInv, ConfirmPc
<1>3. WebhookInv(u)'
  BY DEF WorkerInv, WebhookInv, WebhookPc, Grows, Made, HasEvent, Captured, Sealed, Recorded
<1>4. QED BY <1>1, <1>2, <1>3 DEF WorkerInv

\* A request ends, or an exception leaves the routine it is in.
LEMMA EndInv ==
  ASSUME IInv, TypeOK', Grows, NEW w \in Workers, Finish(w) \/ Raise(w)
  PROVE  WorkerInv(worker[w])'
<1>1. CASE worker'[w] = Idle
  BY <1>1 DEF WorkerInv, CreateInv, ConfirmInv, WebhookInv, Idle, CreatePc, ConfirmPc, WebhookPc
<1>2. worker[w] \in WorkerState /\ WorkerInv(worker[w]) /\ TypeOK
  BY DEF IInv, TypeOK
<1>3. ASSUME NEW pc \in {"catch", "markEventFailed"}, Goto(w, pc)
      PROVE  worker'[w] = [worker[w] EXCEPT !.pc = pc]
  BY <1>2, <1>3 DEF Goto, TypeOK
<1>4. CASE Finish(w)
  BY <1>1, <1>2, <1>4 DEF Finish, TypeOK
<1>5. CASE worker[w].job = "create" /\ Goto(w, "catch")
  <2>1. /\ worker'[w].pc = "catch" /\ worker'[w].job = "create"
        /\ worker'[w].key = worker[w].key
    BY <1>2, <1>3, <1>5 DEF WorkerState
  <2>2. worker[w].key \in Keys /\ attempt'[worker[w].key].order \in Orders
    BY <1>2, <1>5 DEF WorkerInv, CreateInv, Grows
  <2>3. QED BY <2>1, <2>2 DEF WorkerInv, CreateInv, ConfirmInv, WebhookInv, ConfirmPc, WebhookPc
<1>6. CASE worker[w].job = "webhook" /\ Goto(w, "markEventFailed")
  <2>1. /\ worker'[w].pc = "markEventFailed" /\ worker'[w].job = "webhook"
        /\ worker'[w].payment = worker[w].payment
    BY <1>2, <1>3, <1>6 DEF WorkerState
  <2>2. worker[w].payment \in Payments /\ HasEvent(worker[w].payment)'
    BY <1>2, <1>6, <2>1 DEF WorkerInv, WebhookInv, Grows, HasEvent, Made
  <2>3. QED BY <2>1, <2>2 DEF WorkerInv, CreateInv, ConfirmInv, WebhookInv, ConfirmPc, WebhookPc
<1>7. QED BY <1>4, <1>5, <1>6 DEF Raise

\* A request that moves on to another point with its local variables unchanged.
LEMMA GotoEffect ==
  ASSUME TypeOK, NEW w \in Workers, NEW pc, Goto(w, pc)
  PROVE  /\ worker'[w].pc = pc /\ worker'[w].job = worker[w].job
         /\ worker'[w].order = worker[w].order /\ worker'[w].key = worker[w].key
         /\ worker'[w].payment = worker[w].payment /\ worker'[w].row = worker[w].row
         /\ \A v \in Workers \ {w} : worker'[v] = worker[v]
BY DEF Goto, TypeOK, WorkerState

\* The steps of createPaymentIntent's request leave it knowing what it should.
LEMMA CreateMoves ==
  ASSUME IInv, TypeOK', Grows, NEW w \in Workers,
         \/ \E o \in Orders, k \in Keys, pr \in Providers : ClaimPaymentAttempt(w, o, k, pr)
         \/ \E p \in Payments : CallProvider(w, p)
         \/ UpdateOrderProcessing(w) \/ ProviderCallFails(w) \/ PersistProviderPayment(w)
         \/ AttachProviderPaymentToOrder(w) \/ MarkAttemptFailed(w)
  PROVE  WorkerInv(worker[w])'
<1> USE DEF At
<1>0. TypeOK
  BY DEF IInv
<1>1. PICK u \in WorkerState : u = worker[w] /\ WorkerInv(u)
  BY DEF IInv, TypeOK
<1>2. WorkerInv(u)'
  BY <1>1, KnowledgeStays
<1> DEFINE v == worker'[w]
<1>3. ASSUME NEW o \in Orders, NEW k \in Keys, NEW pr \in Providers,
             ClaimPaymentAttempt(w, o, k, pr)
      PROVE  WorkerInv(worker[w])'
  <2>1. v.pc \in {"claim", "call"} /\ v.job = "create" /\ v.order = o /\ v.key = k
    BY <1>0, <1>3 DEF ClaimPaymentAttempt, TypeOK, Idle
  <2>2. attempt'[k].order = o
    BY <1>0, <1>3 DEF ClaimPaymentAttempt, ClaimsRow, TypeOK, NoAttempt
  <2>3. QED BY <2>1, <2>2
            DEF WorkerInv, CreateInv, ConfirmInv, WebhookInv, ConfirmPc, WebhookPc
<1>4. ASSUME NEW p \in Payments, CallProvider(w, p)
      PROVE  WorkerInv(worker[w])'
  <2>1. /\ v.pc \in {"catch", "persist"} /\ v.job = u.job /\ v.payment = p
        /\ v.order = u.order /\ v.key = u.key
    BY <1>0, <1>1, <1>4 DEF CallProvider, TypeOK, WorkerState
  <2>2. u.pc = "call" /\ u.job = "create" /\ u.order \in Orders /\ u.key \in Keys
    BY <1>1, <1>4 DEF CallProvider, WorkerInv, CreateInv
  <2>3. payment'[p].state # "none" /\ payment'[p].order = u.order
    <3>1. u.key \in Keys /\ ProviderCreates(w, p) /\ attempt[u.key].order = u.order
      BY <1>1, <1>4, <2>2 DEF CallProvider, WorkerInv, CreateInv
    <3>2. CASE UNCHANGED payment /\ Made(p) /\ payment[p].key = u.key
      BY <3>1, <3>2 DEF IInv, PaymentInv, Made
    <3>3. CASE \E s \in {"processing", "succeeded", "failed"} :
                 payment' = [payment EXCEPT ![p] =
                               [state |-> s, reply |-> s, provider |-> attempt[u.key].provider,
                                order |-> u.order, key |-> u.key]]
      BY <1>0, <3>3 DEF TypeOK
    <3>4. QED BY <1>1, <1>4, <3>1, <3>2, <3>3, ProviderCreatesEffect DEF CallProvider
  <2>4. attempt'[u.key].order = u.order
    BY <1>2, <2>2 DEF WorkerInv, CreateInv
  <2>5. QED BY <2>1, <2>2, <2>3, <2>4
            DEF WorkerInv, CreateInv, ConfirmInv, WebhookInv, ConfirmPc, WebhookPc, Made
<1>5. CASE ProviderCallFails(w)
  BY <1>5, EndInv DEF ProviderCallFails
<1>6. CASE PersistProviderPayment(w)
  <2>1. /\ v.pc = "attach" /\ v.job = u.job /\ v.payment = u.payment
        /\ v.order = u.order /\ v.key = u.key
    BY <1>0, <1>1, <1>6, GotoEffect DEF PersistProviderPayment
  <2>2. QED BY <1>1, <1>2, <1>6, <2>1
            DEF PersistProviderPayment, WorkerInv, CreateInv, ConfirmInv, WebhookInv, ConfirmPc,
                WebhookPc, Made
<1>7. CASE AttachProviderPaymentToOrder(w)
  <2>0. u.pc = "attach" /\ u.payment \in Payments /\ Made(u.payment)
    BY <1>1, <1>7 DEF AttachProviderPaymentToOrder, WorkerInv, CreateInv
  <2>1. CASE Finish(w)
    BY <2>1, EndInv
  <2>2. CASE payment[u.payment].reply = "succeeded" /\ Goto(w, "load")
    <3>1. /\ v.pc = "load" /\ v.job = u.job /\ v.payment = u.payment /\ v.key = u.key
      BY <1>0, <1>1, <2>2, GotoEffect
    <3>2. payment[u.payment].state = "succeeded"
      BY <2>0, <2>2 DEF IInv, PaymentInv
    <3>3. payment'[u.payment].state = "succeeded"
      BY <2>0, <3>2 DEF Grows, Made
    <3>4. QED BY <1>1, <1>2, <2>0, <3>1, <3>3
              DEF WorkerInv, CreateInv, ConfirmInv, WebhookInv, ConfirmPc, WebhookPc, Made,
                  Captured, PaidFor
  <2>3. CASE payment[u.payment].reply = "failed" /\ Goto(w, "markFailed")
    <3>1. /\ v.pc = "markFailed" /\ v.job = u.job /\ v.payment = u.payment
          /\ v.order = u.order /\ v.key = u.key
      BY <1>0, <1>1, <2>3, GotoEffect
    <3>2. payment'[u.payment].state = "failed"
      BY <2>0, <2>3 DEF IInv, PaymentInv, Grows
    <3>3. QED BY <1>1, <1>2, <2>0, <3>1, <3>2
              DEF WorkerInv, CreateInv, ConfirmInv, WebhookInv, ConfirmPc, WebhookPc, Made
  <2>4. QED BY <1>1, <1>7, <2>1, <2>2, <2>3 DEF AttachProviderPaymentToOrder
<1>8. CASE MarkAttemptFailed(w)
  <2>1. CASE Finish(w)
    BY <2>1, EndInv
  <2>2. CASE u.pc = "markFailed" /\ Goto(w, "readFailed")
    <3>1. /\ v.pc = "readFailed" /\ v.job = u.job /\ v.payment = u.payment
          /\ v.order = u.order /\ v.key = u.key
      BY <1>0, <1>1, <2>2, GotoEffect
    <3>2. QED BY <1>1, <1>2, <2>2, <3>1
              DEF WorkerInv, CreateInv, ConfirmInv, WebhookInv, ConfirmPc, WebhookPc, Made
  <2>3. QED BY <1>1, <1>8, <2>1, <2>2 DEF MarkAttemptFailed
<1>9. CASE UpdateOrderProcessing(w)
  <2>1. CASE Finish(w)
    BY <2>1, EndInv
  <2>2. CASE u.pc = "claim" /\ Goto(w, "call")
    <3>1. /\ v.pc = "call" /\ v.job = u.job /\ v.order = u.order /\ v.key = u.key
      BY <1>0, <1>1, <2>2, GotoEffect
    <3>2. QED BY <1>2, <2>2, <3>1
              DEF WorkerInv, CreateInv, ConfirmInv, WebhookInv, ConfirmPc, WebhookPc
  <2>3. QED BY <1>1, <1>9, <2>1, <2>2 DEF UpdateOrderProcessing
<1>10. QED BY <1>3, <1>4, <1>5, <1>6, <1>7, <1>8, <1>9

\* So do the steps of confirmPayment and of updateOrderStatus.
LEMMA ConfirmMoves ==
  ASSUME IInv, TypeOK', Grows, NEW w \in Workers,
         \/ ReadOrderStatus(w) \/ WriteOrderStatus(w) \/ LoadAttempt(w) \/ FindTransaction(w)
         \/ MarkAttemptSucceeded(w) \/ BeginConfirmation(w) \/ CommitConfirmation(w)
         \/ CreateSuccessfulTransaction(w) \/ StoreMac(w) \/ StoreReceipt(w) \/ SigningFails(w)
  PROVE  WorkerInv(worker[w])'
<1> USE DEF At
<1>0. TypeOK
  BY DEF IInv
<1>1. PICK u \in WorkerState : u = worker[w] /\ WorkerInv(u)
  BY DEF IInv, TypeOK
<1>2. WorkerInv(u)'
  BY <1>1, KnowledgeStays
<1> DEFINE v == worker'[w]
<1>3. CASE Finish(w) \/ Raise(w)
  BY <1>3, EndInv
\* A step to pc within confirmPayment or updateOrderStatus, which keeps what the
\* request knows and needs to know no more than before.
<1>4. ASSUME NEW pc, Goto(w, pc),
             \/ u.pc = "readFailed" /\ pc = "writeFailed"
             \/ u.pc = "readPaid" /\ pc = "writePaid"
             \/ u.pc = "writePaid" /\ pc = "markSucceeded"
             \/ u.pc = "markSucceeded" /\ pc = "mac"
             \/ u.pc = "txnRead" /\ pc = "txnCommit"
             \/ u.pc = "txnCommit" /\ pc = "insertTx"
      PROVE  WorkerInv(worker[w])'
  <2>1. /\ v.pc = pc /\ v.job = u.job /\ v.payment = u.payment /\ v.row = u.row
        /\ v.order = u.order /\ v.key = u.key
    BY <1>0, <1>1, <1>4, GotoEffect
  <2>2. CreateInv(worker[w])' /\ WebhookInv(worker[w])'
    BY <1>2, <1>4, <2>1 DEF WorkerInv, CreateInv, WebhookInv, WebhookPc, Made
  <2>3. ConfirmInv(worker[w])'
    BY <1>2, <1>4, <2>1
       DEF WorkerInv, ConfirmInv, ConfirmPc, Made, Recorded, Stripe, Captured
  <2>4. QED BY <2>2, <2>3 DEF WorkerInv
<1>5. CASE ReadOrderStatus(w)
  BY <1>1, <1>3, <1>4, <1>5 DEF ReadOrderStatus
<1>6. CASE WriteOrderStatus(w)
  <2>1. CASE u.pc = "writeFailed" /\ u.job = "webhook" /\ Goto(w, "markProcessed")
    <3>1. /\ v.pc = "markProcessed" /\ v.job = "webhook" /\ v.payment = u.payment
      BY <1>0, <1>1, <2>1, GotoEffect
    <3>2. /\ u.payment \in Payments /\ HasEvent(u.payment)'
          /\ payment'[u.payment].state = "failed"
      BY <1>2, <2>1 DEF WorkerInv, CreateInv, WebhookInv
    <3>3. QED BY <3>1, <3>2
              DEF WorkerInv, CreateInv, ConfirmInv, WebhookInv, ConfirmPc, WebhookPc, HasEvent,
                  Captured
  <2>2. QED BY <1>1, <1>3, <1>4, <1>6, <2>1 DEF WriteOrderStatus
<1>7. CASE LoadAttempt(w) /\ ~Raise(w)
  <2>1. PICK k \in Keys :
          /\ attempt[k].payment = u.payment /\ u.pc = "load"
          /\ worker' = [worker EXCEPT
                ![w].pc = "findTx", ![w].key = k,
                ![w].order = attempt[k].order,
                ![w].seen = order[attempt[k].order].status]
    BY <1>1, <1>7 DEF LoadAttempt
  <2>2. /\ v.pc = "findTx" /\ v.job = u.job /\ v.payment = u.payment
        /\ v.key = k /\ v.order = attempt[k].order
    BY <1>0, <1>1, <2>1 DEF TypeOK, WorkerState
  <2>3. u.payment \in Payments /\ Made(u.payment)
    BY <1>1, <2>1 DEF WorkerInv, ConfirmInv, ConfirmPc
  <2>4. attempt[k].order \in Orders /\ payment[u.payment].order = attempt[k].order
    BY <2>1, <2>3, ConstantsAssumption DEF IInv, AttemptInv, PaymentInv
  <2>5. attempt'[k].order = attempt[k].order /\ payment'[u.payment].order = attempt[k].order
    BY <2>3, <2>4 DEF Grows
  <2>6. CreateInv(worker[w])' /\ WebhookInv(worker[w])'
    BY <1>2, <2>1, <2>2, <2>4, <2>5
       DEF WorkerInv, CreateInv, WebhookInv, WebhookPc, HasEvent
  <2>7. ConfirmInv(worker[w])'
    BY <1>2, <2>1, <2>2, <2>4, <2>5
       DEF WorkerInv, ConfirmInv, ConfirmPc, Made, Stripe, Captured
  <2>8. QED BY <2>6, <2>7 DEF WorkerInv
<1>8. CASE FindTransaction(w)
  <2>1. /\ u.pc = "findTx" /\ v.pc \in {"txnRead", "markSucceeded", "readPaid"}
        /\ v.job = u.job /\ v.payment = u.payment /\ v.key = u.key /\ v.order = u.order
        /\ v.row = tx'[u.payment] /\ (v.pc # "txnRead" => tx'[u.payment] # NoTx)
    BY <1>0, <1>1, <1>8 DEF FindTransaction, tables, TypeOK, WorkerState
  <2>2. CreateInv(worker[w])' /\ WebhookInv(worker[w])'
    BY <1>2, <2>1 DEF WorkerInv, CreateInv, WebhookInv, WebhookPc, HasEvent
  <2>3. ConfirmInv(worker[w])'
    BY <1>2, <2>1 DEF WorkerInv, ConfirmInv, ConfirmPc, Made, Recorded, Stripe, Captured
  <2>4. QED BY <2>2, <2>3 DEF WorkerInv
<1>9. CASE CreateSuccessfulTransaction(w)
  <2>0. u.pc = "insertTx" /\ u.payment \in Payments /\ u.order \in Orders
    BY <1>1, <1>9 DEF CreateSuccessfulTransaction, WorkerInv, ConfirmInv, ConfirmPc
  <2>1. /\ v.pc = "mac" /\ v.job = u.job /\ v.payment = u.payment /\ v.key = u.key
        /\ v.order = u.order /\ v.row = InsertedRow(w) /\ tx'[u.payment] = InsertedRow(w)
    BY <1>0, <1>1, <1>9, <2>0 DEF CreateSuccessfulTransaction, TypeOK, WorkerState
  <2>2. InsertedRow(w) # NoTx
    <3>1. \/ InsertedRow(w).order # None
          \/ InsertedRow(w) = tx[u.payment] /\ tx[u.payment] # NoTx
      BY <1>1, <2>0, ConstantsAssumption DEF InsertedRow, NoTx
    <3>2. NoTx.order = None
      BY DEF NoTx
    <3>3. QED BY <3>1, <3>2
  <2>3. CreateInv(worker[w])' /\ WebhookInv(worker[w])'
    BY <1>2, <2>0, <2>1 DEF WorkerInv, CreateInv, WebhookInv, WebhookPc, HasEvent
  <2>4. ConfirmInv(worker[w])'
    BY <1>2, <2>0, <2>1, <2>2 DEF WorkerInv, ConfirmInv, ConfirmPc, Made, Recorded, Stripe, Captured
  <2>5. QED BY <2>3, <2>4 DEF WorkerInv
<1>10. CASE StoreMac(w)
  <2>0. /\ u.pc = "mac" /\ u.payment \in Payments /\ (u.row.mac => tx[u.payment].mac)
    BY <1>1, <1>10 DEF StoreMac, WorkerInv, ConfirmInv, ConfirmPc
  <2>1. /\ v.pc = "sign" /\ v.job = u.job /\ v.payment = u.payment /\ v.key = u.key
        /\ v.order = u.order /\ v.row = u.row
    BY <1>0, <1>1, <1>10, GotoEffect DEF StoreMac
  <2>2. tx'[u.payment].mac
    BY <1>0, <1>1, <1>10, <2>0 DEF StoreMac, TypeOK, TxRow
  <2>3. CreateInv(worker[w])' /\ WebhookInv(worker[w])'
    BY <1>2, <2>0, <2>1 DEF WorkerInv, CreateInv, WebhookInv, WebhookPc, HasEvent
  <2>4. ConfirmInv(worker[w])'
    BY <1>2, <2>0, <2>1, <2>2 DEF WorkerInv, ConfirmInv, ConfirmPc, Made, Recorded, Stripe, Captured
  <2>5. QED BY <2>3, <2>4 DEF WorkerInv
<1>11. CASE StoreReceipt(w) /\ u.job = "webhook"
  <2>0. /\ u.pc = "sign" /\ u.payment \in Payments /\ tx[u.payment].mac
        /\ Recorded(u.payment) /\ (u.row.receipt => tx[u.payment].receipt)
    BY <1>1, <1>11 DEF StoreReceipt, WorkerInv, ConfirmInv, ConfirmPc
  <2>1. v.pc = "markProcessed" /\ v.job = u.job /\ v.payment = u.payment
    BY <1>0, <1>1, <1>11, GotoEffect DEF StoreReceipt, Confirmed
  <2>2. Sealed(u.payment)'
    <3>1. tx'[u.payment].receipt
      BY <1>0, <1>1, <1>11, <2>0 DEF StoreReceipt, TypeOK, TxRow
    <3>2. QED BY <2>0, <3>1 DEF Grows, Sealed, Recorded
  <2>3. HasEvent(u.payment)'
    BY <1>2, <1>11 DEF WorkerInv, WebhookInv
  <2>4. QED BY <1>11, <2>0, <2>1, <2>2, <2>3
            DEF WorkerInv, CreateInv, ConfirmInv, WebhookInv, ConfirmPc, WebhookPc, HasEvent,
                Sealed, Recorded
<1>12. QED
  BY <1>1, <1>3, <1>4, <1>5, <1>6, <1>7, <1>8, <1>9, <1>10, <1>11
     DEF MarkAttemptSucceeded, BeginConfirmation, CommitConfirmation, StoreReceipt, Confirmed,
         SigningFails

\* So do the steps of the webhook's and the sync request's own code.
LEMMA WebhookMoves ==
  ASSUME IInv, TypeOK', Grows, NEW w \in Workers,
         \/ \E p \in Payments : ReceiveEvent(w, p) \/ SyncPayment(w, p)
         \/ FindOrderOfFailedPayment(w) \/ MarkEvent(w)
  PROVE  WorkerInv(worker[w])'
<1> USE DEF At
<1>0. TypeOK
  BY DEF IInv
<1>1. PICK u \in WorkerState : u = worker[w] /\ WorkerInv(u)
  BY DEF IInv, TypeOK
<1>2. WorkerInv(u)'
  BY <1>1, KnowledgeStays
<1> DEFINE v == worker'[w]
<1>3. ASSUME NEW p \in Payments, ReceiveEvent(w, p)
      PROVE  WorkerInv(worker[w])'
  <2>1. /\ v.job = "webhook" /\ v.payment = p /\ UNCHANGED payment
        /\ v.pc = IF payment[p].state = "succeeded" THEN "load" ELSE "findOrder"
    BY <1>0, <1>3 DEF ReceiveEvent, TypeOK, Idle
  <2>2. HasEvent(p) /\ Made(p)
    BY <1>3 DEF ReceiveEvent, HasEvent, Made
  <2>3. ConfirmInv(worker[w])'
    BY <2>1, <2>2 DEF ConfirmInv, ConfirmPc, Made, Captured, PaidFor
  <2>4. CreateInv(worker[w])' /\ WebhookInv(worker[w])'
    BY <2>1, <2>2 DEF CreateInv, WebhookInv, WebhookPc, HasEvent
  <2>5. QED BY <2>3, <2>4 DEF WorkerInv
<1>4. ASSUME NEW p \in Payments, SyncPayment(w, p)
      PROVE  WorkerInv(worker[w])'
  <2>1. v.job = "sync" /\ v.payment = p /\ UNCHANGED payment /\ v.pc = "load"
    BY <1>0, <1>4 DEF SyncPayment, TypeOK, Idle
  <2>2. PICK k \in Keys : attempt[k].payment = p /\ ReportedSucceeded(p, attempt[k].order)
    BY <1>4 DEF SyncPayment
  <2>3. /\ Made(p) /\ payment[p].order = attempt[k].order
        /\ attempt[k].order \in Orders
    BY <2>2, ConstantsAssumption DEF IInv, AttemptInv, NoAttempt
  <2>4. (Stripe(p) => Captured(p)) /\ PaidFor(payment[p].order)
    BY <2>2, <2>3 DEF ReportedSucceeded, Stripe, Captured, PaidFor, IInv, OrderInv
  <2>5. CreateInv(worker[w])' /\ WebhookInv(worker[w])'
    BY <2>1 DEF CreateInv, WebhookInv, WebhookPc
  <2>6. ConfirmInv(worker[w])'
    BY <2>1, <2>3, <2>4 DEF ConfirmInv, ConfirmPc, Made, Stripe, Captured, PaidFor
  <2>7. QED BY <2>5, <2>6 DEF WorkerInv
<1>5. CASE FindOrderOfFailedPayment(w)
  <2>0. /\ u.pc = "findOrder" /\ u.job = "webhook" /\ u.payment \in Payments
        /\ HasEvent(u.payment)' /\ payment'[u.payment].state = "failed"
    BY <1>1, <1>2, <1>5 DEF FindOrderOfFailedPayment, WorkerInv, WebhookInv, WebhookPc
  <2>1. ASSUME Goto(w, "markProcessed")
        PROVE  WorkerInv(worker[w])'
    <3>1. v.pc = "markProcessed" /\ v.job = u.job /\ v.payment = u.payment
      BY <1>0, <1>1, <2>1, GotoEffect
    <3>2. QED BY <2>0, <3>1
              DEF WorkerInv, CreateInv, ConfirmInv, WebhookInv, ConfirmPc, WebhookPc, HasEvent,
                  Captured
  <2>2. ASSUME NEW o \in Orders, order[o].intent = u.payment,
               worker' = [worker EXCEPT ![w].pc = "readFailed", ![w].order = o]
        PROVE  WorkerInv(worker[w])'
    <3>1. /\ v.pc = "readFailed" /\ v.job = u.job /\ v.payment = u.payment
          /\ v.order = o
      BY <1>0, <1>1, <2>2 DEF TypeOK, WorkerState
    <3>2. Made(u.payment) /\ payment[u.payment].order = o
      BY <2>0, <2>2, ConstantsAssumption DEF IInv, OrderInv
    <3>3. payment'[u.payment].order = o
      BY <2>0, <3>2 DEF Grows
    <3>4. QED BY <2>0, <3>1, <3>3
              DEF WorkerInv, CreateInv, ConfirmInv, WebhookInv, ConfirmPc, WebhookPc, HasEvent,
                  Made
  <2>3. QED BY <1>1, <1>5, <2>1, <2>2 DEF FindOrderOfFailedPayment
<1>6. CASE MarkEvent(w)
  BY <1>6, EndInv DEF MarkEvent
<1>7. QED BY <1>3, <1>4, <1>5, <1>6

\* A step is one request's, or the provider's, or a crash.
LEMMA WorkerChange ==
  ASSUME TypeOK, [Next]_vars
  PROVE  \/ UNCHANGED worker
         \/ worker' = [w \in Workers |-> Idle]
         \/ \E w \in Workers :
              /\ \A v \in Workers \ {w} : worker'[v] = worker[v]
              /\ \/ \E o \in Orders, k \in Keys, pr \in Providers :
                      ClaimPaymentAttempt(w, o, k, pr)
                 \/ \E p \in Payments : ReceiveEvent(w, p) \/ SyncPayment(w, p)
                 \/ Step(w) \/ StatementFails(w)
<1>1. ASSUME NEW w \in Workers, Finish(w) \/ Raise(w) \/ \E pc : Goto(w, pc)
      PROVE  \A v \in Workers \ {w} : worker'[v] = worker[v]
  BY <1>1 DEF Finish, Raise, Goto, TypeOK
<1>2. ASSUME NEW w \in Workers, Step(w)
      PROVE  \A v \in Workers \ {w} : worker'[v] = worker[v]
  <2>1. CASE \/ \E p \in Payments : CallProvider(w, p)
             \/ LoadAttempt(w) \/ FindTransaction(w) \/ CreateSuccessfulTransaction(w)
             \/ FindOrderOfFailedPayment(w)
    BY <1>1, <2>1 DEF CallProvider, LoadAttempt, FindTransaction,
                      CreateSuccessfulTransaction, FindOrderOfFailedPayment, TypeOK
  <2>2. CASE ~ \/ \E p \in Payments : CallProvider(w, p)
               \/ LoadAttempt(w) \/ FindTransaction(w) \/ CreateSuccessfulTransaction(w)
               \/ FindOrderOfFailedPayment(w)
    BY <1>1, <1>2, <2>2
       DEF Step, UpdateOrderProcessing, ProviderCallFails, PersistProviderPayment, AttachProviderPaymentToOrder,
           MarkAttemptFailed, ReadOrderStatus, WriteOrderStatus, MarkAttemptSucceeded,
           BeginConfirmation, CommitConfirmation, StoreMac, StoreReceipt, Confirmed,
           SigningFails, MarkEvent
  <2>3. QED BY <2>1, <2>2
<1>3. ASSUME NEW w \in Workers,
             \/ \E o \in Orders, k \in Keys, pr \in Providers : ClaimPaymentAttempt(w, o, k, pr)
             \/ \E p \in Payments : ReceiveEvent(w, p) \/ SyncPayment(w, p)
      PROVE  \A v \in Workers \ {w} : worker'[v] = worker[v]
  BY <1>3 DEF ClaimPaymentAttempt, ReceiveEvent, SyncPayment, TypeOK
<1>4. ASSUME NEW p \in Payments, ProviderSettles(p)
      PROVE  UNCHANGED worker
  BY <1>4 DEF ProviderSettles
<1>5. ASSUME NEW w \in Workers, StatementFails(w)
      PROVE  \A v \in Workers \ {w} : worker'[v] = worker[v]
  BY <1>1, <1>5 DEF StatementFails
<1>6. CASE Crash
  BY <1>6 DEF Crash
<1>7. CASE UNCHANGED vars
  BY <1>7 DEF vars
<1>8. QED BY <1>2, <1>3, <1>4, <1>5, <1>6, <1>7 DEF Next

LEMMA WorkerStep == IInv /\ [Next]_vars => (\A w \in Workers : WorkerInv(worker[w]))'
<1> SUFFICES ASSUME IInv, [Next]_vars, NEW v \in Workers
             PROVE  WorkerInv(worker[v])'
  OBVIOUS
<1>0. TypeOK /\ TypeOK' /\ Grows
  BY TypeStep, GrowsStep DEF IInv
<1>1. CASE worker'[v] = worker[v]
  <2>1. PICK u \in WorkerState : u = worker[v] /\ WorkerInv(u)
    BY DEF IInv, TypeOK
  <2>2. WorkerInv(u)'
    BY <1>0, <2>1, KnowledgeStays
  <2>3. QED BY <1>1, <2>1, <2>2
<1>2. CASE worker' = [w \in Workers |-> Idle]
  BY <1>2 DEF WorkerInv, CreateInv, ConfirmInv, WebhookInv, Idle, CreatePc, ConfirmPc, WebhookPc
<1>3. ASSUME \/ \E o \in Orders, k \in Keys, pr \in Providers : ClaimPaymentAttempt(v, o, k, pr)
             \/ \E p \in Payments : ReceiveEvent(v, p) \/ SyncPayment(v, p)
             \/ Step(v) \/ StatementFails(v)
      PROVE  WorkerInv(worker[v])'
  BY <1>0, <1>3, EndInv, CreateMoves, ConfirmMoves, WebhookMoves DEF Step, StatementFails
<1>4. QED BY <1>0, <1>1, <1>2, <1>3, WorkerChange

-----------------------------------------------------------------------------
(* The theorems *)

LEMMA InitInv == Init => IInv
<1> SUFFICES ASSUME Init PROVE IInv
  OBVIOUS
<1>1. TypeOK
  BY InitType
<1>2. OrderInv /\ AttemptInv /\ TxInv /\ EventInv
  BY DEF Init, OrderInv, AttemptInv, TxInv, EventInv, NoAttempt, Recorded
<1>3. PaymentInv
  BY DEF Init, PaymentInv, Made, NoPayment
<1>4. \A w \in Workers : WorkerInv(worker[w])
  BY DEF Init, WorkerInv, CreateInv, ConfirmInv, WebhookInv, Idle, CreatePc, ConfirmPc, WebhookPc
<1>5. QED BY <1>1, <1>2, <1>3, <1>4 DEF IInv

\* The inductive invariant holds of every state the backend can reach: the
\* tables agree with the provider, and every request in flight with both.
THEOREM Invariant == Spec => []IInv
<1>1. IInv /\ [Next]_vars => IInv'
  BY TypeStep, OrderStep, AttemptStep, PaymentStep, TxStep, EventStep, WorkerStep DEF IInv
<1>2. QED BY InitInv, <1>1, PTL DEF Spec

\* Every row and every local variable keeps to its columns and values.
THEOREM TypeCorrect == Spec => []TypeOK
<1>1. IInv => TypeOK
  BY DEF IInv
<1>2. QED BY Invariant, <1>1, PTL

\* An order is paid only if the provider captured a payment made for it.
THEOREM NoUnpaidOrderIsPaid == Spec => []PaidIsCaptured
<1>1. IInv => PaidIsCaptured
  BY DEF IInv, OrderInv, PaidIsCaptured, PaidFor
<1>2. QED BY Invariant, <1>1, PTL

\* An order is payment_failed only if a payment made for it was declined.
THEOREM NoOrderFailsByAccident == Spec => []FailedIsDeclined
<1>1. IInv => FailedIsDeclined
  BY DEF IInv, OrderInv, FailedIsDeclined, DeclinedFor
<1>2. QED BY Invariant, <1>1, PTL

\* A transaction of a Stripe payment stands for captured money.
THEOREM RecordsAreTrue == Spec => []RecordedIsCaptured
<1>1. IInv => RecordedIsCaptured
  BY DEF IInv, TxInv, RecordedIsCaptured
<1>2. QED BY Invariant, <1>1, PTL

\* A transaction is booked to the order its payment was made for, whatever keys
\* clients reuse and whatever sync has to go by.
THEOREM RecordsAreBookedRight == Spec => []RecordedForItsOrder
<1>1. IInv => RecordedForItsOrder
  BY DEF IInv, TxInv, RecordedForItsOrder
<1>2. QED BY Invariant, <1>1, PTL

\* An event is answered as a duplicate only after its payment's transaction is
\* stored with MAC and receipt.
THEOREM NoEventIsLost == Spec => []ProcessedIsSealed
<1>1. IInv => ProcessedIsSealed
  BY DEF IInv, EventInv, ProcessedIsSealed
<1>2. QED BY Invariant, <1>1, PTL

\* A transaction keeps its order, MAC and receipt in every step.
THEOREM RecordsLast == Spec => RecordsAreKept
<1>1. IInv /\ [Next]_vars =>
        [\A p \in Payments : Recorded(p) =>
           /\ tx'[p].order = tx[p].order
           /\ tx[p].mac => tx'[p].mac
           /\ tx[p].receipt => tx'[p].receipt]_vars
  BY GrowsStep DEF Grows
<1>2. QED BY Invariant, <1>1, PTL DEF Spec, RecordsAreKept
=============================================================================
