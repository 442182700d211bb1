---------------------- MODULE PaymentRefinementProofs ----------------------
(***************************************************************************)
(* PaymentFlow implements PaymentLedger for all values of the constants:   *)
(* a step of the backend touches one of the provider, the transactions and *)
(* the event ledger, and that change is one step of PaymentLedger.         *)
(***************************************************************************)
EXTENDS PaymentFlowProofs

LEMMA StepKinds ==
  ASSUME IInv, [Next]_vars
  PROVE  \/ UNCHANGED <<payment, tx, event>>
         \/ /\ UNCHANGED <<tx, event>>
            /\ \E p \in Payments : \/ ProviderSettles(p)
                                   \/ \E w \in Workers : At(w, "call") /\ ProviderCreates(w, p)
         \/ /\ UNCHANGED <<payment, event>>
            /\ \E w \in Workers : \/ CreateSuccessfulTransaction(w)
                                  \/ StoreMac(w) \/ StoreReceipt(w)
         \/ /\ UNCHANGED <<payment, tx>>
            /\ \E w \in Workers : MarkEvent(w) \/ \E p \in Payments : ReceiveEvent(w, p)
<1>1. CASE Crash \/ UNCHANGED vars
  BY <1>1 DEF Crash, vars, tables
<1>2. ASSUME NEW p \in Payments, ProviderSettles(p)
      PROVE  UNCHANGED <<tx, event>>
  BY <1>2 DEF ProviderSettles, tables
<1>3. ASSUME NEW w \in Workers, Step(w)
      PROVE  \/ UNCHANGED <<payment, tx, event>>
             \/ /\ UNCHANGED <<tx, event>>
                /\ \E p \in Payments : At(w, "call") /\ ProviderCreates(w, p)
             \/ /\ UNCHANGED <<payment, event>>
                /\ CreateSuccessfulTransaction(w) \/ StoreMac(w) \/ StoreReceipt(w)
             \/ UNCHANGED <<payment, tx>> /\ MarkEvent(w)
  <2>1. CASE \/ \E p \in Payments : CallProvider(w, p)
             \/ ProviderCallFails(w)
    BY <2>1 DEF CallProvider, ProviderCallFails, tables
  <2>2. CASE CreateSuccessfulTransaction(w) \/ StoreMac(w) \/ StoreReceipt(w)
    BY <2>2 DEF CreateSuccessfulTransaction, StoreMac, StoreReceipt
  <2>3. CASE MarkEvent(w)
    BY <2>3 DEF MarkEvent
  <2>4. CASE \/ UpdateOrderProcessing(w) \/ PersistProviderPayment(w)
             \/ AttachProviderPaymentToOrder(w) \/ MarkAttemptFailed(w)
             \/ ReadOrderStatus(w) \/ WriteOrderStatus(w) \/ LoadAttempt(w)
             \/ FindTransaction(w) \/ MarkAttemptSucceeded(w) \/ BeginConfirmation(w)
             \/ CommitConfirmation(w) \/ SigningFails(w) \/ FindOrderOfFailedPayment(w)
    BY <2>4 DEF UpdateOrderProcessing, PersistProviderPayment, AttachProviderPaymentToOrder,
                MarkAttemptFailed, ReadOrderStatus, WriteOrderStatus, LoadAttempt,
                FindTransaction, MarkAttemptSucceeded, BeginConfirmation, CommitConfirmation,
                SigningFails, FindOrderOfFailedPayment, tables
  <2>5. QED BY <1>3, <2>1, <2>2, <2>3, <2>4 DEF Step
<1>4. ASSUME NEW w \in Workers,
             \/ \E o \in Orders, k \in Keys, pr \in Providers : ClaimPaymentAttempt(w, o, k, pr)
             \/ \E p \in Payments : SyncPayment(w, p)
             \/ StatementFails(w)
      PROVE  UNCHANGED <<payment, tx, event>>
  BY <1>4 DEF ClaimPaymentAttempt, SyncPayment, StatementFails, tables
<1>5. ASSUME NEW w \in Workers, NEW p \in Payments, ReceiveEvent(w, p)
      PROVE  UNCHANGED <<payment, tx>>
  BY <1>5 DEF ReceiveEvent
<1>6. QED BY <1>1, <1>2, <1>3, <1>4, <1>5 DEF Next

\* The provider moves: at most one payment is captured, nothing else changes.
LEMMA ProviderMoves ==
  ASSUME IInv, [Next]_vars, UNCHANGED <<tx, event>>, NEW p \in Payments,
         \/ ProviderSettles(p)
         \/ \E w \in Workers : At(w, "call") /\ ProviderCreates(w, p)
  PROVE  Ledger!Capture(p) \/ UNCHANGED Ledger!ledgerVars
<1>0. TypeOK /\ TypeOK' /\ Grows
  BY TypeStep, GrowsStep DEF IInv
<1>1. \A q \in Payments \ {p} : payment'[q] = payment[q]
  <2>1. CASE ProviderSettles(p)
    BY <1>0, <2>1 DEF ProviderSettles, TypeOK
  <2>2. ASSUME NEW w \in Workers, At(w, "call"), ProviderCreates(w, p)
        PROVE  \A q \in Payments \ {p} : payment'[q] = payment[q]
    BY <1>0, <2>2, ProviderCreatesEffect DEF TypeOK
  <2>3. QED BY <2>1, <2>2
<1>2. ASSUME NEW q \in Payments
      PROVE  /\ Made(q) => /\ payment'[q].provider = payment[q].provider
                           /\ Captured(q) => Captured(q)'
             /\ ~Made(q) => /\ ~Stripe(q) /\ ~Captured(q) /\ ~Recorded(q)
                            /\ event[q] # "processed"
  <2>1. Made(q) => payment'[q].provider = payment[q].provider /\ (Captured(q) => Captured(q)')
    BY <1>0 DEF Grows, Captured
  <2>2. ~Made(q) => payment[q] = NoPayment
    BY DEF IInv, PaymentInv
  <2>3. NoPayment.provider = None /\ NoPayment.state = "none" /\ NoPayment.order = None
    BY DEF NoPayment
  <2>4. ~Made(q) => ~Stripe(q)
    BY <2>2, <2>3, ConstantsAssumption DEF Stripe
  <2>5. ~Made(q) => ~Captured(q) /\ ~Recorded(q) /\ event[q] # "processed"
    BY <2>2, <2>3, ConstantsAssumption
       DEF Captured, HasEvent, IInv, TxInv, EventInv
  <2>6. QED BY <2>1, <2>4, <2>5
<1>3. ASSUME NEW q \in Payments, Made(q), event[q] = "processed"
      PROVE  Captured(q)' => Captured(q)
  BY <1>0, <1>3 DEF Grows, IInv, EventInv, HasEvent, Captured
<1>4. StripeRecorded' = StripeRecorded
  BY <1>2 DEF StripeRecorded, Stripe, Recorded
<1>5. StripeSealed' = StripeSealed
  BY <1>2 DEF StripeSealed, Stripe, Sealed, Recorded
<1>6. StripeAcknowledged' = StripeAcknowledged
  BY <1>2, <1>3 DEF StripeAcknowledged, StripeCaptured, Stripe
<1>7. StripeCaptured' = StripeCaptured \/ StripeCaptured' = StripeCaptured \cup {p}
  BY <1>1, <1>2 DEF StripeCaptured, Stripe, Captured
<1>8. QED BY <1>4, <1>5, <1>6, <1>7 DEF Ledger!Capture, Ledger!ledgerVars

\* A transaction is written: it is recorded, or sealed, or neither.
LEMMA RecordMoves ==
  ASSUME IInv, [Next]_vars, UNCHANGED <<payment, event>>, NEW w \in Workers,
         CreateSuccessfulTransaction(w) \/ StoreMac(w) \/ StoreReceipt(w)
  PROVE  LET p == worker[w].payment
         IN /\ p \in Payments
            /\ Ledger!Record(p) \/ Ledger!Seal(p) \/ UNCHANGED Ledger!ledgerVars
<1> DEFINE p == worker[w].payment
<1>0. TypeOK /\ TypeOK' /\ Grows
  BY TypeStep, GrowsStep DEF IInv
<1>1. p \in Payments /\ (Stripe(p) => Captured(p))
  BY DEF CreateSuccessfulTransaction, StoreMac, StoreReceipt, At, IInv, WorkerInv, ConfirmInv,
         ConfirmPc
<1>2. \A q \in Payments \ {p} : tx'[q] = tx[q]
  BY <1>0 DEF CreateSuccessfulTransaction, StoreMac, StoreReceipt, TypeOK
<1>3. StripeCaptured' = StripeCaptured /\ StripeAcknowledged' = StripeAcknowledged
  BY DEF StripeCaptured, StripeAcknowledged, Stripe, Captured
<1>4. CASE CreateSuccessfulTransaction(w)
  <2>1. tx'[p] = InsertedRow(w)
    BY <1>0, <1>1, <1>4 DEF CreateSuccessfulTransaction, TypeOK
  <2>2. CASE Recorded(p)
    <3>1. tx' = tx
      BY <1>0, <1>1, <1>4, <2>1, <2>2
         DEF CreateSuccessfulTransaction, InsertedRow, Recorded, TypeOK
    <3>2. QED BY <1>1, <1>3, <3>1
              DEF Ledger!ledgerVars, StripeRecorded, StripeSealed, Stripe, Recorded, Sealed
  <2>3. CASE ~Recorded(p)
    <3>1. tx'[p].mac = FALSE
      BY <2>1, <2>3 DEF InsertedRow, Recorded, NoTx
    <3>2. StripeSealed' = StripeSealed
      BY <1>2, <2>3, <3>1 DEF StripeSealed, Stripe, Sealed, Recorded
    <3>3. \/ StripeRecorded' = StripeRecorded
          \/ Stripe(p) /\ StripeRecorded' = StripeRecorded \cup {p}
      BY <1>1, <1>2, <2>3 DEF StripeRecorded, Stripe, Recorded
    <3>4. QED BY <1>1, <1>3, <3>2, <3>3
              DEF Ledger!Record, Ledger!ledgerVars, StripeCaptured
  <2>4. QED BY <1>1, <2>2, <2>3
<1>5. CASE StoreMac(w) \/ StoreReceipt(w)
  <2>1. Recorded(p)
    BY <1>5 DEF StoreMac, StoreReceipt, At, IInv, WorkerInv, ConfirmInv
  <2>2. StripeRecorded' = StripeRecorded
    BY <1>0, <1>2, <2>1 DEF Grows, StripeRecorded, Stripe, Recorded
  <2>3. \/ StripeSealed' = StripeSealed
        \/ Stripe(p) /\ StripeSealed' = StripeSealed \cup {p}
    BY <1>0, <1>1, <1>2 DEF Grows, StripeSealed, Stripe, Sealed, Recorded
  <2>4. QED BY <1>1, <1>3, <2>1, <2>2, <2>3 DEF Ledger!Seal, Ledger!ledgerVars, StripeRecorded
<1>6. QED BY <1>4, <1>5

\* The event ledger is written: an event is acknowledged, or reopened, or neither.
LEMMA EventMoves ==
  ASSUME IInv, [Next]_vars, UNCHANGED <<payment, tx>>, NEW w \in Workers, NEW p \in Payments,
         (MarkEvent(w) /\ worker[w].payment = p) \/ ReceiveEvent(w, p)
  PROVE  Ledger!Acknowledge(p) \/ Ledger!Reopen(p) \/ UNCHANGED Ledger!ledgerVars
<1>0. TypeOK /\ TypeOK' /\ EventInv'
  BY TypeStep, EventStep DEF IInv
<1>1. \A q \in Payments \ {p} : event'[q] = event[q]
  BY <1>0 DEF MarkEvent, ReceiveEvent, TypeOK
<1>2. /\ StripeCaptured' = StripeCaptured /\ StripeRecorded' = StripeRecorded
      /\ StripeSealed' = StripeSealed
  BY DEF StripeCaptured, StripeRecorded, StripeSealed, Stripe, Captured, Recorded, Sealed
<1>3. CASE p \in StripeAcknowledged'
  <2>1. p \in StripeSealed
    BY <1>0, <1>2, <1>3
       DEF StripeAcknowledged, StripeCaptured, StripeSealed, EventInv
  <2>2. StripeAcknowledged' = StripeAcknowledged \cup {p}
    BY <1>1, <1>2, <1>3 DEF StripeAcknowledged, StripeCaptured
  <2>3. QED BY <1>2, <2>1, <2>2 DEF Ledger!Acknowledge
<1>4. CASE p \notin StripeAcknowledged'
  <2>1. StripeAcknowledged' = StripeAcknowledged \ {p}
    BY <1>1, <1>2, <1>4 DEF StripeAcknowledged, StripeCaptured
  <2>2. QED BY <1>2, <2>1 DEF Ledger!Reopen
<1>5. QED BY <1>3, <1>4

\* No behaviour of the backend, however its requests, the provider, the event
\* deliveries and the faults interleave, does what PaymentLedger forbids: it
\* records captured money only, undoes no record, and acknowledges an event
\* only when its transaction is sealed.
THEOREM PaymentFlowImplementsLedger == Spec => ImplementsLedger
<1>1. Init => Ledger!LedgerInit
  BY DEF Init, Ledger!LedgerInit, StripeCaptured, StripeRecorded, StripeSealed,
         StripeAcknowledged, Captured, Recorded, Sealed, NoPayment
<1>2. IInv /\ [Next]_vars => [Ledger!LedgerNext]_(Ledger!ledgerVars)
  <2> SUFFICES ASSUME IInv, [Next]_vars
               PROVE  Ledger!LedgerNext \/ UNCHANGED Ledger!ledgerVars
    OBVIOUS
  <2>1. CASE UNCHANGED <<payment, tx, event>>
    BY <2>1 DEF Ledger!ledgerVars, StripeCaptured, StripeRecorded, StripeSealed,
                StripeAcknowledged, Stripe, Captured, Recorded, Sealed
  <2>2. ASSUME UNCHANGED <<tx, event>>, NEW p \in Payments,
               \/ ProviderSettles(p)
               \/ \E w \in Workers : At(w, "call") /\ ProviderCreates(w, p)
        PROVE  Ledger!LedgerNext \/ UNCHANGED Ledger!ledgerVars
    BY <2>2, ProviderMoves DEF Ledger!LedgerNext
  <2>3. ASSUME UNCHANGED <<payment, event>>, NEW w \in Workers,
               CreateSuccessfulTransaction(w) \/ StoreMac(w) \/ StoreReceipt(w)
        PROVE  Ledger!LedgerNext \/ UNCHANGED Ledger!ledgerVars
    BY <2>3, RecordMoves DEF Ledger!LedgerNext
  <2>4. ASSUME UNCHANGED <<payment, tx>>, NEW w \in Workers,
               MarkEvent(w) \/ \E p \in Payments : ReceiveEvent(w, p)
        PROVE  Ledger!LedgerNext \/ UNCHANGED Ledger!ledgerVars
    <3>1. MarkEvent(w) => worker[w].payment \in Payments
      BY DEF MarkEvent, IInv, WorkerInv, WebhookInv, WebhookPc
    <3>2. QED BY <2>4, <3>1, EventMoves DEF Ledger!LedgerNext
  <2>5. QED BY <2>1, <2>2, <2>3, <2>4, StepKinds
<1>3. QED BY <1>1, <1>2, Invariant, PTL DEF Spec, ImplementsLedger, Ledger!LedgerSpec

\* The order of the promise holds of every reachable state: acknowledged events
\* are of sealed transactions, transactions are of captured money.
THEOREM PromiseInOrder == Spec => []Ledger!LedgerOrder
<1> USE DEF Ledger!LedgerOrder
<1>1. Ledger!LedgerInit => Ledger!LedgerOrder
  BY DEF Ledger!LedgerInit
<1>2. Ledger!LedgerOrder /\ [Ledger!LedgerNext]_(Ledger!ledgerVars) => Ledger!LedgerOrder'
  BY DEF Ledger!LedgerNext, Ledger!ledgerVars, Ledger!Capture, Ledger!Record, Ledger!Seal,
         Ledger!Acknowledge, Ledger!Reopen
<1>3. QED
  BY <1>1, <1>2, PaymentFlowImplementsLedger, PTL DEF ImplementsLedger, Ledger!LedgerSpec
=============================================================================
