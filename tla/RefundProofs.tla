---------------------------- MODULE RefundProofs ----------------------------
(***************************************************************************)
(* RefundFlow is type-correct and safe for every set of orders,            *)
(* transactions, requests, keys and workers, every choice of providers and *)
(* any number of faults, and it implements RefundLedger.                   *)
(***************************************************************************)
EXTENDS RefundInvariants, TLAPS

Pcs == {"idle", "catch"} \cup RequestPc \cup RefundPc

LEMMA RowTypes == NoRefund \in RefundRow /\ NoRequest \in RequestRow /\ Idle \in WorkerState
BY DEF NoRefund, RefundRow, Amount, RefundStatus, NoRequest, RequestRow, RequestStatus,
       Idle, WorkerState

LEMMA KeyTypes == Requests \subseteq Keys /\ AdminKeys \subseteq Keys /\ None \notin Keys
BY RefundAssumption DEF Keys

LEMMA GotoType ==
  ASSUME TypeOK, NEW w \in Workers, NEW pc \in Pcs, Goto(w, pc)
  PROVE  worker' \in [Workers -> WorkerState]
BY DEF TypeOK, Goto, WorkerState, Pcs

LEMMA FinishType ==
  ASSUME TypeOK, NEW w \in Workers, Finish(w)
  PROVE  worker' \in [Workers -> WorkerState]
BY RowTypes DEF TypeOK, Finish

LEMMA RaiseType ==
  ASSUME TypeOK, NEW w \in Workers, Raise(w)
  PROVE  worker' \in [Workers -> WorkerState]
BY GotoType, FinishType DEF Raise, Pcs

LEMMA DecideType ==
  ASSUME TypeOK, NEW r \in Requests, NEW s \in RequestStatus, Decide(r, s)
  PROVE  request' \in [Requests -> RequestRow]
BY DEF TypeOK, Decide, RequestRow

LEMMA LogType ==
  ASSUME TypeOK, NEW r \in Requests, NEW event \in Events, Log(r, event)
  PROVE  audit' \in [Requests -> SUBSET Events] /\ faults' \in Nat
BY DEF TypeOK, Log

-----------------------------------------------------------------------------
(* Which actions write which table, and what they write *)

\* Only persistSuccessfulRefund writes transactions.
LEMMA TxWriters ==
  ASSUME [Next]_vars
  PROVE  \/ UNCHANGED tx
         \/ \E w \in Workers : PersistSuccessfulRefund(w)
BY DEF Next, Step, vars, tables, FindSuccessfulTransaction, InsertRequest,
       GetExistingRefund, LoadRefundableTransaction, InsertRefund, SendRefund, RecordAnswer,
       RefundCallFails, CheckPersist, PersistSuccessfulRefund, ReturnResult, CatchError, StartRequest, ClaimRequest,
       StartDirectRefund, StatementFails, CancelRefundRequest, RejectRefundRequest, BlockApproval,
       StripeDecides, OrderOverwritten, Crash

LEMMA OrderWriters ==
  ASSUME [Next]_vars
  PROVE  \/ UNCHANGED order
         \/ \E w \in Workers : PersistSuccessfulRefund(w)
         \/ \E o \in Orders : OrderOverwritten(o)
BY DEF Next, Step, vars, tables, FindSuccessfulTransaction, InsertRequest,
       GetExistingRefund, LoadRefundableTransaction, InsertRefund, SendRefund, RecordAnswer,
       RefundCallFails, CheckPersist, PersistSuccessfulRefund, ReturnResult, CatchError, StartRequest, ClaimRequest,
       StartDirectRefund, StatementFails, CancelRefundRequest, RejectRefundRequest, BlockApproval,
       StripeDecides, Crash

LEMMA RefundWriters ==
  ASSUME [Next]_vars
  PROVE  \/ UNCHANGED refund
         \/ \E w \in Workers : InsertRefund(w) \/ RecordAnswer(w) \/ RefundCallFails(w)
BY DEF Next, Step, vars, tables, FindSuccessfulTransaction, InsertRequest,
       GetExistingRefund, LoadRefundableTransaction, SendRefund,
       CheckPersist, PersistSuccessfulRefund, ReturnResult, CatchError, StartRequest, ClaimRequest,
       StartDirectRefund, StatementFails, CancelRefundRequest, RejectRefundRequest, BlockApproval,
       StripeDecides, OrderOverwritten, Crash

LEMMA RequestWriters ==
  ASSUME [Next]_vars
  PROVE  \/ UNCHANGED request
         \/ \E w \in Workers : InsertRequest(w) \/ ReturnResult(w) \/ CatchError(w)
         \/ \E r \in Requests : \/ CancelRefundRequest(r) \/ RejectRefundRequest(r)
                                \/ \E w \in Workers : ClaimRequest(w, r)
BY DEF Next, Step, vars, tables, FindSuccessfulTransaction,
       GetExistingRefund, LoadRefundableTransaction, InsertRefund, SendRefund, RecordAnswer, RefundCallFails,
       CheckPersist, PersistSuccessfulRefund, StartRequest,
       StartDirectRefund, StatementFails, BlockApproval,
       StripeDecides, OrderOverwritten, Crash

LEMMA ProviderWriters ==
  ASSUME [Next]_vars
  PROVE  \/ UNCHANGED provider
         \/ \E w \in Workers : SendRefund(w)
         \/ \E k \in Keys : StripeDecides(k)
BY DEF Next, Step, vars, tables, FindSuccessfulTransaction, InsertRequest,
       GetExistingRefund, LoadRefundableTransaction, InsertRefund, RecordAnswer, RefundCallFails,
       CheckPersist, PersistSuccessfulRefund, ReturnResult, CatchError, StartRequest, ClaimRequest,
       StartDirectRefund, StatementFails, CancelRefundRequest, RejectRefundRequest, BlockApproval,
       OrderOverwritten, Crash

LEMMA AuditWriters ==
  ASSUME [Next]_vars
  PROVE  \/ UNCHANGED audit
         \/ \E w \in Workers :
              ReturnResult(w) \/ CatchError(w) \/ (StatementFails(w) /\ At(w, "catch"))
         \/ \E r \in Requests : BlockApproval(r)
BY DEF Next, Step, vars, tables, FindSuccessfulTransaction, InsertRequest,
       GetExistingRefund, LoadRefundableTransaction, InsertRefund, SendRefund, RecordAnswer,
       RefundCallFails, CheckPersist, PersistSuccessfulRefund, StartRequest, ClaimRequest,
       StartDirectRefund, StatementFails, At, CancelRefundRequest, RejectRefundRequest,
       StripeDecides, OrderOverwritten, Crash

-----------------------------------------------------------------------------
(* Type correctness *)

LEMMA InitType == Init => TypeOK
<1> SUFFICES ASSUME Init PROVE TypeOK
  OBVIOUS
<1> QED BY RowTypes DEF Init, TypeOK, CallState

\* Parts of the invariant, for one worker.
LEMMA WorkerFacts ==
  ASSUME IInv, NEW w \in Workers
  PROVE  /\ worker[w] \in WorkerState
         /\ LocalsOK(w) /\ WorkerOwnsRequest(w) /\ WorkerOwnsRefund(w) /\ AnswerOK(w)
BY DEF IInv, TypeOK

LEMMA TypeStep == ASSUME IInv, [Next]_vars PROVE TypeOK'
<1> USE DEF tables
<1>0. /\ TypeOK
      /\ \A w \in Workers : worker[w] \in WorkerState /\ LocalsOK(w)
  BY DEF IInv, TypeOK
<1>1. order' \in [Orders -> {"paid", "refunded", "payment_failed"}]
  BY <1>0, OrderWriters DEF PersistSuccessfulRefund, OrderOverwritten, TypeOK
<1>2. tx' \in [Txs -> TxRow]
  <2>1. ASSUME NEW w \in Workers, PersistSuccessfulRefund(w)
        PROVE  tx' \in [Txs -> TxRow]
    <3>1. tx' = [tx EXCEPT ![worker[w].tx].status = "refunded"]
      BY <2>1 DEF PersistSuccessfulRefund, BookRefunded
    <3>2. worker[w].tx \in Txs
      BY <1>0, <2>1 DEF PersistSuccessfulRefund, LocalsOK, At, RefundPc
    <3>3. [tx[worker[w].tx] EXCEPT !.status = "refunded"] \in TxRow
      BY <1>0, <3>2 DEF TypeOK, TxRow
    <3>4. QED BY <1>0, <3>1, <3>2, <3>3 DEF TypeOK
  <2>2. QED BY <1>0, <2>1, TxWriters DEF TypeOK
<1>3. refund' \in [Keys -> RefundRow]
  <2>1. ASSUME NEW w \in Workers, InsertRefund(w) PROVE refund' \in [Keys -> RefundRow]
    <3>1. /\ worker[w].key \in Keys /\ worker[w].tx \in Txs
          /\ worker[w].amount \in Amount /\ worker[w].request \in Requests \cup {None}
      BY <1>0, <2>1, KeyTypes DEF InsertRefund, LocalsOK, At, RefundPc, WorkerState
    <3>2. QED BY <1>0, <2>1, <3>1 DEF InsertRefund, TypeOK, RefundRow, RefundStatus
  <2>2. ASSUME NEW w \in Workers, RecordAnswer(w) PROVE refund' \in [Keys -> RefundRow]
    BY <1>0, <2>2 DEF RecordAnswer, NextStatus, TypeOK, RefundRow, RefundStatus
  <2>3. ASSUME NEW w \in Workers, RefundCallFails(w) PROVE refund' \in [Keys -> RefundRow]
    BY <1>0, <2>3 DEF RefundCallFails, TypeOK, RefundRow, RefundStatus
  <2>4. QED BY <1>0, <2>1, <2>2, <2>3, RefundWriters DEF TypeOK
<1>4. request' \in [Requests -> RequestRow]
  <2>1. ASSUME NEW w \in Workers, InsertRequest(w) PROVE request' \in [Requests -> RequestRow]
    <3>1. worker[w].request \in Requests /\ worker[w].order \in Orders /\ worker[w].tx \in Txs
      BY <1>0, <2>1 DEF InsertRequest, LocalsOK, At, RequestPc
    <3>2. QED BY <1>0, <2>1, <3>1 DEF InsertRequest, TypeOK, RequestRow, RequestStatus
  <2>2. ASSUME NEW w \in Workers, ReturnResult(w) PROVE request' \in [Requests -> RequestRow]
    BY <1>0, <2>2, DecideType
       DEF ReturnResult, StatusOfRequest, RequestStatus, Settled, TypeOK
  <2>3. ASSUME NEW w \in Workers, CatchError(w) PROVE request' \in [Requests -> RequestRow]
    BY <1>0, <2>3, DecideType DEF CatchError, RequestStatus, Settled, LocalsOK
  <2>4. ASSUME NEW r \in Requests,
               CancelRefundRequest(r) \/ RejectRefundRequest(r)
                 \/ \E w \in Workers : ClaimRequest(w, r)
        PROVE  request' \in [Requests -> RequestRow]
    BY <1>0, <2>4, DecideType
       DEF CancelRefundRequest, RejectRefundRequest, ClaimRequest, RequestStatus, Settled
  <2>5. QED BY <1>0, <2>1, <2>2, <2>3, <2>4, RequestWriters DEF TypeOK
<1>5. provider' \in [Keys -> CallState]
  <2>1. ASSUME NEW w \in Workers, SendRefund(w) PROVE provider' \in [Keys -> CallState]
    BY <1>0, <2>1 DEF SendRefund, MockAnswers, TypeOK, CallState
  <2>2. ASSUME NEW k \in Keys, StripeDecides(k) PROVE provider' \in [Keys -> CallState]
    BY <1>0, <2>2 DEF StripeDecides, TypeOK, CallState
  <2>3. QED BY <1>0, <2>1, <2>2, ProviderWriters DEF TypeOK
<1>6. audit' \in [Requests -> SUBSET Events]
  <2>1. ASSUME NEW w \in Workers, ReturnResult(w) PROVE audit' \in [Requests -> SUBSET Events]
    BY <1>0, <2>1, LogType DEF ReturnResult, LogOutcome, Events, TypeOK
  <2>2. ASSUME NEW w \in Workers, CatchError(w) PROVE audit' \in [Requests -> SUBSET Events]
    <3>1. worker[w].request \in Requests
      BY <1>0, <2>2 DEF CatchError, LocalsOK
    <3>2. QED BY <1>0, <2>2, <3>1, LogType DEF CatchError, Events
  <2>3. ASSUME NEW w \in Workers, StatementFails(w), At(w, "catch")
        PROVE  audit' \in [Requests -> SUBSET Events]
    BY <1>0, <2>3 DEF StatementFails, At, RequestPc, RefundPc, TypeOK, Events
  <2>4. ASSUME NEW r \in Requests, BlockApproval(r)
        PROVE  audit' \in [Requests -> SUBSET Events]
    BY <1>0, <2>4, LogType DEF BlockApproval, Events
  <2>5. QED BY <1>0, <2>1, <2>2, <2>3, <2>4, AuditWriters DEF TypeOK
<1>7. worker' \in [Workers -> WorkerState]
  <2> USE <1>0, KeyTypes, RowTypes DEF Pcs, RequestPc, RefundPc
  <2>1. ASSUME NEW w \in Workers, NEW r \in Requests, NEW o \in Orders, StartRequest(w, r, o)
        PROVE  worker' \in [Workers -> WorkerState]
    BY <2>1 DEF StartRequest, TypeOK, WorkerState
  <2>2. ASSUME NEW w \in Workers, NEW r \in Requests, ClaimRequest(w, r)
        PROVE  worker' \in [Workers -> WorkerState]
    <3>1. request[r].tx \in Txs \cup {None}
      BY DEF TypeOK, RequestRow
    <3>2. QED BY <2>2, <3>1 DEF ClaimRequest, TypeOK, WorkerState
  <2>3. ASSUME NEW w \in Workers, NEW k \in AdminKeys, NEW t \in Txs, NEW a \in Amount,
               StartDirectRefund(w, k, t, a)
        PROVE  worker' \in [Workers -> WorkerState]
    BY <2>3 DEF StartDirectRefund, TypeOK, WorkerState
  <2>4. ASSUME NEW w \in Workers, FindSuccessfulTransaction(w)
        PROVE  worker' \in [Workers -> WorkerState]
    BY <2>4, FinishType DEF FindSuccessfulTransaction, Refundable, TypeOK, WorkerState
  <2>5. ASSUME NEW w \in Workers,
               LoadRefundableTransaction(w) \/ InsertRefund(w) \/ SendRefund(w)
                 \/ RefundCallFails(w) \/ CheckPersist(w) \/ PersistSuccessfulRefund(w)
        PROVE  worker' \in [Workers -> WorkerState]
    BY <2>5, GotoType, RaiseType
       DEF LoadRefundableTransaction, InsertRefund, SendRefund, RefundCallFails,
           CheckPersist, PersistSuccessfulRefund
  <2>6. ASSUME NEW w \in Workers, RecordAnswer(w) \/ GetExistingRefund(w)
        PROVE  worker' \in [Workers -> WorkerState]
    <3>1. CASE RecordAnswer(w)
      <4>1. \E pc \in {"persist", "result"}, s \in RefundStatus :
              worker' = [worker EXCEPT ![w].pc = pc, ![w].answer = s]
        BY <3>1 DEF RecordAnswer, NextStatus, RefundStatus
      <4>2. PICK pc \in {"persist", "result"}, s \in RefundStatus :
              worker' = [worker EXCEPT ![w].pc = pc, ![w].answer = s]
        BY <4>1
      <4>3. [worker[w] EXCEPT !.pc = pc, !.answer = s] \in WorkerState
        BY DEF WorkerState
      <4>4. worker' = [worker EXCEPT ![w] = [worker[w] EXCEPT !.pc = pc, !.answer = s]]
        BY <4>2 DEF TypeOK
      <4>5. QED BY <4>3, <4>4 DEF TypeOK
    <3>2. CASE GetExistingRefund(w)
      <4>1. worker[w].key \in Keys
        BY <3>2 DEF GetExistingRefund, At, LocalsOK
      <4>2. refund[worker[w].key].status \in RefundStatus
        BY <4>1 DEF TypeOK, RefundRow
      <4>3. QED BY <3>2, <4>2, GotoType, RaiseType DEF GetExistingRefund, TypeOK, WorkerState
    <3>3. QED BY <2>6, <3>1, <3>2
  <2>7. ASSUME NEW w \in Workers, InsertRequest(w) \/ ReturnResult(w) \/ CatchError(w)
        PROVE  worker' \in [Workers -> WorkerState]
    BY <2>7, FinishType DEF InsertRequest, ReturnResult, CatchError
  <2>8. ASSUME NEW w \in Workers, StatementFails(w)
        PROVE  worker' \in [Workers -> WorkerState]
    BY <2>8, FinishType, RaiseType DEF StatementFails
  <2>9. CASE \/ \E r \in Requests : CancelRefundRequest(r) \/ RejectRefundRequest(r)
             \/ \E k \in Keys : StripeDecides(k)
             \/ \E r \in Requests : BlockApproval(r)
             \/ \E o \in Orders : OrderOverwritten(o)
             \/ Crash \/ UNCHANGED vars
    BY <2>9 DEF CancelRefundRequest, RejectRefundRequest, BlockApproval, StripeDecides, OrderOverwritten,
                Crash, vars, TypeOK
  <2>10. QED
    BY <2>1, <2>2, <2>3, <2>4, <2>5, <2>6, <2>7, <2>8, <2>9 DEF Next, Step
<1>8. faults' \in Nat
  <2>1. ASSUME NEW w \in Workers, ReturnResult(w) \/ CatchError(w) PROVE faults' \in Nat
    BY <1>0, <2>1 DEF ReturnResult, LogOutcome, CatchError, Log, TypeOK
  <2>2. ASSUME NEW w \in Workers,
               Step(w) /\ ~ReturnResult(w) /\ ~CatchError(w)
        PROVE  faults' = faults
    BY <2>2 DEF Step, FindSuccessfulTransaction, InsertRequest, GetExistingRefund,
         LoadRefundableTransaction, InsertRefund, SendRefund, RecordAnswer, RefundCallFails, CheckPersist,
         PersistSuccessfulRefund
  <2>3. CASE \/ \E w \in Workers : StatementFails(w)
             \/ \E r \in Requests : BlockApproval(r)
             \/ \E o \in Orders : OrderOverwritten(o)
             \/ Crash \/ UNCHANGED vars
    BY <1>0, <2>3 DEF StatementFails, BlockApproval, Log, OrderOverwritten, Crash, vars, TypeOK
  <2>4. CASE \/ \E r \in Requests : CancelRefundRequest(r) \/ RejectRefundRequest(r)
             \/ \E k \in Keys : StripeDecides(k)
    BY <1>0, <2>4 DEF CancelRefundRequest, RejectRefundRequest, StripeDecides, TypeOK
  <2>5. CASE \E w \in Workers :
               \/ \E r \in Requests, o \in Orders : StartRequest(w, r, o)
               \/ \E r \in Requests : ClaimRequest(w, r)
               \/ \E k \in AdminKeys, t \in Txs, a \in Amount : StartDirectRefund(w, k, t, a)
    BY <1>0, <2>5 DEF StartRequest, ClaimRequest, StartDirectRefund, TypeOK
  <2>6. QED BY <1>0, <2>1, <2>2, <2>3, <2>4, <2>5 DEF Next, TypeOK
<1>9. QED BY <1>1, <1>2, <1>3, <1>4, <1>5, <1>6, <1>7, <1>8 DEF TypeOK

-----------------------------------------------------------------------------
(* What a step never takes back *)

LEMMA PersistFacts ==
  ASSUME IInv, NEW w \in Workers, PersistSuccessfulRefund(w)
  PROVE  LET t == worker[w].tx
             k == worker[w].key
         IN /\ t \in Txs /\ k \in Keys
            /\ refund[k].tx = t /\ refund[k].status = "succeeded"
            /\ tx' = [tx EXCEPT ![t].status = "refunded"]
            /\ order' = [order EXCEPT ![tx[t].order] = "refunded"]
BY WorkerFacts, KeyTypes DEF PersistSuccessfulRefund, BookRefunded, LocalsOK,
       WorkerOwnsRefund, Holding, RefundPc, At

LEMMA TxStays ==
  ASSUME IInv, [Next]_vars, NEW t \in Txs
  PROVE  /\ tx'[t].order = tx[t].order
         /\ tx[t].status = "refunded" => tx'[t] = tx[t]
<1>1. ASSUME NEW w \in Workers, PersistSuccessfulRefund(w)
      PROVE  /\ tx'[t].order = tx[t].order
             /\ tx[t].status = "refunded" => tx'[t] = tx[t]
  <2>1. /\ tx \in [Txs -> TxRow]
        /\ tx' = [tx EXCEPT ![worker[w].tx].status = "refunded"]
    BY <1>1, PersistFacts DEF IInv, TypeOK
  <2>2. CASE t = worker[w].tx
    BY <2>1, <2>2 DEF TxRow
  <2>3. CASE t # worker[w].tx
    BY <2>1, <2>3
  <2>4. QED BY <2>2, <2>3
<1>2. QED BY <1>1, TxWriters

\* The worker that writes a row of refunds holds it, or its key is new.
LEMMA RefundWriteFacts ==
  ASSUME IInv, NEW w \in Workers, InsertRefund(w) \/ RecordAnswer(w) \/ RefundCallFails(w),
         NEW k, k = worker[w].key, NEW t, t = worker[w].tx
  PROVE  /\ k \in Keys /\ t \in Txs
         /\ \/ worker[w].request = None /\ k \in AdminKeys
            \/ worker[w].request = k /\ request[k].status = "approved_processing"
         /\ \A j \in Keys \ {k} : refund'[j] = refund[j]
         /\ \/ refund' = refund
            \/ /\ InsertRefund(w)
               /\ refund[k] = NoRefund
               /\ refund'[k].tx = t /\ refund'[k].status = "processing"
               /\ refund'[k].request = worker[w].request
               /\ \A j \in Keys : ~(refund[j].tx = t /\ ActiveRefund(j))
            \/ /\ ~InsertRefund(w)
               /\ refund[k].status = "processing"
               /\ refund[k].tx = t /\ refund'[k].tx = t
               /\ refund'[k].request = refund[k].request
               /\ \/ /\ refund'[k].status = provider[k]
                     /\ provider[k] \in {"pending", "succeeded", "failed"}
                  \/ refund'[k].status = "failed"
<1>0. /\ refund \in [Keys -> RefundRow]
      /\ k \in Keys /\ t \in Txs
      /\ \/ worker[w].request = None /\ k \in AdminKeys
         \/ worker[w].request = k /\ request[k].status = "approved_processing"
  BY WorkerFacts, KeyTypes DEF IInv, TypeOK, LocalsOK, WorkerOwnsRequest, InsertRefund,
       RecordAnswer, RefundCallFails, At, RefundPc
<1>1. CASE InsertRefund(w)
  BY <1>0, <1>1 DEF InsertRefund, RefundRow
<1>2. CASE RecordAnswer(w) \/ RefundCallFails(w)
  <2>1. At(w, "await") /\ ~InsertRefund(w)
    BY <1>2 DEF RecordAnswer, RefundCallFails, InsertRefund, At
  <2>2. refund[k].status = "processing" /\ refund[k].tx = t
    BY <2>1, WorkerFacts DEF WorkerOwnsRefund, At, Holding
  <2>3. PICK s : refund' = [refund EXCEPT ![k].status = s] /\
          (s = "failed" \/ (s = provider[k] /\ s \in {"pending", "succeeded", "failed"}))
    BY <1>2 DEF RecordAnswer, RefundCallFails, NextStatus
  <2>4. QED BY <1>0, <2>1, <2>2, <2>3 DEF RefundRow
<1>3. QED BY <1>1, <1>2

LEMMA RefundStays ==
  ASSUME IInv, [Next]_vars, NEW k \in Keys, refund[k].status \in {"succeeded", "failed"}
  PROVE  refund'[k] = refund[k]
<1>1. ASSUME NEW w \in Workers, InsertRefund(w) \/ RecordAnswer(w) \/ RefundCallFails(w)
      PROVE  refund'[k] = refund[k]
  <2>1. CASE k = worker[w].key
    BY <1>1, <2>1, RefundWriteFacts DEF NoRefund
  <2>2. CASE k # worker[w].key
    BY <1>1, <2>2, RefundWriteFacts
  <2>3. QED BY <2>1, <2>2
<1>2. QED BY <1>1, RefundWriters

\* The same of the provider's calls.
LEMMA ProviderWriteFacts ==
  ASSUME IInv, [Next]_vars
  PROVE  \/ UNCHANGED provider
         \/ \E k \in Keys :
              /\ UNCHANGED <<tables, audit>>
              /\ \A j \in Keys \ {k} : provider'[j] = provider[j]
              /\ provider'[k] # "none"
              /\ \/ /\ provider[k] \in {"none", "open"}
                    /\ refund[k].status \notin {"none", "pending", "succeeded"}
                 \/ provider[k] = "pending" /\ provider'[k] \in {"succeeded", "failed"}
<1>1. ASSUME NEW w \in Workers, SendRefund(w)
      PROVE  \E k \in Keys :
              /\ UNCHANGED <<tables, audit>>
              /\ \A j \in Keys \ {k} : provider'[j] = provider[j]
              /\ provider'[k] # "none"
              /\ provider[k] \in {"none", "open"}
              /\ refund[k].status \notin {"none", "pending", "succeeded"}
  <2>1. /\ worker[w].key \in Keys /\ provider[worker[w].key] = "none"
        /\ refund[worker[w].key].status = "processing"
    BY <1>1, WorkerFacts, KeyTypes DEF SendRefund, LocalsOK, WorkerOwnsRefund, At, RefundPc
  <2>2. PICK s \in CallState \ {"none"} : provider' = [provider EXCEPT ![worker[w].key] = s]
    BY <1>1 DEF SendRefund, MockAnswers, CallState
  <2>3. QED BY <1>1, <2>1, <2>2 DEF IInv, TypeOK, SendRefund
<1>2. ASSUME NEW k \in Keys, StripeDecides(k)
      PROVE  /\ UNCHANGED <<tables, audit>>
             /\ \A j \in Keys \ {k} : provider'[j] = provider[j]
             /\ provider'[k] # "none"
             /\ \/ /\ provider[k] \in {"none", "open"}
                   /\ refund[k].status \notin {"none", "pending", "succeeded"}
                \/ provider[k] = "pending" /\ provider'[k] \in {"succeeded", "failed"}
  BY <1>2 DEF StripeDecides, IInv, TypeOK, RefundRowOK
<1>3. QED BY <1>1, <1>2, ProviderWriters

\* A request that was paid back stays paid back, in the books too.
LEMMA PaidBackStays ==
  ASSUME IInv, [Next]_vars, NEW r \in Requests, request'[r].tx = request[r].tx,
         request[r].tx \in Txs, refund[r].status = "succeeded", PaidBackFor(r)
  PROVE  refund'[r].status = "succeeded" /\ PaidBackFor(r)'
<1>1. r \in Keys /\ refund'[r] = refund[r]
  BY RefundStays, KeyTypes
<1>2. provider'[r] = "succeeded"
  BY <1>1, ProviderWriteFacts DEF PaidBackFor
<1>3. tx[request[r].tx].status = "refunded" => tx'[request[r].tx].status = "refunded"
  BY TxStays
<1>4. QED BY <1>1, <1>2, <1>3 DEF PaidBackFor

-----------------------------------------------------------------------------
(* The tables keep their part of the invariant *)

LEMMA RefundRowStep == ASSUME IInv, [Next]_vars, NEW k \in Keys PROVE RefundRowOK(k)'
<1>0. RefundRowOK(k)
  BY DEF IInv
<1>1. CASE UNCHANGED refund
  BY <1>0, <1>1, ProviderWriteFacts DEF RefundRowOK
<1>2. ASSUME NEW w \in Workers, InsertRefund(w) \/ RecordAnswer(w) \/ RefundCallFails(w)
      PROVE  RefundRowOK(k)'
  <2>1. UNCHANGED provider
    BY <1>2 DEF InsertRefund, RecordAnswer, RefundCallFails
  <2>2. CASE k = worker[w].key
    <3>1. CASE refund' = refund
      BY <1>0, <2>1, <3>1 DEF RefundRowOK
    <3>2. CASE /\ refund'[k].status = "processing" /\ refund'[k].tx \in Txs
               /\ refund'[k].request \in {None, k}
      BY <3>2 DEF RefundRowOK
    <3>3. CASE /\ refund'[k].tx \in Txs /\ refund'[k].request \in {None, k}
               /\ \/ /\ refund'[k].status = provider[k]
                     /\ provider[k] \in {"pending", "succeeded", "failed"}
                  \/ refund'[k].status = "failed"
      BY <2>1, <3>3 DEF RefundRowOK
    <3>4. QED BY <1>0, <1>2, <2>2, <3>1, <3>2, <3>3, RefundWriteFacts DEF RefundRowOK
  <2>3. CASE k # worker[w].key
    BY <1>0, <1>2, <2>1, <2>3, RefundWriteFacts DEF RefundRowOK
  <2>4. QED BY <2>2, <2>3
<1>3. QED BY <1>1, <1>2, RefundWriters

LEMMA OneActiveStep == ASSUME IInv, [Next]_vars PROVE OneActiveRefund'
<1>0. OneActiveRefund
  BY DEF IInv
<1>1. CASE UNCHANGED refund
  BY <1>0, <1>1 DEF OneActiveRefund, ActiveRefund
<1>2. ASSUME NEW w \in Workers, InsertRefund(w) \/ RecordAnswer(w) \/ RefundCallFails(w)
      PROVE  OneActiveRefund'
  <2> DEFINE k == worker[w].key
  <2>1. k \in Keys /\ \A j \in Keys \ {k} : refund'[j] = refund[j]
    BY <1>2, RefundWriteFacts
  <2>2. CASE refund' = refund
    BY <1>1, <2>2
  <2>3. CASE /\ refund'[k].tx = worker[w].tx
             /\ \A j \in Keys : ~(refund[j].tx = worker[w].tx /\ ActiveRefund(j))
    BY <1>0, <2>1, <2>3 DEF OneActiveRefund, ActiveRefund
  <2>4. CASE ActiveRefund(k) /\ refund'[k].tx = refund[k].tx
    BY <1>0, <2>1, <2>4 DEF OneActiveRefund, ActiveRefund
  <2>5. CASE refund[k].status = "processing" /\ refund'[k].tx = refund[k].tx
    BY <2>4, <2>5 DEF ActiveRefund
  <2>6. QED BY <1>2, <2>2, <2>3, <2>5, RefundWriteFacts
<1>3. QED BY <1>1, <1>2, RefundWriters

LEMMA RefundedTxStep == ASSUME IInv, [Next]_vars, NEW t \in Txs PROVE RefundedTxOK(t)'
<1>0. RefundedTxOK(t)
  BY DEF IInv
<1>1. CASE tx'[t] = tx[t]
  BY <1>0, <1>1, RefundStays DEF RefundedTxOK
<1>2. ASSUME NEW w \in Workers, PersistSuccessfulRefund(w), tx'[t] # tx[t]
      PROVE  RefundedTxOK(t)'
  <2>1. t = worker[w].tx
    BY <1>2, PersistFacts DEF IInv, TypeOK
  <2>2. QED BY <1>2, <2>1, PersistFacts DEF RefundedTxOK, PersistSuccessfulRefund
<1>3. QED BY <1>1, <1>2, TxWriters

LEMMA OrderStep == ASSUME IInv, [Next]_vars, NEW o \in Orders PROVE OrderOK(o)'
<1>0. /\ OrderOK(o) /\ order \in [Orders -> {"paid", "refunded", "payment_failed"}]
      /\ tx \in [Txs -> TxRow]
  BY DEF IInv, TypeOK
<1>1. ASSUME NEW w \in Workers, PersistSuccessfulRefund(w)
      PROVE  OrderOK(o)'
  <2> DEFINE t == worker[w].tx
  <2>0. /\ t \in Txs /\ tx[t].order \in Orders
        /\ tx' = [tx EXCEPT ![t].status = "refunded"]
        /\ order' = [order EXCEPT ![tx[t].order] = "refunded"]
    BY <1>0, <1>1, PersistFacts DEF TxRow
  <2>1. CASE o = tx[t].order
    <3>1. order'[o] = "refunded"
      BY <1>0, <2>0, <2>1
    <3>2. tx'[t].order = o /\ tx'[t].status = "refunded"
      BY <1>0, <2>0, <2>1 DEF TxRow
    <3>3. QED BY <2>0, <3>1, <3>2 DEF OrderOK
  <2>2. CASE o # tx[worker[w].tx].order
    BY <1>0, <1>1, <2>2, PersistFacts DEF OrderOK, TxRow
  <2>3. QED BY <2>1, <2>2
<1>2. CASE UNCHANGED <<tx, order>>
  BY <1>0, <1>2 DEF OrderOK
<1>3. ASSUME NEW p \in Orders, OrderOverwritten(p)
      PROVE  OrderOK(o)'
  BY <1>0, <1>3 DEF OrderOverwritten, OrderOK
<1>4. QED BY <1>1, <1>2, <1>3, TxWriters, OrderWriters DEF OrderOverwritten


\* A request is written by the worker that acts on it, or by its review.
LEMMA RequestWriteFacts ==
  ASSUME IInv, [Next]_vars, NEW r \in Requests, request'[r] # request[r]
  PROVE  /\ UNCHANGED <<tx, refund, provider>>
         /\ request'[r].tx \in Txs
         /\ \/ /\ \E w \in Workers : InsertRequest(w) /\ worker[w].request = r
               /\ request[r] = NoRequest
               /\ request'[r].status = "pending_review"
            \/ /\ \E w \in Workers : ReturnResult(w) /\ worker[w].request = r
               /\ request[r].status = "approved_processing"
               /\ request'[r].tx = request[r].tx
               /\ \/ request'[r].status \in {"approved_processing", "provider_failed"}
                  \/ /\ request'[r].status = "succeeded"
                     /\ refund[r].status = "succeeded" /\ PaidBackFor(r)
            \/ /\ \E w \in Workers : CatchError(w) /\ worker[w].request = r
               /\ request[r].status = "approved_processing"
               /\ request'[r].tx = request[r].tx
               /\ request'[r].status = "provider_failed"
            \/ /\ request[r].status = "pending_review"
               /\ request'[r].tx = request[r].tx
               /\ request'[r].status \in {"cancelled", "rejected", "approved_processing"}
<1>0. /\ request \in [Requests -> RequestRow] /\ RequestRowOK(r)
  BY DEF IInv, TypeOK
<1>1. ASSUME NEW w \in Workers, InsertRequest(w)
      PROVE  /\ UNCHANGED <<tx, refund, provider>> /\ worker[w].request = r
             /\ request'[r].tx \in Txs
             /\ request[r] = NoRequest /\ request'[r].status = "pending_review"
  BY <1>0, <1>1, WorkerFacts DEF InsertRequest, LocalsOK, WorkerOwnsRequest, At, RequestPc
<1>2. ASSUME NEW w \in Workers, ReturnResult(w)
      PROVE  /\ UNCHANGED <<tx, refund, provider>> /\ worker[w].request = r
             /\ request[r].status = "approved_processing"
             /\ request'[r].tx = request[r].tx
             /\ \/ request'[r].status \in {"approved_processing", "provider_failed"}
                \/ /\ request'[r].status = "succeeded"
                   /\ refund[r].status = "succeeded" /\ PaidBackFor(r)
  <2> DEFINE answer == worker[w].answer
  <2>1. /\ worker[w].request = r /\ At(w, "result") /\ UNCHANGED <<tx, refund, provider>>
        /\ request' = [request EXCEPT ![r].status = StatusOfRequest(answer)]
    BY <1>0, <1>2 DEF ReturnResult, Decide
  <2>2. request[r].status = "approved_processing"
    BY <2>1, WorkerFacts DEF WorkerOwnsRequest, At, RefundPc
  <2>3. /\ request'[r].tx = request[r].tx
        /\ request'[r].status = StatusOfRequest(answer)
    BY <1>0, <2>1 DEF RequestRow
  <2>4. CASE answer = "succeeded"
    <3>1. refund[r].status = "succeeded" /\ PaidBackFor(r)
      BY <2>1, <2>4, WorkerFacts DEF AnswerOK
    <3>2. QED BY <2>1, <2>2, <2>3, <2>4, <3>1 DEF StatusOfRequest
  <2>5. CASE answer # "succeeded"
    BY <2>1, <2>2, <2>3, <2>5 DEF StatusOfRequest
  <2>6. QED BY <2>4, <2>5
<1>3. ASSUME NEW w \in Workers, CatchError(w)
      PROVE  /\ UNCHANGED <<tx, refund, provider>> /\ worker[w].request = r
             /\ request[r].status = "approved_processing"
             /\ request'[r].tx = request[r].tx
             /\ request'[r].status = "provider_failed"
  <2>1. worker[w].request = r /\ UNCHANGED <<tx, refund, provider>>
    BY <1>0, <1>3 DEF CatchError, Decide
  <2>2. request[r].status = "approved_processing"
    BY <1>3, <2>1, WorkerFacts DEF CatchError, WorkerOwnsRequest, At
  <2>3. QED BY <1>0, <1>3, <2>1, <2>2 DEF CatchError, Decide, RequestRow
<1>4. ASSUME NEW q \in Requests,
             CancelRefundRequest(q) \/ RejectRefundRequest(q)
               \/ \E w \in Workers : ClaimRequest(w, q)
      PROVE  /\ UNCHANGED <<tx, refund, provider>>
             /\ request[r].status = "pending_review"
             /\ request'[r].tx = request[r].tx
             /\ request'[r].status \in {"cancelled", "rejected", "approved_processing"}
  <2>1. q = r /\ request[r].status = "pending_review" /\ UNCHANGED <<tx, refund, provider>>
    BY <1>0, <1>4 DEF CancelRefundRequest, RejectRefundRequest, ClaimRequest, Decide, Reviewable
  <2>2. \E s \in {"cancelled", "rejected", "approved_processing"} :
          request' = [request EXCEPT ![r].status = s]
    BY <1>4, <2>1 DEF CancelRefundRequest, RejectRefundRequest, ClaimRequest, Decide
  <2>3. QED BY <1>0, <2>1, <2>2 DEF RequestRow
<1>5. request[r].status = "approved_processing" \/ request[r].status = "pending_review" =>
        request[r].tx \in Txs
  BY <1>0 DEF RequestRowOK
<1>6. QED BY <1>1, <1>2, <1>3, <1>4, <1>5, RequestWriters

LEMMA RequestRowStep == ASSUME IInv, [Next]_vars, NEW r \in Requests PROVE RequestRowOK(r)'
<1>0. /\ RequestRowOK(r) /\ r \in Keys /\ request \in [Requests -> RequestRow]
  BY KeyTypes DEF IInv, TypeOK
<1>1. CASE request'[r] # request[r]
  <2>1. UNCHANGED <<tx, refund, provider>> /\ request'[r].tx \in Txs
    BY <1>1, RequestWriteFacts
  <2>2. CASE request'[r].status = "succeeded"
    <3>1. refund[r].status = "succeeded" /\ PaidBackFor(r) /\ request'[r].tx = request[r].tx
      BY <1>1, <2>2, RequestWriteFacts
    <3>2. QED BY <2>1, <2>2, <3>1 DEF RequestRowOK, PaidBackFor
  <2>3. CASE request'[r].status # "succeeded"
    <3>1. /\ request'[r].status # "none"
          /\ request'[r].status \in {"pending_review", "cancelled", "rejected"} =>
               request[r] = NoRequest \/ request[r].status = "pending_review"
      BY <1>1, <2>3, RequestWriteFacts
    <3>2. QED BY <1>0, <2>1, <2>3, <3>1 DEF RequestRowOK, NoRequest
  <2>4. QED BY <2>2, <2>3
<1>2. CASE request'[r] = request[r]
  <2>1. refund'[r].request = refund[r].request \/ request[r].status = "approved_processing"
          \/ refund'[r].request = None
    <3>1. ASSUME NEW w \in Workers, InsertRefund(w) \/ RecordAnswer(w) \/ RefundCallFails(w)
          PROVE  refund'[r].request = refund[r].request \/ request[r].status = "approved_processing"
                   \/ refund'[r].request = None
      BY <1>0, <3>1, RefundWriteFacts
    <3>2. QED BY <3>1, RefundWriters
  <2>2. CASE request[r].status = "succeeded"
    <3>1. refund'[r].status = "succeeded" /\ PaidBackFor(r)'
      BY <1>0, <1>2, <2>2, PaidBackStays DEF RequestRowOK
    <3>2. QED BY <1>0, <1>2, <2>2, <3>1 DEF RequestRowOK
  <2>3. CASE request[r].status # "succeeded"
    BY <1>0, <1>2, <2>1, <2>3, KeyTypes DEF RequestRowOK
  <2>4. QED BY <2>2, <2>3
<1>3. QED BY <1>1, <1>2

LEMMA AuditStep == ASSUME IInv, [Next]_vars, NEW r \in Requests PROVE AuditOK(r)'
<1> SUFFICES ASSUME "provider_refund_succeeded" \in audit'[r] PROVE AuditOK(r)'
  BY DEF AuditOK
<1>0. /\ AuditOK(r) /\ RequestRowOK(r)
      /\ audit \in [Requests -> SUBSET Events]
  BY DEF IInv, TypeOK
<1>1. CASE /\ request[r].tx \in Txs /\ refund[r].status = "succeeded" /\ PaidBackFor(r)
  <2>1. request'[r].tx = request[r].tx
    BY <1>1, RequestWriteFacts, RefundAssumption DEF NoRequest
  <2>2. QED BY <1>1, <2>1, PaidBackStays DEF AuditOK
<1>2. CASE "provider_refund_succeeded" \in audit[r]
  BY <1>0, <1>1, <1>2 DEF AuditOK
<1>3. ASSUME NEW w \in Workers, ReturnResult(w), "provider_refund_succeeded" \notin audit[r]
      PROVE  AuditOK(r)'
  <2>1. At(w, "result") /\ worker[w].request = r /\ worker[w].answer = "succeeded"
    BY <1>0, <1>3 DEF ReturnResult, LogOutcome, Log
  <2>2. refund[r].status = "succeeded" /\ PaidBackFor(r)
    BY <2>1, WorkerFacts DEF AnswerOK
  <2>3. request[r].tx \in Txs
    BY <2>1, WorkerFacts DEF LocalsOK, WorkerOwnsRequest, At, RefundPc
  <2>4. QED BY <1>1, <2>2, <2>3
<1>4. ASSUME \/ \E w \in Workers : CatchError(w) \/ (StatementFails(w) /\ At(w, "catch"))
             \/ \E q \in Requests : BlockApproval(q),
             "provider_refund_succeeded" \notin audit[r]
      PROVE  FALSE
  BY <1>0, <1>4 DEF CatchError, StatementFails, BlockApproval, At, RequestPc, RefundPc, Log
<1>5. QED BY <1>2, <1>3, <1>4, AuditWriters


-----------------------------------------------------------------------------
(* The workers keep their part of the invariant *)

LEMMA WorkerMoves ==
  ASSUME IInv, [Next]_vars, NEW v \in Workers, worker'[v] # worker[v]
  PROVE  \/ worker'[v] = Idle
         \/ \E r \in Requests, o \in Orders : StartRequest(v, r, o)
         \/ \E r \in Requests : ClaimRequest(v, r)
         \/ \E k \in AdminKeys, t \in Txs, a \in Amount : StartDirectRefund(v, k, t, a)
         \/ FindSuccessfulTransaction(v) \/ GetExistingRefund(v)
         \/ LoadRefundableTransaction(v) \/ InsertRefund(v) \/ SendRefund(v) \/ RecordAnswer(v) \/ RefundCallFails(v)
         \/ CheckPersist(v) \/ PersistSuccessfulRefund(v) \/ StatementFails(v)
<1>0. worker \in [Workers -> WorkerState]
  BY DEF IInv, TypeOK
<1>1. ASSUME NEW w \in Workers, w # v,
             \/ \E r \in Requests, o \in Orders : StartRequest(w, r, o)
             \/ \E r \in Requests : ClaimRequest(w, r)
             \/ \E k \in AdminKeys, t \in Txs, a \in Amount : StartDirectRefund(w, k, t, a)
             \/ Step(w) \/ StatementFails(w)
      PROVE  FALSE
  BY <1>0, <1>1 DEF StartRequest, ClaimRequest, StartDirectRefund, Step, Goto, Finish, Raise,
       FindSuccessfulTransaction, InsertRequest, GetExistingRefund, LoadRefundableTransaction,
       InsertRefund, SendRefund, RecordAnswer, RefundCallFails, CheckPersist, PersistSuccessfulRefund, ReturnResult,
       CatchError, StatementFails
<1>2. CASE InsertRequest(v) \/ ReturnResult(v) \/ CatchError(v) \/ Crash
  BY <1>0, <1>2 DEF InsertRequest, ReturnResult, CatchError, Crash, Finish
<1>3. CASE \/ \E r \in Requests :
                CancelRefundRequest(r) \/ RejectRefundRequest(r) \/ BlockApproval(r)
           \/ \E k \in Keys : StripeDecides(k)
           \/ \E o \in Orders : OrderOverwritten(o)
           \/ UNCHANGED vars
  BY <1>3 DEF CancelRefundRequest, RejectRefundRequest, BlockApproval, StripeDecides,
       OrderOverwritten, vars
<1>4. QED BY <1>1, <1>2, <1>3 DEF Next, Step

\* A worker that writes a row moves on.
LEMMA WritersMove ==
  ASSUME IInv, NEW w \in Workers,
         \/ InsertRequest(w) \/ ReturnResult(w) \/ CatchError(w)
         \/ InsertRefund(w) \/ RecordAnswer(w) \/ RefundCallFails(w) \/ SendRefund(w)
  PROVE  worker'[w] # worker[w]
<1>0. worker \in [Workers -> WorkerState]
  BY DEF IInv, TypeOK
<1>1. \A pc : Goto(w, pc) => worker'[w].pc = pc
  BY <1>0 DEF Goto, WorkerState
<1>2. Finish(w) => worker'[w].pc = "idle"
  BY <1>0 DEF Finish, Idle
<1>3. Raise(w) => worker'[w].pc \in {"idle", "catch"}
  BY <1>1, <1>2 DEF Raise
<1>4. RecordAnswer(w) => worker'[w].pc \in {"persist", "result"}
  BY <1>0 DEF RecordAnswer, WorkerState
<1>5. QED
  BY <1>1, <1>2, <1>3, <1>4 DEF InsertRequest, ReturnResult, CatchError, InsertRefund,
       RecordAnswer, RefundCallFails, SendRefund, At

LEMMA RaiseFacts ==
  ASSUME IInv, NEW v \in Workers, Raise(v)
  PROVE  \/ worker'[v] = Idle
         \/ /\ worker[v].request \in Requests
            /\ worker'[v].pc = "catch" /\ worker'[v].request = worker[v].request
            /\ worker'[v].key = worker[v].key /\ worker'[v].tx = worker[v].tx
BY DEF IInv, TypeOK, WorkerState, Raise, Goto, Finish

\* What a worker that moves comes to, and the row it has written.
LEMMA MoveFacts ==
  ASSUME IInv, [Next]_vars, NEW v \in Workers, worker'[v] # worker[v],
         NEW u, u = worker[v], NEW x, x = worker'[v]
  PROVE
    \/ x = Idle
    \/ /\ x.pc = "findTx" /\ x.request \in Requests /\ x.key = None /\ x.order \in Orders
       /\ request[x.request] = NoRequest /\ Unused(x.request) /\ UNCHANGED tables
    \/ /\ x.pc = "existing" /\ x.request \in Requests /\ x.key = x.request
       /\ request[x.request].status = "pending_review"
       /\ request'[x.request].status = "approved_processing"
       /\ request'[x.request].tx = x.tx /\ UNCHANGED refund
    \/ x.pc = "existing" /\ x.request = None /\ x.key \in AdminKeys /\ x.tx \in Txs
    \/ /\ u.pc = "findTx" /\ x.pc = "insertRequest" /\ UNCHANGED tables
       /\ x.request = u.request /\ x.key = u.key /\ x.order = u.order /\ x.tx \in Txs
    \/ /\ x.request = u.request /\ x.key = u.key /\ x.tx = u.tx
       /\ \/ /\ u.pc = "existing" /\ x.pc = "load" /\ UNCHANGED tables
          \/ /\ u.pc = "existing" /\ x.pc = "result" /\ UNCHANGED <<tables, provider>>
             /\ refund[u.key].tx = u.tx /\ x.answer = refund[u.key].status
          \/ u.pc = "load" /\ x.pc = "insertRefund" /\ UNCHANGED tables
          \/ /\ u.pc = "insertRefund" /\ x.pc = "call" /\ InsertRefund(v)
             /\ refund[u.key] = NoRefund /\ UNCHANGED <<request, provider>>
             /\ refund'[u.key].tx = u.tx /\ refund'[u.key].status = "processing"
             /\ refund'[u.key].request = u.request
          \/ u.pc = "call" /\ x.pc = "await" /\ UNCHANGED tables /\ provider'[u.key] # "none"
          \/ /\ u.pc = "await" /\ x.pc = "persist" /\ UNCHANGED request
             /\ refund'[u.key].tx = u.tx /\ refund'[u.key].request = u.request
             /\ refund'[u.key].status = "succeeded" /\ x.answer = "succeeded"
          \/ /\ u.pc = "await" /\ x.pc = "result" /\ UNCHANGED request
             /\ x.answer \in {"pending", "failed"}
          \/ u.pc = "persist" /\ x.pc = "commit" /\ UNCHANGED tables /\ x.answer = u.answer
          \/ /\ u.pc = "commit" /\ x.pc = "result" /\ UNCHANGED <<request, refund, provider>>
             /\ tx'[u.tx].status = "refunded" /\ x.answer = u.answer
          \/ /\ u.pc \in RefundPc /\ x.pc = "catch" /\ u.request \in Requests
             /\ UNCHANGED request
<1>0. /\ worker \in [Workers -> WorkerState] /\ request \in [Requests -> RequestRow]
      /\ refund \in [Keys -> RefundRow] /\ provider \in [Keys -> CallState]
      /\ tx \in [Txs -> TxRow]
      /\ LocalsOK(v) /\ WorkerOwnsRefund(v)
      /\ u.pc \in RefundPc => u.key \in Keys /\ u.tx \in Txs
  BY KeyTypes DEF IInv, TypeOK, LocalsOK
<1>1. ASSUME NEW r \in Requests, NEW o \in Orders, StartRequest(v, r, o)
      PROVE  /\ x.pc = "findTx" /\ x.request \in Requests /\ x.key = None /\ x.order \in Orders
             /\ request[x.request] = NoRequest /\ Unused(x.request) /\ UNCHANGED tables
  <2>1. x.request = r /\ x.key = None /\ x.order = o /\ x.pc = "findTx"
    BY <1>0, <1>1 DEF StartRequest, Idle
  <2>2. QED BY <1>1, <2>1 DEF StartRequest
<1>2. ASSUME NEW r \in Requests, ClaimRequest(v, r)
      PROVE  /\ x.pc = "existing" /\ x.request \in Requests /\ x.key = x.request
             /\ request[x.request].status = "pending_review"
             /\ request'[x.request].status = "approved_processing"
             /\ request'[x.request].tx = x.tx /\ UNCHANGED refund
  <2>1. x.request = r /\ x.key = r /\ x.tx = request[r].tx /\ x.pc = "existing"
    BY <1>0, <1>2 DEF ClaimRequest, Idle
  <2>2. QED BY <1>0, <1>2, <2>1 DEF ClaimRequest, Reviewable, Decide, RequestRow
<1>3. ASSUME NEW k \in AdminKeys, NEW t \in Txs, NEW a \in Amount, StartDirectRefund(v, k, t, a)
      PROVE  x.pc = "existing" /\ x.request = None /\ x.key \in AdminKeys /\ x.tx \in Txs
  BY <1>0, <1>3 DEF StartDirectRefund, Idle
<1>4. CASE FindSuccessfulTransaction(v)
  BY <1>0, <1>4 DEF FindSuccessfulTransaction, Finish, At, WorkerState, Refundable
<1>5. ASSUME NEW pc, Goto(v, pc)
      PROVE  /\ x.pc = pc /\ x.request = u.request /\ x.key = u.key /\ x.tx = u.tx
             /\ x.answer = u.answer
  BY <1>0, <1>5 DEF Goto, WorkerState
<1>6. CASE LoadRefundableTransaction(v)
  BY <1>5, <1>6, RaiseFacts DEF LoadRefundableTransaction, At, RefundPc, tables
<1>7. CASE InsertRefund(v)
  <2>1. CASE Raise(v)
    BY <1>7, <2>1, RaiseFacts DEF InsertRefund, At, RefundPc
  <2>2. CASE /\ Goto(v, "call") /\ refund[u.key] = NoRefund
             /\ refund' = [refund EXCEPT ![u.key] =
                  [tx |-> u.tx, amount |-> u.amount, status |-> "processing",
                   request |-> u.request]]
    <3>1. /\ refund'[u.key].tx = u.tx /\ refund'[u.key].status = "processing"
          /\ refund'[u.key].request = u.request
      BY <1>0, <1>7, <2>2 DEF InsertRefund, At, RefundPc
    <3>2. QED BY <1>5, <1>7, <2>2, <3>1 DEF InsertRefund, At
  <2>3. QED BY <1>7, <2>1, <2>2 DEF InsertRefund
<1>8. CASE SendRefund(v)
  BY <1>0, <1>5, <1>8 DEF SendRefund, MockAnswers, At, RefundPc, CallState
<1>9. CASE RecordAnswer(v)
  <2>1. /\ u.key \in Keys /\ refund[u.key].tx = u.tx /\ refund[u.key].request = u.request
        /\ refund' = [refund EXCEPT ![u.key].status = NextStatus(v)]
        /\ NextStatus(v) \in {"pending", "succeeded", "failed"}
    BY <1>0, <1>9 DEF RecordAnswer, NextStatus, WorkerOwnsRefund, At, RefundPc, Holding
  <2>2. /\ refund'[u.key].tx = u.tx /\ refund'[u.key].request = u.request
        /\ refund'[u.key].status = NextStatus(v)
    BY <1>0, <2>1 DEF RefundRow
  <2>3. /\ x.request = u.request /\ x.key = u.key /\ x.tx = u.tx /\ x.answer = NextStatus(v)
        /\ x.pc = IF NextStatus(v) = "succeeded" THEN "persist" ELSE "result"
    BY <1>0, <1>9 DEF RecordAnswer, WorkerState
  <2>4. QED BY <1>9, <2>1, <2>2, <2>3 DEF RecordAnswer, At
<1>10. CASE RefundCallFails(v)
  BY <1>10, RaiseFacts DEF RefundCallFails, At, RefundPc
<1>11. CASE CheckPersist(v)
  BY <1>5, <1>11, RaiseFacts DEF CheckPersist, At, RefundPc, tables
<1>12. CASE PersistSuccessfulRefund(v)
  <2>1. u.tx \in Txs /\ tx' = [tx EXCEPT ![u.tx].status = "refunded"]
    BY <1>12, PersistFacts
  <2>2. tx'[u.tx].status = "refunded"
    BY <1>0, <2>1 DEF TxRow
  <2>3. QED BY <1>5, <1>12, <2>2 DEF PersistSuccessfulRefund, At
<1>13. CASE StatementFails(v)
  BY <1>0, <1>13, RaiseFacts DEF StatementFails, Finish, tables
<1>14. CASE GetExistingRefund(v)
  <2>1. CASE Goto(v, "load") \/ Raise(v)
    BY <1>5, <1>14, <2>1, RaiseFacts DEF GetExistingRefund, At, RefundPc, tables
  <2>2. CASE /\ refund[u.key].tx = u.tx
             /\ worker' = [worker EXCEPT ![v].pc = "result", ![v].answer = refund[u.key].status]
    <3>1. /\ x.pc = "result" /\ x.answer = refund[u.key].status
          /\ x.request = u.request /\ x.key = u.key /\ x.tx = u.tx
      BY <1>0, <2>2 DEF WorkerState
    <3>2. QED BY <1>14, <2>2, <3>1 DEF GetExistingRefund, At
  <2>3. QED BY <1>14, <2>1, <2>2 DEF GetExistingRefund
<1>15. QED
  BY <1>1, <1>2, <1>3, <1>4, <1>6, <1>7, <1>8, <1>9, <1>10, <1>11, <1>12, <1>13, <1>14, WorkerMoves

LEMMA LocalsStep == ASSUME IInv, [Next]_vars, NEW v \in Workers PROVE LocalsOK(v)'
<1>0. /\ LocalsOK(v)
      /\ \A r \in Requests : request[r].status = "pending_review" => request[r].tx \in Txs
  BY DEF IInv, RequestRowOK
<1>1. CASE worker'[v] = worker[v]
  BY <1>0, <1>1 DEF LocalsOK, At
<1>2. CASE worker'[v] # worker[v]
  <2>1. ASSUME NEW r \in Requests, request[r].status = "pending_review" PROVE request'[r].tx \in Txs
    BY <1>0, <2>1, RequestWriteFacts
  <2>2. QED
    BY <1>0, <1>2, <2>1, MoveFacts, KeyTypes DEF LocalsOK, At, Idle, RequestPc, RefundPc
<1>3. QED BY <1>1, <1>2

LEMMA OneWorkerStep == ASSUME IInv, [Next]_vars PROVE OneWorkerEach'
<1>0. /\ OneWorkerEach /\ worker \in [Workers -> WorkerState]
      /\ \A w \in Workers : LocalsOK(w) /\ WorkerOwnsRequest(w) /\ WorkerOwnsRefund(w)
  BY DEF IInv, TypeOK
\* Two workers that move at once have crashed.
<1>1. ASSUME NEW v \in Workers, NEW w \in Workers, v # w,
             worker'[v] # worker[v], worker'[w] # worker[w]
      PROVE  worker'[v] = Idle
  BY <1>0, <1>1 DEF Next, Step, vars, tables, StartRequest, ClaimRequest, StartDirectRefund,
       Goto, Finish, Raise, FindSuccessfulTransaction, InsertRequest,
       GetExistingRefund, LoadRefundableTransaction, InsertRefund, SendRefund, RecordAnswer, RefundCallFails,
       CheckPersist, PersistSuccessfulRefund, ReturnResult, CatchError, StatementFails, Crash,
       CancelRefundRequest, RejectRefundRequest, BlockApproval, StripeDecides, OrderOverwritten
\* Against a worker w that stays where it is.
<1>2. ASSUME NEW v \in Workers, NEW w \in Workers, v # w, worker'[w] = worker[w],
             worker'[v].request = worker[w].request, worker[w].request # None
      PROVE  FALSE
  <2> DEFINE r == worker[w].request
  <2>0. r \in Requests
    BY <1>0, <1>2 DEF WorkerState
  <2>1. CASE worker'[v].request = worker[v].request
    BY <1>0, <1>2, <2>1 DEF OneWorkerEach
  <2>2. CASE worker'[v].request = None
    BY <1>2, <2>2
  <2>3. CASE Unused(r)
    BY <1>2, <2>3 DEF Unused
  <2>4. CASE request[r].status = "pending_review"
    <3>1. /\ WorkerOwnsRequest(w) /\ LocalsOK(w)
          /\ worker[w].pc \in {"idle", "catch"} \cup RequestPc \cup RefundPc
      BY <1>0 DEF WorkerState
    <3>2. QED BY <2>0, <2>4, <3>1, RefundAssumption, KeyTypes
              DEF WorkerOwnsRequest, LocalsOK, NoRequest, At
  <2>5. QED BY <1>2, <2>1, <2>2, <2>3, <2>4, MoveFacts DEF Idle
<1>3. ASSUME NEW v \in Workers, NEW w \in Workers, v # w, worker'[w] = worker[w],
             worker'[v].key = worker[w].key, worker'[v].pc \in Holding, worker[w].pc \in Holding
      PROVE  FALSE
  <2>1. CASE worker'[v].key = worker[v].key /\ worker[v].pc \in Holding
    BY <1>0, <1>3, <2>1 DEF OneWorkerEach
  <2>2. CASE worker'[v].key = worker[v].key /\ refund[worker[v].key] = NoRefund
    <3>1. refund[worker[w].key].tx = worker[w].tx /\ worker[w].tx \in Txs
      BY <1>0, <1>3 DEF WorkerOwnsRefund, LocalsOK, Holding, RefundPc
    <3>2. QED BY <1>3, <2>2, <3>1, RefundAssumption DEF NoRefund
  <2>3. QED BY <1>3, <2>1, <2>2, MoveFacts DEF Holding, Idle
<1>4. ASSUME NEW v \in Workers, NEW w \in Workers, v # w
      PROVE  /\ worker'[v].request = worker'[w].request => worker'[v].request = None
             /\ worker'[v].key = worker'[w].key =>
                  ~(worker'[v].pc \in Holding /\ worker'[w].pc \in Holding)
  <2>1. CASE worker'[w] = worker[w]
    BY <1>2, <1>3, <1>4, <2>1
  <2>2. CASE worker'[v] = worker[v]
    BY <1>2, <1>3, <1>4, <2>2
  <2>3. CASE worker'[v] # worker[v] /\ worker'[w] # worker[w]
    BY <1>1, <1>4, <2>3 DEF Idle, Holding
  <2>4. QED BY <2>1, <2>2, <2>3
<1>5. QED BY <1>4 DEF OneWorkerEach

\* While a worker stays where it is, nobody else acts on its request or makes a
\* refund for it, and nobody writes a refund it holds.
LEMMA RowsStay ==
  ASSUME IInv, [Next]_vars, NEW v \in Workers, worker'[v] = worker[v],
         NEW r, r = worker[v].request, NEW k, k = worker[v].key
  PROVE  /\ r \in Requests => /\ request'[r] = request[r]
                              /\ refund[r].request # r => refund'[r].request # r
         /\ worker[v].pc \in Holding => refund'[k] = refund[k]
<1>0. /\ OneWorkerEach /\ worker \in [Workers -> WorkerState]
      /\ LocalsOK(v) /\ WorkerOwnsRequest(v) /\ WorkerOwnsRefund(v)
      /\ worker[v].pc \in {"idle", "catch"} \cup RequestPc \cup RefundPc
  BY DEF IInv, TypeOK, WorkerState
<1>1. ASSUME r \in Requests, request'[r] # request[r] PROVE FALSE
  <2>1. ASSUME NEW w \in Workers, worker[w].request = r,
               InsertRequest(w) \/ ReturnResult(w) \/ CatchError(w)
        PROVE  FALSE
    BY <1>0, <1>1, <2>1, WritersMove, KeyTypes DEF OneWorkerEach
  <2>2. CASE request[r].status = "pending_review"
    BY <1>0, <1>1, <2>2, KeyTypes DEF WorkerOwnsRequest, LocalsOK, NoRequest, At
  <2>3. QED BY <1>1, <2>1, <2>2, RequestWriteFacts
<1>2. ASSUME r \in Requests, refund[r].request # r, refund'[r].request = r PROVE FALSE
  <2>0. r \in Keys /\ r # None
    BY <1>2, KeyTypes
  <2>1. PICK w \in Workers : InsertRefund(w) \/ RecordAnswer(w) \/ RefundCallFails(w)
    BY <1>2, RefundWriters
  <2>2. worker[w].request = r
    BY <1>2, <2>0, <2>1, RefundWriteFacts
  <2>3. QED BY <1>0, <2>0, <2>1, <2>2, WritersMove DEF OneWorkerEach
<1>3. ASSUME worker[v].pc \in Holding, refund'[k] # refund[k] PROVE FALSE
  <2>0. k \in Keys /\ refund[k].tx \in Txs
    BY <1>0, <1>3, KeyTypes DEF LocalsOK, WorkerOwnsRefund, Holding, RefundPc
  <2>1. PICK w \in Workers : InsertRefund(w) \/ RecordAnswer(w) \/ RefundCallFails(w)
    BY <1>3, RefundWriters
  <2>2. worker[w].key = k /\ w # v
    BY <1>3, <2>0, <2>1, RefundWriteFacts, WritersMove
  <2>3. worker[w].pc \notin Holding
    BY <1>0, <1>3, <2>2 DEF OneWorkerEach
  <2>4. InsertRefund(w) /\ refund[k] = NoRefund
    BY <1>3, <2>1, <2>2, <2>3, RefundWriteFacts DEF RecordAnswer, RefundCallFails, At, Holding
  <2>5. QED BY <2>0, <2>4, RefundAssumption DEF NoRefund
<1>4. QED BY <1>1, <1>2, <1>3

LEMMA OwnsRequestStep == ASSUME IInv, [Next]_vars, NEW v \in Workers PROVE WorkerOwnsRequest(v)'
<1>0. LocalsOK(v) /\ WorkerOwnsRequest(v) /\ \A r \in Requests : RequestRowOK(r)
  BY DEF IInv
<1>1. CASE worker'[v] = worker[v]
  BY <1>0, <1>1, RowsStay DEF WorkerOwnsRequest
<1>2. CASE worker'[v] # worker[v]
  <2>1. \A r \in Requests : request[r].status = "pending_review" => refund[r].request # r
    BY <1>0 DEF RequestRowOK
  <2>2. QED
    BY <1>0, <1>2, <2>1, MoveFacts, KeyTypes
       DEF WorkerOwnsRequest, Idle, RequestPc, RefundPc, tables
<1>3. QED BY <1>1, <1>2


LEMMA OwnsRefundStep == ASSUME IInv, [Next]_vars, NEW v \in Workers PROVE WorkerOwnsRefund(v)'
<1> DEFINE k == worker[v].key
<1>0. /\ LocalsOK(v) /\ WorkerOwnsRefund(v) /\ worker \in [Workers -> WorkerState]
      /\ OneWorkerEach /\ \A j \in Keys : RefundRowOK(j)
  BY DEF IInv, TypeOK
<1>1. CASE worker'[v] = worker[v]
  <2>1. CASE worker[v].pc \notin Holding
    BY <1>1, <2>1 DEF WorkerOwnsRefund, At, Holding
  <2>2. CASE worker[v].pc \in Holding
    <3>1. refund'[k] = refund[k] /\ k \in Keys
      BY <1>0, <1>1, <2>2, RowsStay, KeyTypes DEF Holding, LocalsOK, RefundPc
    <3>2. ASSUME At(v, "call") PROVE provider'[k] = provider[k]
      <4>1. provider[k] = "none"
        BY <1>0, <3>2 DEF WorkerOwnsRefund
      <4>2. ASSUME NEW w \in Workers, SendRefund(w), worker[w].key = k
            PROVE  FALSE
        <5>1. w # v
          BY <1>1, <4>2, WritersMove
        <5>2. QED BY <1>0, <2>2, <4>2, <5>1 DEF OneWorkerEach, SendRefund, At, Holding
      <4>3. ASSUME NEW w \in Workers, SendRefund(w), worker[w].key # k
            PROVE  provider'[k] = provider[k]
        BY <3>1, <4>3 DEF SendRefund, IInv, TypeOK
      <4>4. ASSUME NEW j \in Keys, StripeDecides(j)
            PROVE  provider'[k] = provider[k]
        BY <3>1, <4>1, <4>4 DEF StripeDecides, IInv, TypeOK
      <4>5. QED BY <4>2, <4>3, <4>4, ProviderWriters
    <3>3. ASSUME At(v, "await") PROVE provider'[k] # "none"
      BY <1>0, <3>1, <3>3, ProviderWriteFacts DEF WorkerOwnsRefund
    <3>4. QED BY <1>0, <1>1, <3>1, <3>2, <3>3 DEF WorkerOwnsRefund, At
  <2>3. QED BY <2>1, <2>2
<1>2. CASE worker'[v] # worker[v]
  <2>1. CASE worker'[v].pc \notin Holding
    BY <2>1 DEF WorkerOwnsRefund, At, Holding
  <2>2. CASE worker'[v].pc = "call"
    <3>1. /\ worker'[v].key = k /\ worker'[v].tx = worker[v].tx
          /\ worker'[v].request = worker[v].request
          /\ refund[k] = NoRefund /\ UNCHANGED provider /\ k \in Keys
          /\ refund'[k].tx = worker[v].tx /\ refund'[k].status = "processing"
          /\ refund'[k].request = worker[v].request
      BY <1>0, <1>2, <2>2, MoveFacts, KeyTypes DEF Idle, LocalsOK, RefundPc
    <3>2. provider[k] = "none"
      BY <1>0, <3>1 DEF RefundRowOK, NoRefund
    <3>3. QED BY <2>2, <3>1, <3>2 DEF WorkerOwnsRefund, At
  <2>3. CASE worker'[v].pc = "await"
    <3>1. /\ worker'[v].key = k /\ worker'[v].tx = worker[v].tx /\ At(v, "call")
          /\ worker'[v].request = worker[v].request
          /\ UNCHANGED tables /\ provider'[k] # "none"
      BY <1>2, <2>3, MoveFacts DEF Idle, At
    <3>2. QED BY <1>0, <2>3, <3>1 DEF WorkerOwnsRefund, At, Holding, tables
  <2>4. CASE worker'[v].pc = "persist"
    BY <1>2, <2>4, MoveFacts DEF WorkerOwnsRefund, At, Idle
  <2>5. CASE worker'[v].pc = "commit"
    BY <1>0, <1>2, <2>5, MoveFacts DEF WorkerOwnsRefund, At, Idle, Holding, tables
  <2>6. QED BY <2>1, <2>2, <2>3, <2>4, <2>5 DEF Holding
<1>3. QED BY <1>1, <1>2

\* A worker answers "succeeded" only of a refund that has been paid, its own or
\* the one it found.
LEMMA AnswerStep == ASSUME IInv, [Next]_vars, NEW v \in Workers PROVE AnswerOK(v)'
<1> SUFFICES ASSUME NEW r \in Requests, worker'[v].request = r, worker'[v].pc = "result",
                    worker'[v].answer = "succeeded"
             PROVE  refund'[r].status = "succeeded" /\ PaidBackFor(r)'
  BY DEF AnswerOK, At, PaidBackFor
<1>0. /\ LocalsOK(v) /\ WorkerOwnsRequest(v) /\ WorkerOwnsRefund(v) /\ AnswerOK(v)
      /\ \A k \in Keys : RefundRowOK(k)
  BY DEF IInv
<1>1. CASE worker'[v] = worker[v]
  <2>1. refund[r].status = "succeeded" /\ PaidBackFor(r)
    BY <1>0, <1>1 DEF AnswerOK, At
  <2>2. request'[r] = request[r] /\ request[r].tx \in Txs
    BY <1>0, <1>1, RowsStay DEF LocalsOK, WorkerOwnsRequest, At, RefundPc
  <2>3. QED BY <2>1, <2>2, PaidBackStays
<1>2. CASE worker'[v] # worker[v]
  <2>1. /\ worker[v].request = r
        /\ \/ /\ At(v, "existing") /\ UNCHANGED <<tables, provider>>
              /\ refund[worker[v].key].tx = worker[v].tx
              /\ refund[worker[v].key].status = "succeeded"
           \/ /\ At(v, "commit") /\ UNCHANGED <<request, refund, provider>>
              /\ tx'[worker[v].tx].status = "refunded"
    BY <1>2, MoveFacts DEF Idle, At
  <2>2. worker[v].key = r /\ r \in Keys /\ request[r].tx = worker[v].tx
    BY <1>0, <2>1, KeyTypes DEF LocalsOK, WorkerOwnsRequest, At, RefundPc
  <2>3. refund[r].tx = worker[v].tx /\ refund[r].status = "succeeded"
    BY <1>0, <2>1, <2>2 DEF WorkerOwnsRefund, At, Holding
  <2>4. provider[r] = "succeeded"
    BY <1>0, <2>2, <2>3 DEF RefundRowOK
  <2>5. CASE At(v, "existing")
    <3>1. refund[r].request # r
      BY <1>0, <2>1, <2>5 DEF WorkerOwnsRequest, At
    <3>2. UNCHANGED <<request, refund, provider>>
      BY <2>1, <2>5 DEF At, tables
    <3>3. QED BY <2>2, <2>3, <2>4, <3>1, <3>2 DEF PaidBackFor
  <2>6. CASE ~At(v, "existing")
    BY <2>1, <2>2, <2>3, <2>4, <2>6 DEF PaidBackFor
  <2>7. QED BY <2>5, <2>6
<1>3. QED BY <1>1, <1>2

-----------------------------------------------------------------------------
(* The inductive invariant *)

LEMMA InitInvariant == Init => IInv
<1> SUFFICES ASSUME Init PROVE IInv
  OBVIOUS
<1>1. TypeOK
  BY InitType
<1>2. ASSUME NEW w \in Workers
      PROVE  LocalsOK(w) /\ WorkerOwnsRequest(w) /\ WorkerOwnsRefund(w) /\ AnswerOK(w)
  BY <1>2, KeyTypes DEF Init, Idle, LocalsOK, WorkerOwnsRequest, WorkerOwnsRefund, AnswerOK, At,
       RequestPc, RefundPc, Holding
<1>3. OneWorkerEach
  BY DEF Init, Idle, OneWorkerEach, Holding
<1>4. \A k \in Keys : RefundRowOK(k) /\ ~ActiveRefund(k)
  BY DEF Init, NoRefund, RefundRowOK, ActiveRefund
<1>5. OneActiveRefund
  BY <1>4 DEF OneActiveRefund
<1>6. ASSUME NEW r \in Requests PROVE RequestRowOK(r) /\ AuditOK(r)
  BY <1>6, KeyTypes DEF Init, NoRequest, NoRefund, RequestRowOK, AuditOK
<1>7. \A t \in Txs : RefundedTxOK(t)
  BY DEF Init, RefundedTxOK
<1>8. \A o \in Orders : OrderOK(o)
  BY DEF Init, OrderOK
<1>9. QED BY <1>1, <1>2, <1>3, <1>4, <1>5, <1>6, <1>7, <1>8 DEF IInv

LEMMA InvariantStep == IInv /\ [Next]_vars => IInv'
<1> SUFFICES ASSUME IInv, [Next]_vars PROVE IInv'
  OBVIOUS
<1> QED
  BY TypeStep, LocalsStep, OwnsRequestStep, OwnsRefundStep, AnswerStep, OneWorkerStep, RefundRowStep,
     OneActiveStep, RequestRowStep, AuditStep, RefundedTxStep, OrderStep DEF IInv

\* The invariant of RefundFlow: the tables of refunds, requests, transactions
\* and orders, the provider's calls and the requests in flight agree as IInv
\* says, whatever the interleaving and the faults.
THEOREM Invariant == Spec => []IInv
<1>1. IInv /\ [Next]_vars => IInv'
  BY InvariantStep
<1>2. QED BY InitInvariant, <1>1, PTL DEF Spec

-----------------------------------------------------------------------------
(* What it implies *)

LEMMA Consequences ==
  ASSUME IInv
  PROVE  /\ RefundedIsPaidBack /\ SucceededIsPaidBack /\ DeclinedIsNotPaidBack
         /\ SecondFollowsLostAnswer /\ RefundsReconcile /\ AuditedIsPaidBack
<1>0. /\ \A k \in Keys : RefundRowOK(k) /\ refund[k].status \in RefundStatus
      /\ \A r \in Requests : RequestRowOK(r) /\ AuditOK(r)
      /\ \A t \in Txs : RefundedTxOK(t)
      /\ \A o \in Orders : OrderOK(o)
      /\ OneActiveRefund
  BY DEF IInv, TypeOK, RefundRow
<1>1. RefundedIsPaidBack
  BY <1>0 DEF RefundedIsPaidBack, RefundedTxOK, RefundRowOK
<1>2. SucceededIsPaidBack
  BY <1>0 DEF SucceededIsPaidBack, RequestRowOK
<1>3. DeclinedIsNotPaidBack
  BY <1>0, KeyTypes DEF DeclinedIsNotPaidBack, RequestRowOK, RefundRowOK, NoRefund
<1>4. SecondFollowsLostAnswer
  BY <1>0 DEF SecondFollowsLostAnswer, PaysBack, OneActiveRefund, ActiveRefund, RefundRowOK,
       RefundStatus
<1>5. RefundsReconcile
  BY <1>0 DEF RefundsReconcile, PaidOrderWithoutTransaction, RefundedOrderWithoutTransaction,
       WithoutTransaction, OrderOK
<1>6. AuditedIsPaidBack
  BY <1>0 DEF AuditedIsPaidBack, AuditOK
<1>7. QED BY <1>1, <1>2, <1>3, <1>4, <1>5, <1>6

\* A transaction booked as refunded has been paid back, for every interleaving
\* of retries, lost answers, crashes and other refunds.
THEOREM OnlyPaidBackIsBooked == Spec => []RefundedIsPaidBack
BY Invariant, Consequences, PTL

\* A request answered as succeeded has been paid back, and its transaction is
\* booked unless the answer was that of a direct refund under the request's id.
THEOREM SucceededRequests == Spec => []SucceededIsPaidBack
BY Invariant, Consequences, PTL

\* Refunds under the id of a request are the request's own.
OwnRefunds == \A r \in Requests : refund[r] = NoRefund \/ refund[r].request = r

SucceededIsBooked ==
  \A r \in Requests : request[r].status = "succeeded" => tx[request[r].tx].status = "refunded"

\* If no admin ever takes the id of a request as the key of a direct refund, a
\* request answered as succeeded stands for a transaction booked as refunded.
\* Nothing in the code enforces the hypothesis.
THEOREM SeparateKeysAreBooked ==
  ASSUME Requests \cap AdminKeys = {}
  PROVE  Spec => []SucceededIsBooked
<1>1. Init => OwnRefunds
  BY KeyTypes DEF Init, OwnRefunds
<1>2. IInv /\ OwnRefunds /\ [Next]_vars => OwnRefunds'
  <2> SUFFICES ASSUME IInv, OwnRefunds, [Next]_vars, NEW r \in Requests
               PROVE  refund'[r] = NoRefund \/ refund'[r].request = r
    BY DEF OwnRefunds
  <2>1. refund[r] = NoRefund \/ refund[r].request = r
    BY DEF OwnRefunds
  <2>2. ASSUME NEW w \in Workers, InsertRefund(w) \/ RecordAnswer(w) \/ RefundCallFails(w)
        PROVE  refund'[r] = NoRefund \/ refund'[r].request = r
    <3>1. CASE r = worker[w].key
      <4>1. worker[w].request = r
        BY <2>2, <3>1, RefundWriteFacts
      <4>2. QED BY <2>1, <2>2, <3>1, <4>1, RefundWriteFacts DEF NoRefund
    <3>2. CASE r # worker[w].key
      BY <2>1, <2>2, <3>2, RefundWriteFacts, KeyTypes
    <3>3. QED BY <3>1, <3>2
  <2>3. QED BY <2>1, <2>2, RefundWriters
<1>3. IInv /\ OwnRefunds => SucceededIsBooked
  BY DEF IInv, RequestRowOK, PaidBackFor, OwnRefunds, NoRefund, SucceededIsBooked
<1>4. QED BY <1>1, <1>2, <1>3, Invariant, PTL DEF Spec

\* No refund is ever made for a request that was cancelled or rejected.
THEOREM DeclinedRequests == Spec => []DeclinedIsNotPaidBack
BY Invariant, Consequences, PTL

\* Two refunds of one transaction are paid back only if one of them is booked
\* as failed.
THEOREM SecondRefunds == Spec => []SecondFollowsLostAnswer
BY Invariant, Consequences, PTL

\* The report of reconciliationService finds no mismatch that a refund caused.
THEOREM Reconciled == Spec => []RefundsReconcile
BY Invariant, Consequences, PTL

\* The audit log reports a request as refunded only when the provider has paid
\* it back, and with the books if the refund was the approval's own.
THEOREM AuditedRefunds == Spec => []AuditedIsPaidBack
BY Invariant, Consequences, PTL

\* Settled requests, refunded transactions and decided refunds never change.
THEOREM DecisionsAreFinal == Spec => DecisionsStand
<1> DEFINE A ==
      /\ \A r \in Requests : request[r].status \in Settled => request'[r] = request[r]
      /\ \A t \in Txs : tx[t].status = "refunded" => tx'[t] = tx[t]
      /\ \A k \in Keys : refund[k].status \in {"succeeded", "failed"} => refund'[k] = refund[k]
<1>1. IInv /\ [Next]_vars => [A]_vars
  <2> SUFFICES ASSUME IInv, [Next]_vars PROVE A
    OBVIOUS
  <2>1. ASSUME NEW r \in Requests, request[r].status \in Settled PROVE request'[r] = request[r]
    BY <2>1, RequestWriteFacts DEF Settled, NoRequest
  <2>2. QED BY <2>1, TxStays, RefundStays
<1>2. QED BY <1>1, Invariant, PTL DEF Spec, DecisionsStand

-----------------------------------------------------------------------------
(* The refinement *)

LEMMA LedgerInitially == Init => Ledger!LedgerInit
BY DEF Init, Ledger!LedgerInit, PaidBackTxs, BookedTxs, AnsweredTxs, RepeatedTxs, Succeeded,
       NoRequest

\* While requests stay, so does what they were answered.
LEMMA AnswersStay ==
  ASSUME IInv, [Next]_vars, UNCHANGED request
  PROVE  UNCHANGED <<AnsweredTxs, RepeatedTxs>>
<1>1. ASSUME NEW r \in Requests, Succeeded(r) PROVE refund'[r] = refund[r]
  BY <1>1, RefundStays, KeyTypes DEF IInv, RequestRowOK, Succeeded
<1>2. QED BY <1>1 DEF AnsweredTxs, RepeatedTxs, Succeeded

LEMMA LedgerStep == IInv /\ [Next]_vars => [Ledger!LedgerNext]_(Ledger!ledgerVars)
<1> SUFFICES ASSUME IInv, [Next]_vars PROVE [Ledger!LedgerNext]_(Ledger!ledgerVars)
  OBVIOUS
<1> USE DEF Ledger!LedgerNext, Ledger!ledgerVars
<1>0. /\ tx \in [Txs -> TxRow] /\ refund \in [Keys -> RefundRow]
      /\ request \in [Requests -> RequestRow] /\ provider \in [Keys -> CallState]
      /\ \A k \in Keys : RefundRowOK(k)
      /\ \A r \in Requests : RequestRowOK(r)
  BY DEF IInv, TypeOK
<1>1. CASE \E w \in Workers : PersistSuccessfulRefund(w)
  <2> PICK w \in Workers : PersistSuccessfulRefund(w)
    BY <1>1
  <2> DEFINE t == worker[w].tx
  <2>1. /\ t \in Txs /\ worker[w].key \in Keys
        /\ refund[worker[w].key].tx = t /\ refund[worker[w].key].status = "succeeded"
        /\ tx' = [tx EXCEPT ![t].status = "refunded"]
        /\ UNCHANGED <<refund, request, provider>>
    BY PersistFacts DEF PersistSuccessfulRefund
  <2>2. t \in PaidBackTxs
    BY <1>0, <2>1 DEF RefundRowOK, PaidBackTxs
  <2>3. BookedTxs' = BookedTxs \cup {t}
    BY <1>0, <2>1 DEF BookedTxs, TxRow
  <2>4. UNCHANGED PaidBackTxs
    BY <2>1 DEF PaidBackTxs
  <2>5. QED BY <2>1, <2>2, <2>3, <2>4, AnswersStay DEF Ledger!Book
<1>2. ASSUME UNCHANGED <<tx, refund, provider>>, NEW r \in Requests, request'[r] # request[r],
             \A q \in Requests \ {r} : request'[q] = request[q]
      PROVE  [Ledger!LedgerNext]_(Ledger!ledgerVars)
  <2>1. UNCHANGED <<PaidBackTxs, BookedTxs>>
    BY <1>2 DEF PaidBackTxs, BookedTxs
  <2>2. request[r].status # "succeeded"
    BY <1>2, RequestWriteFacts DEF NoRequest
  <2>3. CASE request'[r].status = "succeeded"
    <3> DEFINE t == request[r].tx
    <3>1. /\ request'[r].tx = t /\ t \in Txs
          /\ refund[r].status = "succeeded" /\ PaidBackFor(r)
      BY <1>2, <2>3, RequestWriteFacts
    <3>2. t \in PaidBackTxs
      BY <3>1, KeyTypes DEF PaidBackFor, PaidBackTxs
    <3>3. CASE refund[r].request = r
      <4>1. AnsweredTxs' = AnsweredTxs \cup {t} /\ UNCHANGED RepeatedTxs
        BY <1>2, <2>2, <2>3, <3>1, <3>3 DEF AnsweredTxs, RepeatedTxs, Succeeded
      <4>2. t \in BookedTxs
        BY <3>1, <3>3 DEF PaidBackFor, BookedTxs
      <4>3. QED BY <2>1, <3>1, <4>1, <4>2 DEF Ledger!Answer
    <3>4. CASE refund[r].request # r
      <4>1. RepeatedTxs' = RepeatedTxs \cup {t} /\ UNCHANGED AnsweredTxs
        BY <1>2, <2>2, <2>3, <3>1, <3>4 DEF AnsweredTxs, RepeatedTxs, Succeeded
      <4>2. QED BY <2>1, <3>1, <3>2, <4>1 DEF Ledger!Repeat
    <3>5. QED BY <3>3, <3>4
  <2>4. CASE request'[r].status # "succeeded"
    <3>1. UNCHANGED <<AnsweredTxs, RepeatedTxs>>
      BY <1>2, <2>2, <2>4 DEF AnsweredTxs, RepeatedTxs, Succeeded
    <3>2. QED BY <2>1, <3>1
  <2>5. QED BY <2>3, <2>4
<1>3. CASE UNCHANGED <<tx, request>>
  <2>1. UNCHANGED <<BookedTxs, AnsweredTxs, RepeatedTxs>>
    BY <1>3, AnswersStay DEF BookedTxs
  <2>2. CASE UNCHANGED provider
    <3>1. UNCHANGED PaidBackTxs
      <4>1. ASSUME NEW k \in Keys, provider[k] = "succeeded" PROVE refund'[k].tx = refund[k].tx
        BY <1>0, <4>1, RefundWriteFacts, RefundWriters DEF RefundRowOK, NoRefund
      <4>2. QED BY <2>2, <4>1 DEF PaidBackTxs
    <3>2. QED BY <2>1, <3>1
  <2>3. ASSUME NEW k \in Keys, UNCHANGED tables,
               \A j \in Keys \ {k} : provider'[j] = provider[j],
               provider[k] # "succeeded", refund[k].tx \in Txs
        PROVE  [Ledger!LedgerNext]_(Ledger!ledgerVars)
    <3>1. CASE provider'[k] = "succeeded"
      <4>1. PaidBackTxs' = PaidBackTxs \cup {refund[k].tx}
        BY <2>3, <3>1 DEF PaidBackTxs, tables
      <4>2. QED BY <2>1, <2>3, <4>1 DEF Ledger!PayBack
    <3>2. CASE provider'[k] # "succeeded"
      <4>1. UNCHANGED PaidBackTxs
        BY <2>3, <3>2 DEF PaidBackTxs, tables
      <4>2. QED BY <2>1, <4>1
    <3>3. QED BY <3>1, <3>2
  <2>4. QED BY <1>0, <2>2, <2>3, ProviderWriteFacts DEF RefundRowOK
<1>4. QED
  <2>1. CASE UNCHANGED request
    <3>1. CASE UNCHANGED tx
      BY <1>3, <2>1, <3>1
    <3>2. QED BY <1>1, <3>1, TxWriters
  <2>2. CASE request' # request
    <3>1. PICK r \in Requests : request'[r] # request[r]
      BY <1>0, <2>2, TypeStep DEF TypeOK
    <3>2. UNCHANGED <<tx, refund, provider>>
      BY <3>1, RequestWriteFacts
    <3>3. \A q \in Requests \ {r} : request'[q] = request[q]
      BY <1>0, <2>2, <3>1, RequestWriters
         DEF InsertRequest, ReturnResult, CatchError, Decide, CancelRefundRequest,
             RejectRefundRequest, ClaimRequest
    <3>4. QED BY <1>2, <3>1, <3>2, <3>3
  <2>3. QED BY <2>1, <2>2

\* RefundFlow implements RefundLedger: money back first, then the books, then
\* the answer of an approval's own refund, and nothing is taken back.
THEOREM RefinesRefundLedger == Spec => ImplementsRefundLedger
<1>1. Init => Ledger!LedgerInit
  BY LedgerInitially
<1>2. IInv /\ [Next]_vars => [Ledger!LedgerNext]_(Ledger!ledgerVars)
  BY LedgerStep
<1>3. QED
  BY <1>1, <1>2, Invariant, PTL DEF Spec, ImplementsRefundLedger, Ledger!LedgerSpec

=============================================================================
