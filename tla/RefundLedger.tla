---------------------------- MODULE RefundLedger ----------------------------
(***************************************************************************)
(* What the backend promises about refunds, without saying how: the        *)
(* provider pays a transaction back, then the transaction is booked as     *)
(* refunded, then the customer's request is answered as succeeded; none of *)
(* it is ever taken back.  Only a request that is answered from a direct   *)
(* refund under its own id need not wait for the books, but for the money  *)
(* it does.  RefundRefinement shows that RefundFlow keeps this promise.    *)
(***************************************************************************)

CONSTANT Txs

VARIABLES
  paidBack,   \* transactions of which the provider has completed a refund
  booked,     \* transactions whose row says "refunded"
  answered,   \* transactions of requests answered as succeeded by a refund of their own
  repeated    \* transactions of requests answered as succeeded from a direct refund

ledgerVars == <<paidBack, booked, answered, repeated>>

LedgerInit == paidBack = {} /\ booked = {} /\ answered = {} /\ repeated = {}

PayBack(t) ==
  /\ paidBack' = paidBack \cup {t}
  /\ UNCHANGED <<booked, answered, repeated>>

Book(t) ==
  /\ t \in paidBack
  /\ booked' = booked \cup {t}
  /\ UNCHANGED <<paidBack, answered, repeated>>

Answer(t) ==
  /\ t \in booked
  /\ answered' = answered \cup {t}
  /\ UNCHANGED <<paidBack, booked, repeated>>

Repeat(t) ==
  /\ t \in paidBack
  /\ repeated' = repeated \cup {t}
  /\ UNCHANGED <<paidBack, booked, answered>>

LedgerNext == \E t \in Txs : PayBack(t) \/ Book(t) \/ Answer(t) \/ Repeat(t)

LedgerSpec == LedgerInit /\ [][LedgerNext]_ledgerVars
=============================================================================
