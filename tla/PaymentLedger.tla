--------------------------- MODULE PaymentLedger ---------------------------
(***************************************************************************)
(* What the backend promises about a card payment, without saying how:     *)
(* money is captured first; a captured payment is recorded as a            *)
(* transaction at most once and for good; a transaction is sealed with its *)
(* MAC and receipt; the provider's event is acknowledged after that.       *)
(* PaymentRefinement shows that PaymentFlow keeps this promise.            *)
(***************************************************************************)

CONSTANT Payments

VARIABLES
  captured,      \* payments whose money the provider has taken
  recorded,      \* payments with a row in transactions
  sealed,        \* of these, the ones with MAC and receipt
  acknowledged   \* payments whose event is answered as processed

ledgerVars == <<captured, recorded, sealed, acknowledged>>

LedgerInit ==
  captured = {} /\ recorded = {} /\ sealed = {} /\ acknowledged = {}

Capture(p) ==
  /\ captured' = captured \cup {p}
  /\ UNCHANGED <<recorded, sealed, acknowledged>>

Record(p) ==
  /\ p \in captured
  /\ recorded' = recorded \cup {p}
  /\ UNCHANGED <<captured, sealed, acknowledged>>

Seal(p) ==
  /\ p \in recorded
  /\ sealed' = sealed \cup {p}
  /\ UNCHANGED <<captured, recorded, acknowledged>>

Acknowledge(p) ==
  /\ p \in sealed
  /\ acknowledged' = acknowledged \cup {p}
  /\ UNCHANGED <<captured, recorded, sealed>>

\* An overlapping delivery of the same event fails after another one has been
\* processed, and its markFailed comes last: the event is redelivered again.
Reopen(p) ==
  /\ acknowledged' = acknowledged \ {p}
  /\ UNCHANGED <<captured, recorded, sealed>>

LedgerNext ==
  \E p \in Payments : Capture(p) \/ Record(p) \/ Seal(p) \/ Acknowledge(p) \/ Reopen(p)

LedgerSpec == LedgerInit /\ [][LedgerNext]_ledgerVars

\* What is promised further along has been earned on the way: acknowledged
\* events are of sealed transactions, transactions are of captured money.
LedgerOrder ==
  acknowledged \subseteq sealed /\ sealed \subseteq recorded /\ recorded \subseteq captured
=============================================================================
