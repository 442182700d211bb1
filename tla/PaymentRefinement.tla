------------------------- MODULE PaymentRefinement -------------------------
(***************************************************************************)
(* PaymentFlow implements PaymentLedger, for the Stripe payments: MockBank *)
(* has no events, and sync records MockBank payments it never captured.    *)
(***************************************************************************)
EXTENDS PaymentFlow

StripeCaptured == {p \in Payments : Stripe(p) /\ Captured(p)}
StripeRecorded == {p \in Payments : Stripe(p) /\ Recorded(p)}
StripeSealed   == {p \in Payments : Stripe(p) /\ Sealed(p)}
StripeAcknowledged == {p \in StripeCaptured : event[p] = "processed"}

Ledger == INSTANCE PaymentLedger WITH
            captured <- StripeCaptured, recorded <- StripeRecorded,
            sealed <- StripeSealed, acknowledged <- StripeAcknowledged

\* Every step of the backend, the provider or a crash is a step of the ledger
\* or changes nothing in it: no interleaving records uncaptured money, undoes
\* a record, or acknowledges an event whose transaction is not sealed.
ImplementsLedger == Ledger!LedgerSpec
=============================================================================
