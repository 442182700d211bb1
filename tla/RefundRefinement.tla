-------------------------- MODULE RefundRefinement --------------------------
(* RefundFlow implements RefundLedger. *)
EXTENDS RefundFlow

PaidBackTxs == {t \in Txs : \E k \in Keys : refund[k].tx = t /\ provider[k] = "succeeded"}
BookedTxs   == {t \in Txs : tx[t].status = "refunded"}

Succeeded(r) == request[r].status = "succeeded"
AnsweredTxs == {t \in Txs : \E r \in Requests :
                  request[r].tx = t /\ Succeeded(r) /\ refund[r].request = r}
RepeatedTxs == {t \in Txs : \E r \in Requests :
                  request[r].tx = t /\ Succeeded(r) /\ refund[r].request # r}

Ledger == INSTANCE RefundLedger WITH
            paidBack <- PaidBackTxs, booked <- BookedTxs,
            answered <- AnsweredTxs, repeated <- RepeatedTxs

\* Every step of a handler, the provider or a crash is a step of the ledger or
\* changes nothing in it: books and answers never run ahead of the money, an
\* approval is not answered ahead of its own books, and none of it is taken back.
ImplementsRefundLedger == Ledger!LedgerSpec
=============================================================================
