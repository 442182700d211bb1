------------------------------ MODULE MCRefund ------------------------------
(* RefundFlow on small instances. *)
EXTENDS RefundInvariants

\* Bound: late approvals of one request only.  All they do is to log
\* "provider_refund_failed", which no action reads and no property but the type.
MCLateApproval == \A r \in Requests \ AdminKeys : ~BlockApproval(r)
=============================================================================
