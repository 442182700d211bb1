----------------------------- MODULE MCSecurity -----------------------------
(* SecurityDesk on a small instance: every event the handlers can log. *)
EXTENDS SecurityInvariants, FiniteSets, TLC

MCEvents == DeskEvents

\* No action and no property tells one handler in flight from another.
MCSymmetry == Permutations(Writers)

\* An altered log is verified, and not continued: no step of the program looks
\* at what AlterRow changes, so it might as well be the last step.
MCUntouched == altered = {}

\* Bound: one receipt.  No action and no property looks at two of them.
MCOneReceipt == Cardinality(receipts) <= 1
=============================================================================
