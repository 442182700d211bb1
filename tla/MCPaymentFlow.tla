--------------------------- MODULE MCPaymentFlow ---------------------------
(* PaymentFlow on small instances. *)
EXTENDS PaymentInvariants, TLC

\* The names of workers, keys, payments and orders carry no meaning.  Only for
\* runs that check no liveness.
Symmetry == Permutations(Workers) \cup Permutations(Keys)
              \cup Permutations(Payments) \cup Permutations(Orders)
=============================================================================
