----------------------------- MODULE MCCheckout -----------------------------
(* Checkout and Accounts on small instances. *)
EXTENDS CheckoutInvariants, Accounts

\* No action and no property tells one request or one nonce from another.
MCSymmetry == Permutations(Workers) \cup Permutations(Nonces)
              \cup Permutations(Products) \cup Permutations(Sellers)

MCSeedUsers == << [email |-> AdminEmail, role |-> "admin"],
                  [email |-> CHOOSE e \in Emails : e # AdminEmail, role |-> "customer"] >>

\* No two products cost the same at first, so that a mix-up shows.
DistinctPrices == \A p, q \in Products : p # q => catalogue[p].price # catalogue[q].price

\* One catalogue is as good as another for Accounts.
OneSeller == \A p, q \in Products : catalogue[p].seller = catalogue[q].seller

\* The two components share no variable and no property speaks of both, so
\* behaviours in which only one of them moves are all there is to check.
StorefrontInit == Init /\ DistinctPrices /\ AccountsInit

StorefrontNext ==
  \/ AccountsInit /\ Next /\ UNCHANGED accountVars
  \/ Init /\ OneSeller /\ AccountsNext /\ UNCHANGED vars

StorefrontSpec == StorefrontInit /\ [][StorefrontNext]_<<vars, accountVars>>
=============================================================================
