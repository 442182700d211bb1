------------------------- MODULE CheckoutInvariants -------------------------
(***************************************************************************)
(* The inductive invariant of Checkout: what a request in flight has       *)
(* found, claimed or used up, and so may still do.  CheckoutProofs proves  *)
(* it.                                                                     *)
(***************************************************************************)
EXTENDS Checkout

\* lines are what items ask for.
AddsUp(items, lines) ==
  /\ DOMAIN lines = {items[i].product : i \in DOMAIN items}
  /\ \A p \in DOMAIN lines : lines[p].quantity =
       SumFunctionOnSet([i \in DOMAIN items |-> items[i].quantity],
                        {i \in DOMAIN items : items[i].product = p})

\* What a request carries along.
WorkerInv ==
  \A w \in Workers :
    /\ worker[w].pc \in {"nonce", "velocity", "pay", "failed"} =>
         worker[w].nonce \in Nonces
    /\ worker[w].pc \in {"nonce", "velocity", "pay"} =>
         worker[w].order \in Orders /\ worker[w].key \in Nonces \cup Keys

OrderInv ==
  \A o \in Orders :
    /\ order[o].status = "none" => order[o] = NoOrder
    /\ AddsUp(order[o].asked, order[o].lines)
    /\ order[o].total = TotalAmount(order[o].lines)

\* An order about to be inserted has its id to itself.
InsertInv ==
  \A w \in Workers : At(w, "insertOrder") =>
    /\ worker[w].order \in Orders /\ order[worker[w].order] = NoOrder
    /\ \A v \in Workers : At(v, "insertOrder") /\ v # w => worker[v].order # worker[w].order
    /\ AddsUp(worker[w].asked, worker[w].lines)

AttemptInv ==
  \A k \in Nonces \cup Keys : attempt[k] # NoAttempt =>
    /\ attempt[k].order \in Orders /\ order[attempt[k].order].status # "none"
    /\ attempt[k].amount = order[attempt[k].order].total

\* The requests that have used up their nonce.
Holds(w) == worker[w].pc \in {"velocity", "pay", "failed"}

NonceInv ==
  /\ \A n \in Nonces : begun[n] <= 1 /\ (n \notin nonces => begun[n] = 0)
  /\ \A w \in Workers : Holds(w) =>
       /\ worker[w].nonce \in nonces
       /\ At(w, "velocity") => begun[worker[w].nonce] = 0
       /\ \A v \in Workers : Holds(v) /\ v # w => worker[v].nonce # worker[w].nonce
       /\ \A f \in failures : f.nonce # worker[w].nonce
  /\ \A f \in failures : f.nonce \in nonces

\* The requests that may still fail.
MayFail == {w \in Workers : worker[w].pc \in {"pay", "failed"}}

FailureInv ==
  /\ IsFiniteSet(failures)
  /\ Cardinality(Recent) + Cardinality(MayFail) < MaxFails + Cardinality(Workers)

IInv ==
  /\ TypeOK /\ WorkerInv /\ OrderInv /\ InsertInv /\ AttemptInv /\ NonceInv /\ FailureInv
=============================================================================
