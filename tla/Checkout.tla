------------------------------ MODULE Checkout ------------------------------
(***************************************************************************)
(* What a customer does before money moves: put together an order          *)
(* (src/src/orders/orderService.js) and ask for it to be paid, past the    *)
(* checks of paymentController.js: the nonce, the velocity check, the      *)
(* idempotency key.  What a payment then does is in PaymentFlow; here it   *)
(* is accepted or fails.                                                   *)
(*                                                                         *)
(* Nonces, keys and failures are kept per user; there is one user.         *)
(***************************************************************************)
EXTENDS Naturals, Sequences, SequencesExt

CONSTANTS
  Products,        \* the catalogue
  Sellers,         \* pairs of a merchant and a currency
  Prices,          \* what a product may cost
  Orders,          \* ids of orders
  Nonces,          \* UUIDs that requests carry
  Keys,            \* idempotency keys that clients choose, also nonces
  Workers,         \* requests that can be in flight at once
  MaxItems,        \* items of a request: 50 in inputValidator.js
  MaxQuantity,     \* quantity of an item: 100 in inputValidator.js
  MaxFails,        \* MAX_FAILS of velocityCheck.js
  Window,          \* its WINDOW_MS
  MaxTime,         \* bound: how far the clock goes
  MaxChanges,      \* bound: changes of the catalogue and crashes
  None

ASSUME CheckoutAssumption ==
  /\ Prices \subseteq Nat
  /\ MaxItems \in Nat /\ MaxQuantity \in Nat \ {0}
  /\ MaxFails \in Nat \ {0} /\ Window \in Nat \ {0} /\ MaxTime \in Nat /\ MaxChanges \in Nat
  /\ IsFiniteSet(Products) /\ IsFiniteSet(Workers)
  /\ None \notin Nonces \cup Keys \cup Orders

VARIABLES
  catalogue,   \* table products
  order,       \* tables orders and order_items
  nonces,      \* table request_nonces
  attempt,     \* table payment_attempts, by idempotency key
  failures,    \* failedAttempts of the Node process: which payment failed when
  now,         \* its clock
  worker,      \* the requests in flight
  begun,       \* how many payments were begun under each nonce
  changes      \* changes of the catalogue and crashes so far

vars == <<catalogue, order, nonces, attempt, failures, now, worker, begun, changes>>

-----------------------------------------------------------------------------
Item == [product : Products, quantity : 1..MaxQuantity]
ProductRow == [seller : Sellers, price : Prices, active : BOOLEAN]
Line == [quantity : 1..(MaxItems * MaxQuantity), unitPrice : Prices]
Lines == UNION {[P -> Line] : P \in SUBSET Products}

\* A row of orders, with its order_items by product and the items asked for.
OrderRow == [status : {"none", "pending", "processing", "payment_failed", "paid"},
             asked : Seq(Item), lines : Lines, total : Nat]

AttemptRow == [order : Orders \cup {None}, amount : Nat]

WorkerState == [pc : {"idle", "insertOrder", "nonce", "velocity", "pay", "failed"},
                order : Orders \cup {None}, asked : Seq(Item), lines : Lines,
                nonce : Nonces \cup {None}, key : Nonces \cup Keys \cup {None}]

NoOrder == [status |-> "none", asked |-> <<>>, lines |-> <<>>, total |-> 0]
NoAttempt == [order |-> None, amount |-> 0]
Idle == [pc |-> "idle", order |-> None, asked |-> <<>>, lines |-> <<>>,
         nonce |-> None, key |-> None]

TypeOK ==
  /\ catalogue \in [Products -> ProductRow]
  /\ order \in [Orders -> OrderRow]
  /\ nonces \subseteq Nonces
  /\ attempt \in [Nonces \cup Keys -> AttemptRow]
  /\ failures \subseteq [nonce : Nonces, at : 0..MaxTime]
  /\ now \in 0..MaxTime
  /\ worker \in [Workers -> WorkerState]
  /\ begun \in [Nonces -> Nat]
  /\ changes \in 0..MaxChanges

Init ==
  /\ catalogue \in [Products -> {r \in ProductRow : r.active}]
  /\ order = [o \in Orders |-> NoOrder]
  /\ nonces = {}
  /\ attempt = [k \in Nonces \cup Keys |-> NoAttempt]
  /\ failures = {}
  /\ now = 0
  /\ worker = [w \in Workers |-> Idle]
  /\ begun = [n \in Nonces |-> 0]
  /\ changes = 0

At(w, pc) == worker[w].pc = pc
Goto(w, pc) == worker' = [worker EXCEPT ![w].pc = pc]
Finish(w) == worker' = [worker EXCEPT ![w] = Idle]

-----------------------------------------------------------------------------
(* createOrder *)

\* Mutant: the schema has no upper limits.
AnyAmount(items) == items # <<>> /\ \A i \in DOMAIN items : items[i].quantity > 0

\* orderSchema.
Valid(items) ==
  /\ Len(items) \in 1..MaxItems
  /\ \A i \in DOMAIN items : items[i].quantity \in 1..MaxQuantity

\* Mutant: an item of a product that was listed before replaces it.
LastCounts(items) ==
  FoldLeft(LAMBDA merged, item : [merged EXCEPT ![item.product] = item.quantity],
           [p \in Products |-> 0], items)

\* normalizeRequestedItems: what the items of one product add up to.
Merged(items) ==
  FoldLeft(LAMBDA merged, item : [merged EXCEPT ![item.product] = @ + item.quantity],
           [p \in Products |-> 0], items)

Ordered(items) == {p \in Products : Merged(items)[p] > 0}

\* What clients send, within the limits of the schema and one beyond.
Requested == BoundedSeq([product : Products, quantity : 0..(MaxQuantity + 1)], MaxItems + 1)

\* loadActiveProducts, and the checks of buildPricedItems.
CanBePriced(P) ==
  /\ \A p \in P : catalogue[p].active
  /\ \A p, q \in P : catalogue[p].seller = catalogue[q].seller

\* BEGIN and the SELECT: the order is priced from what was read here.  Its id is
\* random, so nobody has asked for it to be paid yet.
LoadActiveProducts(w) ==
  /\ At(w, "idle")
  /\ \E o \in Orders :
       /\ order[o] = NoOrder /\ \A v \in Workers : worker[v].order # o
       /\ \E items \in Requested :
            /\ Valid(items) /\ CanBePriced(Ordered(items))
            /\ worker' = [worker EXCEPT ![w] =
                 [Idle EXCEPT !.pc = "insertOrder", !.order = o, !.asked = items,
                              !.lines = [p \in Ordered(items) |->
                                [quantity |-> Merged(items)[p], unitPrice |-> catalogue[p].price]]]]
  /\ UNCHANGED <<catalogue, order, nonces, attempt, failures, now, begun, changes>>

\* Mutant: the total is taken from the catalogue as it is by now.
TotalOfCatalogue(lines) ==
  SumFunction([p \in DOMAIN lines |-> lines[p].quantity * catalogue[p].price])

\* totalAmount.
TotalAmount(lines) ==
  SumFunction([p \in DOMAIN lines |-> lines[p].quantity * lines[p].unitPrice])

\* The INSERTs and the COMMIT.
CommitOrder(w) ==
  /\ At(w, "insertOrder")
  /\ order' = [order EXCEPT ![worker[w].order] =
       [status |-> "pending", asked |-> worker[w].asked, lines |-> worker[w].lines,
        total |-> TotalAmount(worker[w].lines)]]
  /\ Finish(w)
  /\ UNCHANGED <<catalogue, nonces, attempt, failures, now, begun, changes>>

-----------------------------------------------------------------------------
(* createPaymentIntent of paymentController.js *)

\* A request with a fresh timestamp, perhaps for an order there is not; without
\* a key its nonce is the key.
RequestPayment(w, o, n, k) ==
  /\ At(w, "idle")
  /\ worker' = [worker EXCEPT ![w] = [Idle EXCEPT !.pc = "nonce", !.order = o,
       !.nonce = n, !.key = IF k = None THEN n ELSE k]]
  /\ UNCHANGED <<catalogue, order, nonces, attempt, failures, now, begun, changes>>

\* Mutant: a nonce that is already there is taken once more.
NonceUpserted(n) == TRUE

NonceIsNew(n) == n \notin nonces

\* consumeNonce: the INSERT, which the unique constraint refuses.
ConsumeNonce(w) ==
  /\ At(w, "nonce")
  /\ \/ /\ NonceIsNew(worker[w].nonce)
        /\ nonces' = nonces \cup {worker[w].nonce}
        /\ Goto(w, "velocity")
     \/ Finish(w) /\ UNCHANGED nonces
  /\ UNCHANGED <<catalogue, order, attempt, failures, now, begun, changes>>

\* A nonce begins one payment, so no two failures are alike.
Recent == {f \in failures : now < f.at + Window}

\* Mutant: nobody is ever blocked.
NeverBlocked == FALSE

Blocked == Cardinality(Recent) >= MaxFails

CheckVelocity(w) ==
  /\ At(w, "velocity")
  /\ failures' = Recent
  /\ IF Blocked
     THEN Finish(w) /\ UNCHANGED begun
     ELSE /\ Goto(w, "pay")
          /\ begun' = [begun EXCEPT ![worker[w].nonce] = @ + 1]
  /\ UNCHANGED <<catalogue, order, nonces, attempt, now, changes>>

Payable(o) == order[o].status \in {"pending", "payment_failed", "processing"}

\* claimPaymentAttempt: the key is new, or was used for the same payment.
Claims(k, o) == attempt[k] = NoAttempt \/ attempt[k].order = o

\* Mutant: the amount is worked out anew.
ChargedAnew(o) == TotalOfCatalogue(order[o].lines)

\* The attempt is for the total of the order as it was stored.
Charged(o) == order[o].total

\* paymentService.createPaymentIntent: refused before anything is stored, or
\* stored, and then accepted by the provider or not; a payment that was made
\* before may be answered from its row.
Pay(w) ==
  LET o == worker[w].order
      k == worker[w].key
  IN /\ At(w, "pay")
     /\ \/ /\ Payable(o) /\ Claims(k, o)
           /\ attempt' = IF attempt[k] = NoAttempt
                         THEN [attempt EXCEPT ![k] = [order |-> o, amount |-> Charged(o)]]
                         ELSE attempt
           /\ \/ order' = [order EXCEPT ![o].status = "processing"]
              \/ attempt[k] # NoAttempt /\ UNCHANGED order
           /\ Finish(w) \/ Goto(w, "failed")
        \/ Goto(w, "failed") /\ UNCHANGED <<attempt, order>>
     /\ UNCHANGED <<catalogue, nonces, failures, now, begun, changes>>

RecordFailure(w) ==
  /\ At(w, "failed")
  /\ failures' = Recent \cup {[nonce |-> worker[w].nonce, at |-> now]}
  /\ Finish(w)
  /\ UNCHANGED <<catalogue, order, nonces, attempt, now, begun, changes>>

-----------------------------------------------------------------------------
(* The environment *)

\* A payment is confirmed or declined later on (see PaymentFlow).
SettleOrder(o) ==
  /\ order[o].status = "processing"
  /\ \E s \in {"paid", "payment_failed"} : order' = [order EXCEPT ![o].status = s]
  /\ UNCHANGED <<catalogue, nonces, attempt, failures, now, worker, begun, changes>>

\* A product is repriced, withdrawn or offered again.
ChangeProduct(p, price, active) ==
  /\ changes < MaxChanges
  /\ catalogue' = [catalogue EXCEPT ![p].price = price, ![p].active = active]
  /\ changes' = changes + 1
  /\ UNCHANGED <<order, nonces, attempt, failures, now, worker, begun>>

Tick ==
  /\ now < MaxTime
  /\ now' = now + 1
  /\ UNCHANGED <<catalogue, order, nonces, attempt, failures, worker, begun, changes>>

\* The process dies, and with it the requests and the failures it counted.
Crash ==
  /\ changes < MaxChanges
  /\ worker' = [w \in Workers |-> Idle]
  /\ failures' = {}
  /\ changes' = changes + 1
  /\ UNCHANGED <<catalogue, order, nonces, attempt, now, begun>>

-----------------------------------------------------------------------------
Next ==
  \/ \E w \in Workers :
       \/ LoadActiveProducts(w) \/ CommitOrder(w)
       \/ \E o \in Orders, n \in Nonces, k \in Keys \cup {None} : RequestPayment(w, o, n, k)
       \/ ConsumeNonce(w) \/ CheckVelocity(w) \/ Pay(w) \/ RecordFailure(w)
  \/ \E o \in Orders : SettleOrder(o)
  \/ \E p \in Products, price \in Prices, active \in BOOLEAN : ChangeProduct(p, price, active)
  \/ Tick \/ Crash

Spec == Init /\ [][Next]_vars

-----------------------------------------------------------------------------
(* Properties *)

\* An order holds the products that were asked for and no other, each as often
\* as all its items together say, and its total is the sum of its lines,
\* whatever became of the catalogue while the order was being written.
OrderAddsUp ==
  \A o \in Orders :
    LET items == order[o].asked
        lines == order[o].lines
    IN /\ DOMAIN lines = {items[i].product : i \in DOMAIN items}
       /\ \A p \in DOMAIN lines : lines[p].quantity =
            SumFunctionOnSet([i \in DOMAIN items |-> items[i].quantity],
                             {i \in DOMAIN items : items[i].product = p})
       /\ order[o].total =
            SumFunction([p \in DOMAIN lines |-> lines[p].quantity * lines[p].unitPrice])

\* A payment is for what the order said when it was placed, across changes of
\* the catalogue, retries and crashes.
ChargedAsOrdered ==
  \A k \in DOMAIN attempt : attempt[k] # NoAttempt =>
    attempt[k].amount = order[attempt[k].order].total

\* No nonce begins two payments, not at once, not later, not after a crash.
NonceBeginsOnePayment == \A n \in Nonces : begun[n] <= 1

\* The velocity check lags behind the payments in flight, but no further: at most
\* one failure too many per request that can overlap the last one counted.
FailuresBounded == Cardinality(Recent) < MaxFails + Cardinality(Workers)
=============================================================================
