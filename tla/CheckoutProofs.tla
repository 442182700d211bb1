--------------------------- MODULE CheckoutProofs ---------------------------
(***************************************************************************)
(* That an order adds up, that a payment is for what was ordered, that a   *)
(* nonce begins one payment and that the velocity check lags by no more    *)
(* than the requests in flight, for every catalogue, every list of items   *)
(* and any number of requests.                                             *)
(***************************************************************************)
EXTENDS CheckoutInvariants, Sums, SequenceTheorems

-----------------------------------------------------------------------------
(* What the items of a request add up to *)

LEMMA MaxIsLast ==
  ASSUME NEW n \in Nat, NEW s \in SUBSET (1..n), s # {}
  PROVE  Max(s) \in s /\ \A i \in s : Max(s) >= i
<1>1. ASSUME \A i \in s : \E j \in s : j > i PROVE FALSE
  <2> DEFINE G == {k \in 0..n : \E i \in s : i >= k}
  <2>1. 0 \in G
    <3>1. PICK i \in s : i \in 1..n
      OBVIOUS
    <3>2. i >= 0
      BY <3>1
    <3>3. QED BY <3>2
  <2>2. ASSUME NEW k \in G, k < n PROVE k + 1 \in G
    <3>1. PICK i \in s : i >= k
      OBVIOUS
    <3>2. PICK j \in s : j > i
      BY <1>1
    <3>3. QED BY <2>2, <3>1, <3>2
  <2>3. G \in SUBSET (0..n)
    OBVIOUS
  <2> HIDE DEF G
  <2>4. n \in G
    BY <2>1, <2>2, <2>3, Counting
  <2>5. PICK i \in s : i >= n
    BY <2>4 DEF G
  <2>6. PICK j \in s : j > i
    BY <1>1
  <2>7. QED BY <2>5, <2>6
<1>2. PICK i \in s : \A j \in s : ~(j > i)
  BY <1>1
<1>3. \A j \in s : i >= j
  BY <1>2
<1>4. QED BY <1>3 DEF Max

LEMMA ItemAt ==
  ASSUME NEW items \in Seq(Item), NEW i \in DOMAIN items
  PROVE  /\ items[i].product \in Products /\ items[i].quantity \in Nat
         /\ items[i].quantity >= 1 /\ items[i].quantity <= MaxQuantity
<1>1. items[i] \in Item
  OBVIOUS
<1>2. QED BY <1>1, CheckoutAssumption DEF Item

Counts == [Products -> Nat]
NothingYet == [p \in Products |-> 0]

\* The step of Merged for every item, and the item it takes next.
AddItem(items) ==
  [i \in DOMAIN items |->
    [m \in Counts |-> [m EXCEPT ![items[i].product] = @ + items[i].quantity]]]
LastOf(items) == [s \in SUBSET DOMAIN items |-> Max(s)]

LEMMA FoldOfItems ==
  ASSUME NEW items \in Seq(Item)
  PROVE  /\ IsFiniteSet(DOMAIN items) /\ NothingYet \in Counts
         /\ AddItem(items) \in [DOMAIN items -> [Counts -> Counts]]
         /\ Picks(LastOf(items), DOMAIN items)
<1>1. DOMAIN items = 1..Len(items) /\ Len(items) \in Nat
  OBVIOUS
<1>2. IsFiniteSet(DOMAIN items)
  BY <1>1, FS_Interval
<1>3. Picks(LastOf(items), DOMAIN items)
  BY <1>1, MaxIsLast DEF Picks, LastOf
<1>4. NothingYet \in Counts
  BY DEF NothingYet, Counts
<1>5. ASSUME NEW i \in DOMAIN items, NEW m \in Counts
      PROVE  [m EXCEPT ![items[i].product] = @ + items[i].quantity] \in Counts
  <2>1. items[i].product \in Products /\ items[i].quantity \in Nat
    BY ItemAt
  <2>2. QED BY <2>1 DEF Counts
<1>6. QED BY <1>2, <1>3, <1>4, <1>5 DEF AddItem

LEMMA MergedIsFold ==
  ASSUME NEW items \in Seq(Item)
  PROVE  \E g \in [SUBSET DOMAIN items -> Counts] :
           /\ Folds(g, DOMAIN items, Counts, NothingYet, AddItem(items), LastOf(items))
           /\ Merged(items) = g[DOMAIN items]
<1> DEFINE D == DOMAIN items
           add(i, m) == [m EXCEPT ![items[i].product] = @ + items[i].quantity]
           value(g, s) == IF s = {} THEN NothingYet ELSE add(Max(s), g[s \ {Max(s)}])
           P(g) == g = [s \in SUBSET D |-> value(g, s)]
           c == CHOOSE g : P(g)
<1>1. Merged(items) = c[D]
  BY Zenon DEF Merged, FoldLeft, MapThenFoldSet, NothingYet
<1>2. PICK g \in [SUBSET D -> Counts] :
        Folds(g, D, Counts, NothingYet, AddItem(items), LastOf(items))
  BY FoldOfItems, FoldExists
<1>3. ASSUME NEW s \in SUBSET D, s # {}, NEW m \in Counts
      PROVE  /\ LastOf(items)[s] = Max(s) /\ Max(s) \in D
             /\ AddItem(items)[Max(s)][m] = add(Max(s), m)
  BY <1>3, FoldOfItems DEF AddItem, LastOf, Picks
<1> HIDE DEF add
<1>4. P(g)
  <2>1. ASSUME NEW s \in SUBSET D PROVE g[s] = value(g, s)
    <3>1. CASE s = {}
      BY <1>2, <3>1 DEF Folds
    <3>2. CASE s # {}
      <4>1. g[s \ {Max(s)}] \in Counts
        OBVIOUS
      <4>2. g[s] = AddItem(items)[Max(s)][g[s \ {Max(s)}]]
        BY <1>2, <1>3, <3>2, <4>1 DEF Folds
      <4>3. QED BY <1>3, <3>2, <4>1, <4>2
    <3>3. QED BY <3>1, <3>2
  <2>2. QED BY <2>1
<1>5. P(c)
  BY <1>4
<1>6. PICK h : P(h) /\ Merged(items) = h[D]
  BY <1>1, <1>5
<1>7. Folds(h, D, Counts, NothingYet, AddItem(items), LastOf(items))
  <2>1. h[{}] = NothingYet
    BY <1>6
  <2>2. ASSUME NEW s \in SUBSET D, s # {}, h[s \ {LastOf(items)[s]}] \in Counts
        PROVE  h[s] = AddItem(items)[LastOf(items)[s]][h[s \ {LastOf(items)[s]}]]
    <3>1. h[s] = value(h, s)
      BY <1>6
    <3>2. h[s \ {Max(s)}] \in Counts
      BY <1>3, <2>2, <1>4
    <3>3. QED BY <1>3, <2>2, <3>1, <3>2
  <2>3. QED BY <2>1, <2>2 DEF Folds
<1>8. g[D] = h[D]
  BY <1>2, <1>7, FoldOfItems, FoldUnique
<1>9. QED BY <1>2, <1>6, <1>8

\* What the items up to the k-th ask for of product p.
UpTo(items, k, p) == {i \in 1..k : items[i].product = p}
Quantities(items) == [i \in DOMAIN items |-> items[i].quantity]

LEMMA MergedAddsUp ==
  ASSUME NEW items \in Seq(Item), NEW p \in Products
  PROVE  /\ Merged(items)[p] = SumFunctionOnSet(Quantities(items), UpTo(items, Len(items), p))
         /\ Merged(items)[p] \in 0..(Len(items) * MaxQuantity)
<1> DEFINE n == Len(items)
           q == Quantities(items)
           sum(k) == SumFunctionOnSet(q, UpTo(items, k, p))
<1>1. DOMAIN items = 1..n /\ n \in Nat
  OBVIOUS
<1>2. PICK g \in [SUBSET (1..n) -> Counts] :
        /\ Folds(g, 1..n, Counts, NothingYet, AddItem(items), LastOf(items))
        /\ Merged(items) = g[1..n]
  BY <1>1, MergedIsFold
<1>3. MaxQuantity \in Nat
  BY CheckoutAssumption
<1>4. \A i \in 1..n : /\ items[i].product \in Products
                      /\ items[i].quantity \in 0..MaxQuantity /\ q[i] = items[i].quantity
  BY <1>1, <1>3, ItemAt DEF Quantities
<1> DEFINE G == {k \in 0..n : g[1..k][p] = sum(k) /\ g[1..k][p] <= k * MaxQuantity}
<1>5. 0 \in G
  <2>1. UpTo(items, 0, p) = {} /\ 1..0 = {}
    BY DEF UpTo
  <2>2. sum(0) = 0
    BY <2>1, FS_EmptySet, SumUnfolds
  <2>3. g[1..0][p] = 0
    BY <1>2, <2>1 DEF Folds, NothingYet
  <2>4. QED BY <1>1, <1>3, <2>2, <2>3
<1>6. ASSUME NEW k \in G, k < n PROVE k + 1 \in G
  <2>0. g[1..k][p] = sum(k) /\ g[1..k][p] <= k * MaxQuantity
    OBVIOUS
  <2>1. k \in Nat /\ k + 1 \in 1..n /\ 1..k \in SUBSET (1..n) /\ 1..(k + 1) \in SUBSET (1..n)
    BY <1>1, <1>6
  <2> HIDE DEF G
  <2>2. LastOf(items)[1..(k + 1)] = k + 1 /\ (1..(k + 1)) \ {k + 1} = 1..k
    <3>1. Max(1..(k + 1)) \in 1..(k + 1) /\ Max(1..(k + 1)) >= k + 1
      <4>1. k + 1 \in Nat /\ k + 1 \in 1..(k + 1) /\ 1..(k + 1) \in SUBSET (1..(k + 1))
        BY <2>1
      <4>2. QED BY <4>1, MaxIsLast
    <3>2. Max(1..(k + 1)) = k + 1
      BY <2>1, <3>1
    <3>3. LastOf(items)[1..(k + 1)] = Max(1..(k + 1))
      BY <1>1, <2>1 DEF LastOf
    <3>4. (1..(k + 1)) \ {k + 1} = 1..k
      BY <2>1
    <3>5. QED BY <3>2, <3>3, <3>4
  <2> DEFINE m == g[1..k]
             i == k + 1
  <2>3. m \in Counts
    BY <2>1
  <2>4. g[1..i] = AddItem(items)[i][m]
    <3>1. 1..i # {} /\ 1..i \in SUBSET (1..n) /\ LastOf(items)[1..i] = i
      BY <2>1, <2>2
    <3>2. g[(1..i) \ {LastOf(items)[1..i]}] = m
      BY <2>2, <3>1
    <3> HIDE DEF m, i
    <3>3. QED BY <1>2, <2>3, <3>1, <3>2 DEF Folds
  <2>5. g[1..i] = [m EXCEPT ![items[i].product] = @ + items[i].quantity]
    BY <1>1, <2>1, <2>3, <2>4 DEF AddItem
  <2>6. m[p] \in Nat /\ m[p] = sum(k) /\ m[p] <= k * MaxQuantity
    BY <2>0, <2>3 DEF Counts
  <2>7. (k + 1) * MaxQuantity = k * MaxQuantity + MaxQuantity /\ k * MaxQuantity \in Nat
    BY <1>3, <2>1
  <2>8. CASE items[i].product = p
    <3>1. g[1..i][p] = m[p] + q[i]
      BY <1>4, <2>1, <2>3, <2>5, <2>8 DEF Counts
    <3>2. sum(i) = q[i] + sum(k)
      <4> DEFINE S == UpTo(items, i, p)
      <4>1. i \in S /\ S \ {i} = UpTo(items, k, p) /\ S \in SUBSET (1..n)
        BY <2>1, <2>8 DEF UpTo
      <4>2. IsFiniteSet(S) /\ \A j \in S : q[j] \in Nat
        <5>1. IsFiniteSet(1..n)
          BY <1>1, FS_Interval
        <5>2. \A j \in 1..n : q[j] \in Nat
          BY <1>3, <1>4
        <5> HIDE DEF S, q
        <5>3. QED BY <4>1, <5>1, <5>2, FS_Subset
      <4> HIDE DEF S, q
      <4>3. SumFunctionOnSet(q, S) = q[i] + SumFunctionOnSet(q, S \ {i})
        BY <4>1, <4>2, SumTakesOut
      <4>4. QED BY <4>1, <4>3 DEF S
    <3>3. q[i] \in 0..MaxQuantity
      BY <1>4, <2>1
    <3>4. g[1..i][p] = sum(i)
      BY <2>6, <3>1, <3>2, <3>3
    <3>5. g[1..i][p] <= i * MaxQuantity
      BY <1>3, <2>6, <2>7, <3>1, <3>3
    <3>6. QED BY <1>1, <2>1, <3>4, <3>5 DEF G
  <2>9. CASE items[i].product # p
    <3>1. g[1..i][p] = m[p]
      BY <1>4, <2>1, <2>3, <2>5, <2>9 DEF Counts
    <3>2. UpTo(items, i, p) = UpTo(items, k, p)
      BY <2>1, <2>9 DEF UpTo
    <3>3. g[1..i][p] <= i * MaxQuantity
      BY <1>3, <2>6, <2>7, <3>1
    <3>4. QED BY <1>1, <2>1, <2>6, <3>1, <3>2, <3>3 DEF G
  <2>10. QED BY <2>8, <2>9
<1>7. n \in G
  <2>1. G \in SUBSET (0..n)
    OBVIOUS
  <2> HIDE DEF G
  <2>2. QED BY <1>1, <1>5, <1>6, <2>1, Counting
<1>8. g[1..n][p] \in Nat
  BY <1>1, <1>2 DEF Counts
<1>9. QED BY <1>1, <1>2, <1>3, <1>7, <1>8

\* A product is in an order exactly when an item asks for it.
LEMMA OrderedIsAsked ==
  ASSUME NEW items \in Seq(Item)
  PROVE  Ordered(items) = {items[i].product : i \in DOMAIN items}
<1> DEFINE q == Quantities(items)
           S(p) == UpTo(items, Len(items), p)
<1>1. DOMAIN items = 1..Len(items) /\ Len(items) \in Nat
  OBVIOUS
<1>2. ASSUME NEW p \in Products
      PROVE  Merged(items)[p] > 0 <=> S(p) # {}
  <2>1. /\ IsFiniteSet(S(p)) /\ \A i \in S(p) : q[i] \in Nat /\ q[i] >= 1
    <3>1. IsFiniteSet(1..Len(items)) /\ S(p) \in SUBSET (1..Len(items))
      BY <1>1, FS_Interval DEF UpTo
    <3>2. \A i \in S(p) : q[i] \in Nat /\ q[i] >= 1
      BY <1>1, <3>1, ItemAt DEF Quantities
    <3>3. QED BY <3>1, <3>2, FS_Subset
  <2>2. Merged(items)[p] = SumFunctionOnSet(q, S(p))
    BY MergedAddsUp
  <2> HIDE DEF S, q
  <2>3. S(p) = {} => Merged(items)[p] = 0
    BY <2>1, <2>2, SumUnfolds
  <2>4. ASSUME NEW i \in S(p) PROVE Merged(items)[p] > 0
    <3>1. SumFunctionOnSet(q, S(p)) = q[i] + SumFunctionOnSet(q, S(p) \ {i})
      BY <2>1, SumTakesOut
    <3>2. IsFiniteSet(S(p) \ {i}) /\ \A j \in S(p) \ {i} : q[j] \in Nat
      BY <2>1, FS_Subset
    <3>3. SumFunctionOnSet(q, S(p) \ {i}) \in Nat
      BY <3>2, SumUnfolds
    <3>4. QED BY <2>1, <2>2, <3>1, <3>3
  <2>5. QED BY <2>3, <2>4
<1>3. ASSUME NEW i \in DOMAIN items
      PROVE  items[i].product \in Products /\ i \in S(items[i].product)
  BY <1>1, ItemAt DEF UpTo
<1>4. \A p \in Products : \A i \in S(p) : i \in DOMAIN items /\ items[i].product = p
  BY <1>1 DEF UpTo
<1> HIDE DEF S
<1>5. QED BY <1>2, <1>3, <1>4 DEF Ordered

LEMMA RequestedItems ==
  ASSUME NEW items \in Requested, Valid(items)
  PROVE  items \in Seq(Item) /\ Len(items) <= MaxItems
<1>1. MaxItems \in Nat /\ MaxQuantity \in Nat
  BY CheckoutAssumption
<1> DEFINE Sent == [product : Products, quantity : 0..(MaxQuantity + 1)]
<1>2. PICK m \in 0..(MaxItems + 1) : items \in [1..m -> Sent]
  BY Zenon DEF Requested, BoundedSeq, SeqOf
<1>3. Len(items) \in 1..MaxItems /\ \A i \in DOMAIN items : items[i].quantity \in 1..MaxQuantity
  BY DEF Valid
<1>4. items \in [1..m -> Item]
  BY <1>2, <1>3 DEF Item
<1>5. m \in Nat
  BY <1>1
<1>6. items \in Seq(Item)
  BY <1>4, <1>5, SeqDef
<1>7. QED BY <1>1, <1>3, <1>6

\* The lines that LoadActiveProducts prices are lines of an order, and add up.
LEMMA PricedLines ==
  ASSUME TypeOK, NEW items \in Requested, Valid(items),
         NEW lines, lines = [p \in Ordered(items) |->
                              [quantity |-> Merged(items)[p], unitPrice |-> catalogue[p].price]]
  PROVE  items \in Seq(Item) /\ lines \in Lines /\ AddsUp(items, lines)
<1>1. items \in Seq(Item) /\ Len(items) \in Nat /\ Len(items) <= MaxItems
  BY RequestedItems
<1>2. MaxItems \in Nat /\ MaxQuantity \in Nat /\ Len(items) * MaxQuantity <= MaxItems * MaxQuantity
  BY <1>1, CheckoutAssumption
<1>3. Ordered(items) \in SUBSET Products /\ DOMAIN lines = Ordered(items)
  BY DEF Ordered
<1>4. ASSUME NEW p \in Ordered(items)
      PROVE  /\ lines[p] \in Line
             /\ lines[p].quantity = SumFunctionOnSet(Quantities(items), UpTo(items, Len(items), p))
  <2>1. p \in Products /\ Merged(items)[p] > 0
    BY DEF Ordered
  <2>2. /\ Merged(items)[p] \in 0..(Len(items) * MaxQuantity)
        /\ Merged(items)[p] = SumFunctionOnSet(Quantities(items), UpTo(items, Len(items), p))
    BY <1>1, <2>1, MergedAddsUp
  <2> DEFINE bound == MaxItems * MaxQuantity
  <2>3. Merged(items)[p] \in 1..bound
    <3>1. Len(items) * MaxQuantity \in Nat /\ bound \in Nat
      BY <1>1, <1>2
    <3>2. QED BY <1>2, <2>1, <2>2, <3>1
  <2>4. catalogue[p].price \in Prices
    BY <2>1 DEF TypeOK, ProductRow
  <2>5. lines[p] = [quantity |-> Merged(items)[p], unitPrice |-> catalogue[p].price]
    OBVIOUS
  <2> HIDE DEF bound
  <2>6. QED BY <2>2, <2>3, <2>4, <2>5 DEF Line, bound
<1>5. lines \in Lines
  <2>1. lines \in [Ordered(items) -> Line]
    BY <1>4
  <2>2. QED BY <1>3, <2>1 DEF Lines
<1>6. \A p : UpTo(items, Len(items), p) = {i \in DOMAIN items : items[i].product = p}
  BY <1>1 DEF UpTo
<1>7. QED BY <1>1, <1>3, <1>4, <1>5, <1>6, OrderedIsAsked DEF AddsUp, Quantities

LEMMA TotalIsNat ==
  ASSUME NEW lines \in Lines
  PROVE  TotalAmount(lines) \in Nat
<1>1. PICK P \in SUBSET Products : lines \in [P -> Line]
  BY DEF Lines
<1>2. IsFiniteSet(P)
  BY CheckoutAssumption, FS_Subset
<1> DEFINE f == [p \in DOMAIN lines |-> lines[p].quantity * lines[p].unitPrice]
<1>3. DOMAIN f = P
  BY <1>1
<1>4. ASSUME NEW p \in P PROVE f[p] \in Nat
  <2> DEFINE bound == MaxItems * MaxQuantity
  <2>1. bound \in Nat
    BY CheckoutAssumption
  <2>2. lines[p] \in [quantity : 1..bound, unitPrice : Prices]
    BY <1>1 DEF Line
  <2> HIDE DEF bound
  <2>3. lines[p].quantity \in Nat /\ lines[p].unitPrice \in Nat
    <3>1. lines[p].quantity \in 1..bound /\ lines[p].unitPrice \in Prices
      BY <2>2
    <3>2. Prices \subseteq Nat
      BY CheckoutAssumption
    <3>3. lines[p].unitPrice \in Nat
      BY Zenon, <3>1, <3>2
    <3>4. \A i \in 1..bound : i \in Nat
      BY <2>1
    <3>5. QED BY Zenon, <3>1, <3>3, <3>4
  <2>4. f[p] = lines[p].quantity * lines[p].unitPrice
    BY <1>1
  <2>5. \A a, b \in Nat : a * b \in Nat
    OBVIOUS
  <2> HIDE DEF f
  <2>6. QED BY <2>3, <2>4, <2>5
<1>5. TotalAmount(lines) = SumFunctionOnSet(f, P)
  BY <1>3 DEF TotalAmount, SumFunction
<1> HIDE DEF f
<1>6. QED BY <1>2, <1>4, <1>5, SumUnfolds

-----------------------------------------------------------------------------
(* Types *)

LEMMA IdleState == Idle \in WorkerState
<1>1. <<>> \in [{} -> Line] /\ {} \in SUBSET Products
  OBVIOUS
<1>2. QED BY <1>1 DEF Idle, WorkerState, Lines

LEMMA InitTypeOK == Init => TypeOK
<1> SUFFICES ASSUME Init PROVE TypeOK
  OBVIOUS
<1>1. NoOrder \in OrderRow
  <2>1. <<>> \in [{} -> Line] /\ {} \in SUBSET Products
    OBVIOUS
  <2>2. <<>> \in Lines
    BY <2>1 DEF Lines
  <2>3. QED BY <2>2 DEF NoOrder, OrderRow
<1>2. NoAttempt \in AttemptRow
  BY DEF NoAttempt, AttemptRow
<1>3. QED BY <1>1, <1>2, IdleState, CheckoutAssumption DEF Init, TypeOK

LEMMA CommitOrderType ==
  ASSUME TypeOK, NEW w \in Workers, CommitOrder(w)
  PROVE  order' \in [Orders -> OrderRow]
<1> DEFINE row == [status |-> "pending", asked |-> worker[w].asked, lines |-> worker[w].lines,
                   total |-> TotalAmount(worker[w].lines)]
<1>1. worker[w].lines \in Lines /\ worker[w].asked \in Seq(Item)
  BY DEF TypeOK, WorkerState
<1>2. row \in OrderRow
  BY <1>1, TotalIsNat DEF OrderRow
<1>3. order' = [order EXCEPT ![worker[w].order] = row]
  BY DEF CommitOrder
<1> HIDE DEF row
<1>4. QED BY <1>2, <1>3 DEF TypeOK

LEMMA TypeStep ==
  ASSUME TypeOK, WorkerInv, [Next]_vars
  PROVE  TypeOK'
<1>0. ASSUME NEW w \in Workers, Finish(w) \/ \E pc \in {"velocity", "pay", "failed"} : Goto(w, pc)
      PROVE  worker' \in [Workers -> WorkerState]
  <2>1. CASE Finish(w)
    BY <2>1, IdleState DEF Finish, TypeOK
  <2>2. ASSUME NEW pc \in {"velocity", "pay", "failed"}, Goto(w, pc)
        PROVE  worker' \in [Workers -> WorkerState]
    <3> DEFINE row == [worker[w] EXCEPT !.pc = pc]
    <3>1. row \in WorkerState
      BY DEF TypeOK, WorkerState
    <3>2. worker' = [worker EXCEPT ![w] = row]
      BY <2>2 DEF Goto
    <3> HIDE DEF row
    <3>3. QED BY <3>1, <3>2 DEF TypeOK
  <2>3. QED BY <1>0, <2>1, <2>2
<1>1. ASSUME NEW w \in Workers, LoadActiveProducts(w) PROVE TypeOK'
  <2>1. PICK o \in Orders, items \in Requested :
          /\ Valid(items)
          /\ worker' = [worker EXCEPT ![w] =
               [Idle EXCEPT !.pc = "insertOrder", !.order = o, !.asked = items,
                            !.lines = [p \in Ordered(items) |->
                              [quantity |-> Merged(items)[p], unitPrice |-> catalogue[p].price]]]]
    BY <1>1 DEF LoadActiveProducts
  <2> DEFINE priced == [p \in Ordered(items) |->
                         [quantity |-> Merged(items)[p], unitPrice |-> catalogue[p].price]]
             row == [Idle EXCEPT !.pc = "insertOrder", !.order = o, !.asked = items,
                                 !.lines = priced]
  <2>2. items \in Seq(Item) /\ priced \in Lines
    BY <2>1, PricedLines
  <2>3. worker' = [worker EXCEPT ![w] = row]
    BY <2>1
  <2> HIDE DEF priced
  <2>4. row \in WorkerState
    BY <2>2 DEF Idle, WorkerState
  <2> HIDE DEF row
  <2>5. QED BY <1>1, <2>3, <2>4 DEF LoadActiveProducts, TypeOK
<1>2. ASSUME NEW w \in Workers, CommitOrder(w) PROVE TypeOK'
  BY <1>0, <1>2, CommitOrderType DEF CommitOrder, TypeOK
<1>3. ASSUME NEW w \in Workers, NEW o \in Orders, NEW n \in Nonces, NEW k \in Keys \cup {None},
             RequestPayment(w, o, n, k)
      PROVE  TypeOK'
  <2> DEFINE row == [Idle EXCEPT !.pc = "nonce", !.order = o, !.nonce = n,
                                 !.key = IF k = None THEN n ELSE k]
  <2>1. row \in WorkerState
    BY IdleState DEF WorkerState
  <2>2. worker' = [worker EXCEPT ![w] = row]
    BY <1>3 DEF RequestPayment
  <2> HIDE DEF row
  <2>3. QED BY <1>3, <2>1, <2>2 DEF RequestPayment, TypeOK
<1>4. ASSUME NEW w \in Workers, ConsumeNonce(w) PROVE TypeOK'
  <2>1. worker[w].nonce \in Nonces
    BY <1>4 DEF ConsumeNonce, At, WorkerInv
  <2>2. QED BY <1>0, <1>4, <2>1 DEF ConsumeNonce, TypeOK
<1>5. ASSUME NEW w \in Workers, CheckVelocity(w) PROVE TypeOK'
  <2>1. failures' \in SUBSET failures
    BY <1>5 DEF CheckVelocity, Recent
  <2>2. begun' \in [Nonces -> Nat]
    BY <1>5 DEF CheckVelocity, TypeOK
  <2>3. QED BY <1>0, <1>5, <2>1, <2>2 DEF CheckVelocity, TypeOK
<1>6. ASSUME NEW w \in Workers, Pay(w) PROVE TypeOK'
  <2> DEFINE o == worker[w].order
             k == worker[w].key
  <2>1. o \in Orders /\ k \in Nonces \cup Keys
    BY <1>6 DEF Pay, At, WorkerInv
  <2>2. worker' \in [Workers -> WorkerState]
    BY <1>0, <1>6 DEF Pay
  <2>3. order' \in [Orders -> OrderRow]
    BY <1>6, <2>1 DEF Pay, TypeOK, OrderRow
  <2>4. [order |-> o, amount |-> Charged(o)] \in AttemptRow
    BY <2>1 DEF Charged, AttemptRow, TypeOK, OrderRow
  <2>5. attempt' \in [Nonces \cup Keys -> AttemptRow]
    BY <1>6, <2>4 DEF Pay, TypeOK
  <2>6. QED BY <1>6, <2>2, <2>3, <2>5 DEF Pay, TypeOK
<1>7. ASSUME NEW w \in Workers, RecordFailure(w) PROVE TypeOK'
  <2>1. worker[w].nonce \in Nonces
    BY <1>7 DEF RecordFailure, At, WorkerInv
  <2>2. QED BY <1>0, <1>7, <2>1 DEF RecordFailure, Recent, TypeOK
<1>8. ASSUME NEW o \in Orders, SettleOrder(o) PROVE TypeOK'
  <2>1. order' \in [Orders -> OrderRow]
    BY <1>8 DEF SettleOrder, TypeOK, OrderRow
  <2>2. QED BY <1>8, <2>1 DEF SettleOrder, TypeOK
<1>9. ASSUME NEW p \in Products, NEW price \in Prices, NEW active \in BOOLEAN,
             ChangeProduct(p, price, active)
      PROVE  TypeOK'
  <2>1. catalogue' \in [Products -> ProductRow]
    BY <1>9 DEF ChangeProduct, TypeOK, ProductRow
  <2>2. changes' \in 0..MaxChanges
    BY <1>9, CheckoutAssumption DEF ChangeProduct, TypeOK
  <2>3. QED BY <1>9, <2>1, <2>2 DEF ChangeProduct, TypeOK
<1>10. CASE Tick
  BY <1>10, CheckoutAssumption DEF Tick, TypeOK
<1>11. CASE Crash
  <2>1. changes' \in 0..MaxChanges /\ failures' = {}
    BY <1>11, CheckoutAssumption DEF Crash, TypeOK
  <2>2. worker' \in [Workers -> WorkerState]
    BY <1>11, IdleState DEF Crash
  <2>3. QED BY <1>11, <2>1, <2>2 DEF Crash, TypeOK
<1>12. CASE UNCHANGED vars
  BY <1>12 DEF vars, TypeOK
<1>13. QED
  BY <1>1, <1>2, <1>3, <1>4, <1>5, <1>6, <1>7, <1>8, <1>9, <1>10, <1>11, <1>12 DEF Next

-----------------------------------------------------------------------------
(* Requests in flight *)

\* A request is at a point of its code because of the one step that leads there.
Arrives(v) ==
  \/ worker'[v] = Idle
  \/ LoadActiveProducts(v) /\ worker'[v].pc = "insertOrder"
  \/ \E o \in Orders, n \in Nonces, k \in Keys \cup {None} :
       /\ worker'[v].pc = "nonce" /\ worker'[v].order = o /\ worker'[v].nonce = n
       /\ worker'[v].key = IF k = None THEN n ELSE k
  \/ /\ ConsumeNonce(v) /\ At(v, "nonce") /\ NonceIsNew(worker[v].nonce)
     /\ nonces' = nonces \cup {worker[v].nonce}
     /\ worker'[v] = [worker[v] EXCEPT !.pc = "velocity"]
  \/ /\ CheckVelocity(v) /\ At(v, "velocity") /\ ~Blocked
     /\ begun' = [begun EXCEPT ![worker[v].nonce] = @ + 1]
     /\ worker'[v] = [worker[v] EXCEPT !.pc = "pay"]
  \/ /\ Pay(v) /\ At(v, "pay")
     /\ worker'[v] = [worker[v] EXCEPT !.pc = "failed"]

LEMMA Arrival ==
  ASSUME TypeOK, [Next]_vars, NEW v \in Workers, worker'[v] # worker[v]
  PROVE  Arrives(v)
<1>0. worker \in [Workers -> WorkerState]
  BY DEF TypeOK
<1>1. ASSUME NEW w \in Workers, Finish(w) PROVE Arrives(v)
  <2>1. worker' = [worker EXCEPT ![w] = Idle]
    BY <1>1 DEF Finish
  <2>2. QED BY <1>0, <2>1 DEF Arrives
<1>2. ASSUME NEW w \in Workers, NEW pc, Goto(w, pc)
      PROVE  w = v /\ worker'[v] = [worker[v] EXCEPT !.pc = pc]
  BY <1>0, <1>2 DEF Goto
<1>3. ASSUME NEW w \in Workers, LoadActiveProducts(w) PROVE Arrives(v)
  <2>1. w = v /\ worker'[v].pc = "insertOrder"
    BY <1>0, <1>3 DEF LoadActiveProducts, Idle
  <2>2. QED BY <1>3, <2>1 DEF Arrives
<1>4. ASSUME NEW w \in Workers, CommitOrder(w) PROVE Arrives(v)
  BY <1>1, <1>4 DEF CommitOrder
<1>5. ASSUME NEW w \in Workers, NEW o \in Orders, NEW n \in Nonces, NEW k \in Keys \cup {None},
             RequestPayment(w, o, n, k)
      PROVE  Arrives(v)
  <2>1. /\ worker'[v].pc = "nonce" /\ worker'[v].order = o /\ worker'[v].nonce = n
        /\ worker'[v].key = IF k = None THEN n ELSE k
    BY <1>0, <1>5 DEF RequestPayment, Idle
  <2>2. QED BY <2>1 DEF Arrives
<1>6. ASSUME NEW w \in Workers, ConsumeNonce(w) PROVE Arrives(v)
  <2>1. CASE Finish(w)
    BY <1>1, <2>1
  <2>2. CASE ~Finish(w)
    <3>1. /\ At(w, "nonce") /\ NonceIsNew(worker[w].nonce) /\ Goto(w, "velocity")
          /\ nonces' = nonces \cup {worker[w].nonce}
      BY <1>6, <2>2 DEF ConsumeNonce
    <3>2. QED BY <1>2, <1>6, <3>1 DEF Arrives
  <2>3. QED BY <2>1, <2>2
<1>7. ASSUME NEW w \in Workers, CheckVelocity(w) PROVE Arrives(v)
  <2>1. CASE Finish(w)
    BY <1>1, <2>1
  <2>2. CASE ~Finish(w)
    <3>1. /\ At(w, "velocity") /\ ~Blocked /\ Goto(w, "pay")
          /\ begun' = [begun EXCEPT ![worker[w].nonce] = @ + 1]
      BY <1>7, <2>2 DEF CheckVelocity
    <3>2. QED BY <1>2, <1>7, <3>1 DEF Arrives
  <2>3. QED BY <2>1, <2>2
<1>8. ASSUME NEW w \in Workers, Pay(w) PROVE Arrives(v)
  <2>1. At(w, "pay") /\ (Finish(w) \/ Goto(w, "failed"))
    BY <1>8 DEF Pay
  <2>2. CASE Finish(w)
    BY <1>1, <2>2
  <2>3. CASE Goto(w, "failed")
    BY <1>2, <1>8, <2>1, <2>3 DEF Arrives
  <2>4. QED BY <2>1, <2>2, <2>3
<1>9. ASSUME NEW w \in Workers, RecordFailure(w) PROVE Arrives(v)
  BY <1>1, <1>9 DEF RecordFailure
<1>10. CASE Crash
  BY <1>10 DEF Crash, Arrives
<1>11. ASSUME UNCHANGED worker PROVE FALSE
  BY <1>11
<1>12. QED
  BY <1>3, <1>4, <1>5, <1>6, <1>7, <1>8, <1>9, <1>10, <1>11
  DEF Next, vars, SettleOrder, ChangeProduct, Tick

LEMMA WorkerStep ==
  ASSUME TypeOK, WorkerInv, [Next]_vars
  PROVE  WorkerInv'
<1> SUFFICES ASSUME NEW v \in Workers
             PROVE  /\ worker'[v].pc \in {"nonce", "velocity", "pay", "failed"} =>
                         worker'[v].nonce \in Nonces
                    /\ worker'[v].pc \in {"nonce", "velocity", "pay"} =>
                         worker'[v].order \in Orders /\ worker'[v].key \in Nonces \cup Keys
  BY DEF WorkerInv
<1>1. CASE worker'[v] = worker[v]
  BY <1>1 DEF WorkerInv
<1>2. CASE worker'[v] # worker[v]
  <2>1. Arrives(v)
    BY <1>2, Arrival
  <2>2. worker[v] \in WorkerState
    BY DEF TypeOK
  <2>3. CASE \E pc \in {"velocity", "pay", "failed"} :
               worker'[v] = [worker[v] EXCEPT !.pc = pc]
    BY <2>1, <2>2, <2>3 DEF Arrives, Idle, At, WorkerInv, WorkerState
  <2>4. CASE worker'[v].pc \in {"idle", "insertOrder"}
    BY <2>4
  <2>5. CASE worker'[v].pc = "nonce"
    BY <2>1, <2>2, <2>5 DEF Arrives, Idle, WorkerState
  <2>6. QED BY <2>1, <2>3, <2>4, <2>5 DEF Arrives, Idle
<1>3. QED BY <1>1, <1>2

-----------------------------------------------------------------------------
(* Orders *)

\* The only ways to write a row of orders: an order is inserted, or the status of
\* one that was is updated.
Inserts(w, o) ==
  /\ CommitOrder(w) /\ At(w, "insertOrder") /\ worker[w].order = o /\ worker'[w] = Idle
  /\ order'[o] = [status |-> "pending", asked |-> worker[w].asked, lines |-> worker[w].lines,
                  total |-> TotalAmount(worker[w].lines)]
Updates(o) ==
  \E s \in {"processing", "paid", "payment_failed"} :
    order[o].status # "none" /\ order'[o] = [order[o] EXCEPT !.status = s]

LEMMA OrderWrites ==
  ASSUME TypeOK, [Next]_vars, NEW o \in Orders, order'[o] # order[o]
  PROVE  (\E w \in Workers : Inserts(w, o)) \/ Updates(o)
<1>0. order \in [Orders -> OrderRow] /\ worker \in [Workers -> WorkerState]
  BY DEF TypeOK
<1>1. ASSUME NEW w \in Workers, CommitOrder(w) PROVE Inserts(w, o)
  <2> DEFINE row == [status |-> "pending", asked |-> worker[w].asked,
                     lines |-> worker[w].lines, total |-> TotalAmount(worker[w].lines)]
  <2>1. order' = [order EXCEPT ![worker[w].order] = row] /\ At(w, "insertOrder")
        /\ worker' = [worker EXCEPT ![w] = Idle]
    BY <1>1 DEF CommitOrder, Finish
  <2> HIDE DEF row
  <2>2. worker[w].order = o /\ order'[o] = row /\ worker'[w] = Idle
    BY <1>0, <2>1
  <2>3. QED BY <1>1, <2>1, <2>2 DEF Inserts, row
<1>2. ASSUME NEW w \in Workers, Pay(w) PROVE Updates(o)
  <2>1. /\ Payable(worker[w].order)
        /\ order' = [order EXCEPT ![worker[w].order].status = "processing"]
    BY <1>2 DEF Pay
  <2>2. worker[w].order = o
    BY <1>0, <2>1
  <2>3. order'[o] = [order[o] EXCEPT !.status = "processing"] /\ order[o].status # "none"
    BY <1>0, <2>1, <2>2 DEF Payable
  <2>4. QED BY <2>3 DEF Updates
<1>3. ASSUME NEW q \in Orders, SettleOrder(q) PROVE Updates(o)
  BY <1>0, <1>3 DEF SettleOrder, Updates
<1>4. ASSUME UNCHANGED order PROVE FALSE
  BY <1>4
<1>5. QED
  BY <1>1, <1>2, <1>3, <1>4
  DEF Next, vars, LoadActiveProducts, RequestPayment, ConsumeNonce, CheckVelocity,
      RecordFailure, ChangeProduct, Tick, Crash

LEMMA OrderStep ==
  ASSUME TypeOK, OrderInv, InsertInv, [Next]_vars
  PROVE  OrderInv'
<1> DEFINE Fine(r) == /\ r.status = "none" => r = NoOrder
                      /\ AddsUp(r.asked, r.lines)
                      /\ r.total = TotalAmount(r.lines)
<1>1. ASSUME NEW o \in Orders PROVE Fine(order'[o])
  <2>1. Fine(order[o])
    BY DEF OrderInv
  <2>2. order[o] \in OrderRow
    BY DEF TypeOK
  <2>3. ASSUME NEW w \in Workers, Inserts(w, o) PROVE Fine(order'[o])
    <3>1. AddsUp(worker[w].asked, worker[w].lines)
      BY <2>3 DEF Inserts, InsertInv
    <3>2. /\ order'[o].status = "pending" /\ order'[o].asked = worker[w].asked
          /\ order'[o].lines = worker[w].lines /\ order'[o].total = TotalAmount(worker[w].lines)
      BY <2>3 DEF Inserts
    <3>3. QED BY <3>1, <3>2
  <2>4. ASSUME Updates(o) PROVE Fine(order'[o])
    <3>1. /\ order'[o].status # "none" /\ order'[o].asked = order[o].asked
          /\ order'[o].lines = order[o].lines /\ order'[o].total = order[o].total
      BY <2>2, <2>4 DEF Updates, OrderRow
    <3>2. QED BY <2>1, <3>1
  <2>5. CASE order'[o] = order[o]
    BY <2>1, <2>5
  <2>6. QED BY <2>3, <2>4, <2>5, OrderWrites
<1>2. QED BY <1>1 DEF OrderInv, AddsUp, TotalAmount

\* What a request that loaded its products has in hand; no other request moved.
LEMMA Loaded ==
  ASSUME TypeOK, NEW w \in Workers, LoadActiveProducts(w)
  PROVE  /\ worker'[w].order \in Orders /\ order[worker'[w].order] = NoOrder
         /\ \A v \in Workers : worker[v].order # worker'[w].order
         /\ AddsUp(worker'[w].asked, worker'[w].lines)
         /\ \A v \in Workers : v # w => worker'[v] = worker[v]
         /\ order' = order
<1>1. PICK o \in Orders, items \in Requested :
        /\ order[o] = NoOrder /\ \A v \in Workers : worker[v].order # o
        /\ Valid(items)
        /\ worker' = [worker EXCEPT ![w] =
             [Idle EXCEPT !.pc = "insertOrder", !.order = o, !.asked = items,
                          !.lines = [p \in Ordered(items) |->
                            [quantity |-> Merged(items)[p], unitPrice |-> catalogue[p].price]]]]
  BY DEF LoadActiveProducts
<1> DEFINE priced == [p \in Ordered(items) |->
                       [quantity |-> Merged(items)[p], unitPrice |-> catalogue[p].price]]
           row == [Idle EXCEPT !.pc = "insertOrder", !.order = o, !.asked = items,
                               !.lines = priced]
<1>2. AddsUp(items, priced)
  BY <1>1, PricedLines
<1>3. worker' = [worker EXCEPT ![w] = row]
  BY <1>1
<1> HIDE DEF priced
<1>4. row.order = o /\ row.asked = items /\ row.lines = priced
  BY DEF Idle
<1> HIDE DEF row
<1>5. worker'[w] = row /\ \A v \in Workers : v # w => worker'[v] = worker[v]
  BY <1>3 DEF TypeOK
<1>6. order' = order
  BY DEF LoadActiveProducts
<1>7. QED BY <1>1, <1>2, <1>4, <1>5, <1>6

LEMMA InsertStep ==
  ASSUME TypeOK, InsertInv, [Next]_vars
  PROVE  InsertInv'
<1> SUFFICES ASSUME NEW w \in Workers, worker'[w].pc = "insertOrder"
             PROVE  /\ worker'[w].order \in Orders /\ order'[worker'[w].order] = NoOrder
                    /\ \A v \in Workers : worker'[v].pc = "insertOrder" /\ v # w =>
                         worker'[v].order # worker'[w].order
                    /\ AddsUp(worker'[w].asked, worker'[w].lines)
  BY DEF InsertInv, At, AddsUp
<1>1. ASSUME NEW v \in Workers, worker'[v].pc = "insertOrder", worker'[v] # worker[v]
      PROVE  LoadActiveProducts(v)
  <2>1. Arrives(v) /\ worker[v] \in WorkerState
    BY <1>1, Arrival DEF TypeOK
  <2>2. QED BY <1>1, <2>1 DEF Arrives, Idle, WorkerState
<1>2. CASE worker'[w] # worker[w]
  <2>1. LoadActiveProducts(w)
    BY <1>1, <1>2
  <2>2. QED BY <2>1, Loaded
<1>3. CASE worker'[w] = worker[w]
  <2> DEFINE o == worker[w].order
  <2>1. /\ o \in Orders /\ order[o] = NoOrder /\ AddsUp(worker[w].asked, worker[w].lines)
        /\ \A v \in Workers : At(v, "insertOrder") /\ v # w => worker[v].order # o
    BY <1>3 DEF InsertInv, At
  <2>2. order'[o] = NoOrder
    <3>1. ~Updates(o)
      BY <2>1 DEF Updates, NoOrder
    <3>2. ASSUME NEW v \in Workers, Inserts(v, o) PROVE FALSE
      BY <1>3, <2>1, <3>2 DEF Inserts, Idle
    <3>3. QED BY <2>1, <3>1, <3>2, OrderWrites
  <2>3. ASSUME NEW v \in Workers, worker'[v].pc = "insertOrder", v # w
        PROVE  worker'[v].order # o
    <3>1. CASE worker'[v] = worker[v]
      BY <2>1, <2>3, <3>1 DEF At
    <3>2. CASE worker'[v] # worker[v]
      BY <1>1, <2>3, <3>2, Loaded
    <3>3. QED BY <3>1, <3>2
  <2>4. QED BY <1>3, <2>1, <2>2, <2>3
<1>4. QED BY <1>2, <1>3

\* An order that was placed keeps what it says.
LEMMA OrderStays ==
  ASSUME TypeOK, InsertInv, [Next]_vars, NEW o \in Orders, order[o].status # "none"
  PROVE  /\ order'[o].status # "none" /\ order'[o].total = order[o].total
         /\ order'[o].asked = order[o].asked /\ order'[o].lines = order[o].lines
<1>1. ASSUME NEW w \in Workers, Inserts(w, o) PROVE FALSE
  BY <1>1 DEF Inserts, InsertInv, NoOrder
<1>2. CASE Updates(o)
  BY <1>2 DEF Updates, TypeOK, OrderRow
<1>3. QED BY <1>1, <1>2, OrderWrites

\* An attempt is claimed once.
LEMMA AttemptStays ==
  ASSUME TypeOK, [Next]_vars, NEW k \in Nonces \cup Keys, attempt[k] # NoAttempt
  PROVE  attempt'[k] = attempt[k]
<1>1. CASE \E w \in Workers : Pay(w)
  <2>1. PICK w \in Workers : Pay(w)
    BY <1>1
  <2>2. CASE attempt[worker[w].key] = NoAttempt
    <3>1. \/ UNCHANGED attempt
          \/ \E r : attempt' = [attempt EXCEPT ![worker[w].key] = r]
      BY <2>1 DEF Pay
    <3>2. QED BY <2>2, <3>1 DEF TypeOK
  <2>3. CASE attempt[worker[w].key] # NoAttempt
    BY <2>1, <2>3 DEF Pay
  <2>4. QED BY <2>2, <2>3
<1>2. CASE UNCHANGED attempt
  BY <1>2
<1>3. QED
  BY <1>1, <1>2
  DEF Next, vars, LoadActiveProducts, CommitOrder, RequestPayment, ConsumeNonce,
      CheckVelocity, RecordFailure, SettleOrder, ChangeProduct, Tick, Crash

LEMMA AttemptStep ==
  ASSUME TypeOK, WorkerInv, InsertInv, AttemptInv, [Next]_vars
  PROVE  AttemptInv'
<1>1. ASSUME NEW o \in Orders, order[o].status # "none"
      PROVE  order'[o].status # "none" /\ order'[o].total = order[o].total
  BY <1>1, OrderStays
<1>2. ASSUME NEW k \in Nonces \cup Keys, attempt'[k] # attempt[k]
      PROVE  /\ attempt'[k].order \in Orders /\ order[attempt'[k].order].status # "none"
             /\ attempt'[k].amount = order[attempt'[k].order].total
  <2>1. PICK w \in Workers : Pay(w)
    <3>1. attempt' # attempt
      BY <1>2
    <3>2. QED
      BY <3>1
      DEF Next, vars, LoadActiveProducts, CommitOrder, RequestPayment, ConsumeNonce,
          CheckVelocity, RecordFailure, SettleOrder, ChangeProduct, Tick, Crash
  <2> DEFINE o == worker[w].order
  <2>2. /\ Payable(o)
        /\ attempt' = [attempt EXCEPT ![worker[w].key] = [order |-> o, amount |-> Charged(o)]]
    BY <1>2, <2>1 DEF Pay
  <2>3. o \in Orders
    BY <2>1 DEF Pay, At, WorkerInv
  <2>4. attempt'[k] = [order |-> o, amount |-> Charged(o)]
    BY <1>2, <2>2 DEF TypeOK
  <2>5. QED BY <2>2, <2>3, <2>4 DEF Payable, Charged
<1>3. ASSUME NEW k \in Nonces \cup Keys, attempt'[k] # NoAttempt
      PROVE  /\ attempt'[k].order \in Orders /\ order'[attempt'[k].order].status # "none"
             /\ attempt'[k].amount = order'[attempt'[k].order].total
  <2>1. CASE attempt'[k] = attempt[k]
    BY <1>1, <1>3, <2>1 DEF AttemptInv
  <2>2. CASE attempt'[k] # attempt[k]
    BY <1>1, <1>2, <2>2
  <2>3. QED BY <2>1, <2>2
<1>4. QED BY <1>3 DEF AttemptInv, NoAttempt

-----------------------------------------------------------------------------
(* Nonces *)

LEMMA NoncesGrow ==
  ASSUME [Next]_vars
  PROVE  nonces \subseteq nonces'
BY DEF Next, vars, LoadActiveProducts, CommitOrder, RequestPayment, ConsumeNonce,
   CheckVelocity, Pay, RecordFailure, SettleOrder, ChangeProduct, Tick, Crash

\* A payment is begun by a request that passes the velocity check.
LEMMA BegunWrites ==
  ASSUME TypeOK, [Next]_vars, NEW n \in Nonces, begun'[n] # begun[n]
  PROVE  \E w \in Workers : /\ At(w, "velocity") /\ worker[w].nonce = n
                            /\ begun'[n] = begun[n] + 1 /\ worker'[w].pc = "pay"
<1>1. PICK w \in Workers : CheckVelocity(w)
  <2>1. begun' # begun
    OBVIOUS
  <2>2. QED
    BY <2>1
    DEF Next, vars, LoadActiveProducts, CommitOrder, RequestPayment, ConsumeNonce,
        Pay, RecordFailure, SettleOrder, ChangeProduct, Tick, Crash
<1>2. /\ At(w, "velocity") /\ Goto(w, "pay")
      /\ begun' = [begun EXCEPT ![worker[w].nonce] = @ + 1]
  BY <1>1 DEF CheckVelocity
<1>3. worker'[w].pc = "pay"
  BY <1>2 DEF Goto, TypeOK, WorkerState
<1>4. QED BY <1>2, <1>3 DEF TypeOK

\* A failure is counted by the request that failed.
LEMMA FailureWrites ==
  ASSUME TypeOK, [Next]_vars, NEW f \in failures', f \notin failures
  PROVE  \E w \in Workers : /\ RecordFailure(w) /\ At(w, "failed")
                            /\ f.nonce = worker[w].nonce /\ worker'[w] = Idle
<1>1. PICK w \in Workers : RecordFailure(w)
  <2>1. \A w \in Workers : CheckVelocity(w) => failures' \subseteq failures
    BY DEF CheckVelocity, Recent
  <2>2. ~(failures' \subseteq failures)
    OBVIOUS
  <2>3. QED
    BY <2>1, <2>2
    DEF Next, vars, LoadActiveProducts, CommitOrder, RequestPayment, ConsumeNonce,
        Pay, SettleOrder, ChangeProduct, Tick, Crash
<1>2. f = [nonce |-> worker[w].nonce, at |-> now]
  BY <1>1 DEF RecordFailure, Recent
<1>3. At(w, "failed") /\ worker'[w] = Idle
  BY <1>1 DEF RecordFailure, Finish, TypeOK
<1>4. QED BY <1>1, <1>2, <1>3

\* A request that has used up its nonce did so before, or is the only one to move.
LEMMA HoldsFrom ==
  ASSUME TypeOK, [Next]_vars, NEW v \in Workers,
         worker'[v].pc \in {"velocity", "pay", "failed"}
  PROVE  /\ worker'[v].nonce = worker[v].nonce
         /\ \/ Holds(v) /\ (worker'[v].pc = "velocity" => At(v, "velocity"))
            \/ /\ worker[v].nonce \notin nonces /\ nonces' = nonces \cup {worker[v].nonce}
               /\ begun' = begun /\ failures' = failures
               /\ \A u \in Workers : u # v => worker'[u] = worker[u]
<1>1. CASE worker'[v] = worker[v]
  BY <1>1 DEF Holds, At
<1>2. CASE worker'[v] # worker[v]
  <2>1. Arrives(v) /\ worker[v] \in WorkerState
    BY <1>2, Arrival DEF TypeOK
  <2>2. CASE ConsumeNonce(v) /\ NonceIsNew(worker[v].nonce)
             /\ nonces' = nonces \cup {worker[v].nonce}
             /\ worker'[v] = [worker[v] EXCEPT !.pc = "velocity"]
    <3>1. \A u \in Workers : u # v => worker'[u] = worker[u]
      BY <2>2 DEF ConsumeNonce, Goto, Finish, TypeOK
    <3>2. worker'[v].nonce = worker[v].nonce
      BY <2>1, <2>2 DEF WorkerState
    <3>3. QED BY <2>2, <3>1, <3>2 DEF ConsumeNonce, NonceIsNew
  <2>3. CASE /\ At(v, "velocity") \/ At(v, "pay")
             /\ \E pc \in {"pay", "failed"} : worker'[v] = [worker[v] EXCEPT !.pc = pc]
    BY <2>1, <2>3 DEF Arrives, Idle, At, Holds, WorkerState
  <2>4. QED BY <2>1, <2>2, <2>3 DEF Arrives, Idle
<1>3. QED BY <1>1, <1>2

LEMMA NonceStep ==
  ASSUME TypeOK, WorkerInv, NonceInv, [Next]_vars
  PROVE  NonceInv'
<1>1. ASSUME NEW n \in Nonces
      PROVE  begun'[n] <= 1 /\ (n \notin nonces' => begun'[n] = 0)
  <2>1. CASE begun'[n] = begun[n]
    BY <2>1, NoncesGrow DEF NonceInv
  <2>2. CASE begun'[n] # begun[n]
    <3>1. PICK w \in Workers : /\ At(w, "velocity") /\ worker[w].nonce = n
                               /\ begun'[n] = begun[n] + 1
      BY <2>2, BegunWrites
    <3>2. begun[n] = 0 /\ n \in nonces
      BY <3>1 DEF NonceInv, Holds, At
    <3>3. QED BY <3>1, <3>2, NoncesGrow
  <2>3. QED BY <2>1, <2>2
<1> DEFINE Fresh(v) ==
      /\ worker[v].nonce \notin nonces /\ nonces' = nonces \cup {worker[v].nonce}
      /\ begun' = begun /\ failures' = failures
      /\ \A u \in Workers : u # v => worker'[u] = worker[u]
<1>2. ASSUME NEW v \in Workers, worker'[v].pc \in {"velocity", "pay", "failed"}
      PROVE  /\ worker'[v].nonce \in nonces'
             /\ worker'[v].pc = "velocity" => begun'[worker'[v].nonce] = 0
             /\ \A u \in Workers : u # v /\ worker'[u].pc \in {"velocity", "pay", "failed"} =>
                  worker'[u].nonce # worker'[v].nonce
             /\ \A f \in failures' : f.nonce # worker'[v].nonce
  <2> DEFINE n == worker[v].nonce
  <2>0. worker'[v].nonce = n
    BY <1>2, HoldsFrom
  <2>1. CASE Fresh(v)
    <3>1. n \in Nonces
      <4>1. worker'[v].nonce \in Nonces
        BY <1>2, WorkerStep DEF WorkerInv
      <4>2. QED BY <2>0, <4>1
    <3>2. begun'[n] = 0
      BY <2>1, <3>1 DEF NonceInv
    <3>3. ASSUME NEW u \in Workers, u # v, worker'[u].pc \in {"velocity", "pay", "failed"}
          PROVE  worker'[u].nonce # n
      BY <2>1, <3>3 DEF NonceInv, Holds
    <3>4. \A f \in failures' : f.nonce # n
      BY <2>1 DEF NonceInv
    <3>5. QED BY <2>0, <2>1, <3>2, <3>3, <3>4
  <2>2. CASE Holds(v) /\ (worker'[v].pc = "velocity" => At(v, "velocity"))
    <3>0. n \in nonces /\ n \in Nonces
      BY <2>2 DEF NonceInv, TypeOK
    <3>1. n \in nonces'
      BY <3>0, NoncesGrow
    <3>2. worker'[v].pc = "velocity" => begun'[n] = 0
      <4>1. ASSUME worker'[v].pc = "velocity", begun'[n] # begun[n] PROVE FALSE
        <5>1. PICK w \in Workers : At(w, "velocity") /\ worker[w].nonce = n /\ worker'[w].pc = "pay"
          BY <3>0, <4>1, BegunWrites
        <5>2. w # v /\ Holds(w)
          BY <4>1, <5>1 DEF Holds, At
        <5>3. QED BY <2>2, <5>1, <5>2 DEF NonceInv
      <4>2. QED BY <2>2, <4>1 DEF NonceInv
    <3>3. ASSUME NEW u \in Workers, u # v, worker'[u].pc \in {"velocity", "pay", "failed"}
          PROVE  worker'[u].nonce # n
      <4>1. worker'[u].nonce = worker[u].nonce /\ (Holds(u) \/ worker[u].nonce \notin nonces)
        BY <3>3, HoldsFrom
      <4>2. QED BY <2>2, <3>0, <3>3, <4>1 DEF NonceInv
    <3>4. ASSUME NEW f \in failures' PROVE f.nonce # n
      <4>1. CASE f \in failures
        BY <2>2, <4>1 DEF NonceInv
      <4>2. CASE f \notin failures
        <5>1. PICK w \in Workers : At(w, "failed") /\ f.nonce = worker[w].nonce /\ worker'[w] = Idle
          BY <4>2, FailureWrites
        <5>2. w # v /\ Holds(w)
          BY <1>2, <5>1 DEF Holds, At, Idle
        <5>3. QED BY <2>2, <5>1, <5>2 DEF NonceInv
      <4>3. QED BY <4>1, <4>2
    <3>5. QED BY <2>0, <3>1, <3>2, <3>3, <3>4
  <2>3. QED BY <1>2, <2>1, <2>2, HoldsFrom
<1>3. ASSUME NEW f \in failures' PROVE f.nonce \in nonces'
  <2>1. CASE f \in failures
    BY <2>1, NoncesGrow DEF NonceInv
  <2>2. CASE f \notin failures
    <3>1. PICK w \in Workers : At(w, "failed") /\ f.nonce = worker[w].nonce
      BY <2>2, FailureWrites
    <3>2. QED BY <3>1, NoncesGrow DEF NonceInv, Holds, At
  <2>3. QED BY <2>1, <2>2
<1>4. QED BY <1>1, <1>2, <1>3 DEF NonceInv, Holds, At

-----------------------------------------------------------------------------
(* Failures *)

LEMMA Sizes ==
  ASSUME IsFiniteSet(failures)
  PROVE  /\ IsFiniteSet(Recent) /\ Cardinality(Recent) \in Nat
         /\ IsFiniteSet(MayFail) /\ Cardinality(MayFail) \in Nat
         /\ Cardinality(Workers) \in Nat /\ IsFiniteSet(Workers)
BY CheckoutAssumption, FS_Subset, FS_CardinalityType DEF Recent, MayFail

\* What was not recent does not become so.
LEMMA RecentShrinks ==
  ASSUME TypeOK, [Next]_vars
  PROVE  Recent' \cap failures \subseteq Recent
<1>1. now' = now \/ now' = now + 1
  BY DEF Next, vars, LoadActiveProducts, CommitOrder, RequestPayment, ConsumeNonce,
     CheckVelocity, Pay, RecordFailure, SettleOrder, ChangeProduct, Tick, Crash
<1>2. /\ MaxTime \in Nat /\ now \in 0..MaxTime /\ Window \in Nat
      /\ \A f \in failures : f.at \in 0..MaxTime
  BY CheckoutAssumption DEF TypeOK
<1>3. \A f \in failures : now' < f.at + Window => now < f.at + Window
  BY <1>1, <1>2
<1>4. QED BY <1>3 DEF Recent

\* A request that may fail could before, or has just passed the velocity check.
LEMMA MayFailFrom ==
  ASSUME TypeOK, [Next]_vars, NEW v \in MayFail', v \notin MayFail
  PROVE  v \in Workers /\ CheckVelocity(v) /\ ~Blocked
<1>1. v \in Workers /\ worker'[v].pc \in {"pay", "failed"} /\ worker[v] \in WorkerState
  BY DEF MayFail, TypeOK
<1>2. worker'[v] # worker[v] /\ ~At(v, "pay")
  BY <1>1 DEF MayFail, At
<1>3. Arrives(v)
  BY <1>1, <1>2, Arrival
<1>4. QED BY <1>1, <1>2, <1>3 DEF Arrives, Idle, WorkerState

LEMMA FailureStep ==
  ASSUME TypeOK, FailureInv, [Next]_vars
  PROVE  FailureInv'
<1> DEFINE most == MaxFails + Cardinality(Workers)
<1>1. /\ IsFiniteSet(Recent) /\ Cardinality(Recent) \in Nat
      /\ IsFiniteSet(MayFail) /\ Cardinality(MayFail) \in Nat
      /\ Cardinality(Workers) \in Nat /\ IsFiniteSet(Workers) /\ MaxFails \in Nat
      /\ Cardinality(Recent) + Cardinality(MayFail) < most
  BY Sizes, CheckoutAssumption DEF FailureInv
<1>2. IsFiniteSet(failures')
  <2>1. CASE failures' \subseteq failures
    BY <2>1, FS_Subset DEF FailureInv
  <2>2. CASE \E w \in Workers : RecordFailure(w)
    <3>1. PICK w \in Workers : failures' = Recent \cup {[nonce |-> worker[w].nonce, at |-> now]}
      BY <2>2 DEF RecordFailure
    <3>2. QED BY <1>1, <3>1, FS_AddElement
  <2>3. QED BY <2>1, <2>2, FailureWrites
<1>3. /\ IsFiniteSet(Recent') /\ Cardinality(Recent') \in Nat
      /\ IsFiniteSet(MayFail') /\ Cardinality(MayFail') \in Nat
      /\ MayFail' \subseteq Workers
  <2>1. Recent' \subseteq failures' /\ MayFail' \subseteq Workers
    BY DEF Recent, MayFail
  <2>2. QED BY <1>1, <1>2, <2>1, FS_Subset, FS_CardinalityType
<1>4. CASE failures' \subseteq failures /\ MayFail' \subseteq MayFail
  <2>1. Recent' \subseteq Recent
    BY <1>4, RecentShrinks DEF Recent
  <2>2. Cardinality(Recent') <= Cardinality(Recent) /\ Cardinality(MayFail') <= Cardinality(MayFail)
    BY <1>1, <1>4, <2>1, FS_Subset
  <2>3. Cardinality(Recent') + Cardinality(MayFail') < most
    BY <1>1, <1>3, <2>2
  <2>4. QED BY <1>2, <2>3 DEF FailureInv
<1>5. CASE \E v \in Workers : CheckVelocity(v) /\ ~Blocked
  <2>1. Cardinality(Recent) < MaxFails
    BY <1>1, <1>5 DEF Blocked
  <2>2. failures' \subseteq failures
    BY <1>5 DEF CheckVelocity, Recent
  <2>3. Recent' \subseteq Recent
    BY <2>2, RecentShrinks DEF Recent
  <2>4. Cardinality(Recent') <= Cardinality(Recent) /\ Cardinality(MayFail') <= Cardinality(Workers)
    BY <1>1, <1>3, <2>3, FS_Subset
  <2>5. Cardinality(Recent') + Cardinality(MayFail') < most
    BY <1>1, <1>3, <2>1, <2>4
  <2>6. QED BY <1>2, <2>5 DEF FailureInv
<1>6. CASE \E w \in Workers : RecordFailure(w)
  <2>1. PICK w \in Workers : RecordFailure(w)
    BY <1>6
  <2> DEFINE x == [nonce |-> worker[w].nonce, at |-> now]
  <2>2. failures' = Recent \cup {x} /\ At(w, "failed") /\ worker' = [worker EXCEPT ![w] = Idle]
    BY <2>1 DEF RecordFailure, Finish
  <2>3. Recent' \subseteq Recent \cup {x}
    BY <2>2 DEF Recent
  <2>4. Cardinality(Recent') <= Cardinality(Recent) + 1
    <3> HIDE DEF x
    <3>1. /\ IsFiniteSet(Recent \cup {x})
          /\ \/ Cardinality(Recent \cup {x}) = Cardinality(Recent)
             \/ Cardinality(Recent \cup {x}) = Cardinality(Recent) + 1
      BY <1>1, FS_AddElement
    <3>2. Cardinality(Recent') <= Cardinality(Recent \cup {x})
      BY <2>3, <3>1, FS_Subset
    <3>3. QED BY <1>1, <1>3, <3>1, <3>2
  <2>5. w \in MayFail /\ MayFail' \subseteq MayFail \ {w}
    BY <2>2 DEF MayFail, At, Idle, TypeOK
  <2>6. Cardinality(MayFail') <= Cardinality(MayFail) - 1
    <3>1. IsFiniteSet(MayFail \ {w}) /\ Cardinality(MayFail \ {w}) = Cardinality(MayFail) - 1
      BY <1>1, <2>5, FS_RemoveElement
    <3>2. QED BY <2>5, <3>1, FS_Subset
  <2>7. Cardinality(Recent') + Cardinality(MayFail') < most
    BY <1>1, <1>3, <2>4, <2>6
  <2>8. QED BY <1>2, <2>7 DEF FailureInv
<1>7. QED BY <1>4, <1>5, <1>6, FailureWrites, MayFailFrom

-----------------------------------------------------------------------------
(* Theorems *)

LEMMA InitIInv == Init => IInv
<1> SUFFICES ASSUME Init PROVE IInv
  OBVIOUS
<1>1. TypeOK
  BY InitTypeOK
<1>2. WorkerInv /\ InsertInv /\ AttemptInv /\ NonceInv
  BY <1>1 DEF Init, WorkerInv, InsertInv, AttemptInv, NonceInv, At, Holds, Idle
<1>3. OrderInv
  <2>1. DOMAIN <<>> = {}
    OBVIOUS
  <2>2. AddsUp(<<>>, <<>>)
    BY <2>1 DEF AddsUp
  <2>3. TotalAmount(<<>>) = 0
    <3> DEFINE f == [p \in DOMAIN <<>> |-> <<>>[p].quantity * <<>>[p].unitPrice]
    <3>1. TotalAmount(<<>>) = SumFunctionOnSet(f, {})
      BY <2>1 DEF TotalAmount, SumFunction
    <3> HIDE DEF f
    <3>2. QED BY <3>1, FS_EmptySet, SumUnfolds
  <2>4. QED BY <2>2, <2>3 DEF Init, OrderInv, NoOrder
<1>4. FailureInv
  <2>1. Recent = {} /\ MayFail = {} /\ IsFiniteSet(failures)
    BY FS_EmptySet DEF Init, Recent, MayFail, Idle
  <2>2. Cardinality({}) = 0 /\ Cardinality(Workers) \in Nat
    BY FS_EmptySet, FS_CardinalityType, CheckoutAssumption
  <2>3. QED BY <2>1, <2>2, CheckoutAssumption DEF FailureInv
<1>5. QED BY <1>1, <1>2, <1>3, <1>4 DEF IInv

\* The inductive invariant: orders add up, attempts are for them, and every
\* request in flight has to itself what it found, claimed or used up.
THEOREM Invariant == Spec => []IInv
<1>1. IInv /\ [Next]_vars => IInv'
  BY TypeStep, WorkerStep, OrderStep, InsertStep, AttemptStep, NonceStep, FailureStep DEF IInv
<1>2. QED BY InitIInv, <1>1, PTL DEF Spec

\* Rows, requests and counters keep to their columns and values; in particular
\* no line of an order exceeds what its schema admits.
THEOREM TypeCorrect == Spec => []TypeOK
<1>1. IInv => TypeOK
  BY DEF IInv
<1>2. QED BY <1>1, Invariant, PTL

\* createOrder: an order holds what was asked for and its total is the sum of its
\* lines, however its products are spread over the items.
THEOREM OrdersAddUp == Spec => []OrderAddsUp
<1>1. IInv => OrderAddsUp
  BY DEF IInv, OrderInv, AddsUp, OrderAddsUp, TotalAmount
<1>2. QED BY <1>1, Invariant, PTL

\* createPaymentIntent: an attempt is for the total of its order as placed.
THEOREM PaymentsAreAsOrdered == Spec => []ChargedAsOrdered
<1>1. IInv => ChargedAsOrdered
  BY DEF IInv, TypeOK, AttemptInv, ChargedAsOrdered
<1>2. QED BY <1>1, Invariant, PTL

\* consumeNonce: no nonce begins two payments, across crashes.
THEOREM NoncesAreUsedOnce == Spec => []NonceBeginsOnePayment
<1>1. IInv => NonceBeginsOnePayment
  BY DEF IInv, NonceInv, NonceBeginsOnePayment
<1>2. QED BY <1>1, Invariant, PTL

\* checkVelocity and recordFailure: the failures counted within the window exceed
\* the limit by less than the requests that can be in flight.
THEOREM VelocityLagIsBounded == Spec => []FailuresBounded
<1>1. IInv => FailuresBounded
  <2> SUFFICES ASSUME IInv PROVE FailuresBounded
    OBVIOUS
  <2>1. FailureInv /\ MaxFails \in Nat
    BY CheckoutAssumption DEF IInv
  <2>2. Cardinality(Recent) \in Nat /\ Cardinality(MayFail) \in Nat /\ Cardinality(Workers) \in Nat
    BY <2>1, Sizes DEF FailureInv
  <2>3. QED BY <2>1, <2>2 DEF FailureInv, FailuresBounded
<1>2. QED BY <1>1, Invariant, PTL

\* failedAttempts is an array in the code and a set here: nothing is lost, as no
\* two of its entries are alike.
THEOREM EveryFailureCounts ==
  Spec => [][\A w \in Workers : RecordFailure(w) =>
               [nonce |-> worker[w].nonce, at |-> now] \notin failures]_vars
<1>1. IInv => \A w \in Workers : RecordFailure(w) =>
                [nonce |-> worker[w].nonce, at |-> now] \notin failures
  BY DEF IInv, NonceInv, RecordFailure, At, Holds
<1>2. QED BY <1>1, Invariant, PTL

\* What an order says and what an attempt is for never change again, and a nonce
\* that was used stays used, whatever becomes of the catalogue, the requests and
\* the process; so an attempt is for what its order said when it was placed.
THEOREM PlacedStays ==
  Spec => [][/\ \A o \in Orders : order[o].status # "none" =>
                  /\ order'[o].asked = order[o].asked /\ order'[o].lines = order[o].lines
                  /\ order'[o].total = order[o].total
             /\ \A k \in Nonces \cup Keys : attempt[k] # NoAttempt => attempt'[k] = attempt[k]
             /\ nonces \subseteq nonces']_vars
<1>1. ASSUME IInv, [Next]_vars
      PROVE  [/\ \A o \in Orders : order[o].status # "none" =>
                   /\ order'[o].asked = order[o].asked /\ order'[o].lines = order[o].lines
                   /\ order'[o].total = order[o].total
              /\ \A k \in Nonces \cup Keys : attempt[k] # NoAttempt => attempt'[k] = attempt[k]
              /\ nonces \subseteq nonces']_vars
  BY <1>1, OrderStays, AttemptStays, NoncesGrow DEF IInv
<1>2. QED BY Invariant, <1>1, PTL DEF Spec
=============================================================================
