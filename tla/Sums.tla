-------------------------------- MODULE Sums --------------------------------
(***************************************************************************)
(* Folds over finite sets, of which the sums of the library are one and    *)
(* the merging of an order's items is another: that they have a value, and *)
(* one value only.  The induction theorems of the library take an operator *)
(* as a parameter; here the induction is over a set of numbers instead,    *)
(* and rests on the pigeonhole principle.                                  *)
(***************************************************************************)
EXTENDS SequencesExt, FiniteSetTheorems, TLAPS

\* Induction up to a number: S is the set of numbers for which something holds.
LEMMA Counting ==
  ASSUME NEW n \in Nat, NEW S \in SUBSET (0..n), 0 \in S,
         \A i \in S : i < n => i + 1 \in S
  PROVE  n \in S
<1> SUFFICES ASSUME n \notin S PROVE FALSE
  OBVIOUS
<1> DEFINE T == S \ {0}
           next == [i \in S |-> i + 1]
<1>1. IsFiniteSet(0..n)
  BY FS_Interval
<1>2. IsFiniteSet(S)
  BY <1>1, FS_Subset
<1>3. Cardinality(S) \in Nat
  BY <1>2, FS_CardinalityType
<1>4. IsFiniteSet(T) /\ Cardinality(T) = Cardinality(S) - 1
  BY <1>2, FS_RemoveElement
<1>5. next \in [S -> T]
  OBVIOUS
<1> HIDE DEF T, next
<1>6. Cardinality(T) < Cardinality(S)
  BY <1>3, <1>4
<1>7. \E i, j \in S : i # j /\ next[i] = next[j]
  BY <1>2, <1>4, <1>5, <1>6, FS_PigeonHole
<1>8. QED BY <1>7 DEF next

-----------------------------------------------------------------------------
\* g gives the value of the fold for every subset of S: base for the empty set,
\* and otherwise a step by the element picked from the value for the others.
Folds(g, S, V, base, step, pick) ==
  /\ g[{}] = base
  /\ \A s \in SUBSET S : s # {} /\ g[s \ {pick[s]}] \in V =>
       g[s] = step[pick[s]][g[s \ {pick[s]}]]

\* pick picks an element of every subset of S but the empty one.
Picks(pick, S) == \A s \in SUBSET S : s # {} => pick[s] \in s

\* The sizes of subsets of a finite set, for the inductions below.
LEMMA SubsetSize ==
  ASSUME NEW S, IsFiniteSet(S), NEW s \in SUBSET S
  PROVE  /\ Cardinality(S) \in Nat /\ Cardinality(s) \in Nat
         /\ Cardinality(s) <= Cardinality(S)
         /\ Cardinality(s) = 0 <=> s = {}
         /\ \A x \in s : Cardinality(s \ {x}) = Cardinality(s) - 1
<1>1. IsFiniteSet(s) /\ Cardinality(s) <= Cardinality(S)
  BY FS_Subset
<1>2. Cardinality(s) \in Nat /\ Cardinality(S) \in Nat
  BY <1>1, FS_CardinalityType
<1>3. Cardinality(s) = 0 <=> s = {}
  BY <1>1, FS_EmptySet
<1>4. \A x \in s : Cardinality(s \ {x}) = Cardinality(s) - 1
  BY <1>1, FS_RemoveElement
<1>5. QED BY <1>1, <1>2, <1>3, <1>4

\* Induction over the size of the subsets of a finite set: G is the set of sizes
\* up to which something holds.
LEMMA SizeInduction ==
  ASSUME NEW S, IsFiniteSet(S), NEW G \in SUBSET Nat, 0 \in G,
         \A k \in G : k < Cardinality(S) => k + 1 \in G
  PROVE  Cardinality(S) \in G
<1> DEFINE n == Cardinality(S)
           H == G \cap (0..n)
<1>1. n \in Nat
  BY FS_CardinalityType
<1>2. H \in SUBSET (0..n) /\ 0 \in H
  BY <1>1
<1>3. \A i \in H : i < n => i + 1 \in H
  BY <1>1
<1> HIDE DEF n, H
<1>4. n \in H
  BY <1>1, <1>2, <1>3, Counting
<1>5. QED BY <1>4 DEF n, H

\* Every fold has a value.
LEMMA FoldExists ==
  ASSUME NEW S, IsFiniteSet(S), NEW V, NEW base \in V, NEW step \in [S -> [V -> V]],
         NEW pick, Picks(pick, S)
  PROVE  \E g \in [SUBSET S -> V] : Folds(g, S, V, base, step, pick)
<1> DEFINE upTo(k) == {s \in SUBSET S : Cardinality(s) <= k}
           value(g, s) == IF s = {} THEN base ELSE step[pick[s]][g[s \ {pick[s]}]]
           G == {k \in Nat :
                   \E g \in [upTo(k) -> V] : \A s \in upTo(k) : g[s] = value(g, s)}
<1>2. 0 \in G
  <2> DEFINE g == [s \in upTo(0) |-> base]
  <2>1. \A s \in upTo(0) : s = {}
    BY SubsetSize
  <2>2. g \in [upTo(0) -> V]
    OBVIOUS
  <2>3. \A s \in upTo(0) : g[s] = value(g, s)
    BY <2>1
  <2> HIDE DEF g
  <2>4. QED BY <2>2, <2>3
<1>3. ASSUME NEW k \in G, k < Cardinality(S) PROVE k + 1 \in G
  <2>0. k \in Nat /\ k + 1 \in Nat
    OBVIOUS
  <2>1. PICK g \in [upTo(k) -> V] : \A s \in upTo(k) : g[s] = value(g, s)
    OBVIOUS
  <2> DEFINE h == [s \in upTo(k + 1) |-> value(g, s)]
  <2>2. ASSUME NEW s \in upTo(k + 1), s # {}
        PROVE  pick[s] \in S /\ s \ {pick[s]} \in upTo(k)
    <3>1. s \in SUBSET S /\ pick[s] \in s
      BY <2>2 DEF Picks
    <3>2. Cardinality(s) \in Nat /\ Cardinality(s \ {pick[s]}) = Cardinality(s) - 1
      BY <3>1, SubsetSize
    <3>3. Cardinality(s) <= k + 1
      OBVIOUS
    <3>4. Cardinality(s \ {pick[s]}) <= k
      BY <2>0, <3>2, <3>3
    <3>5. QED BY <3>1, <3>4
  <2>3. \A s \in upTo(k + 1) : value(g, s) \in V
    BY <2>2
  <2>4. h \in [upTo(k + 1) -> V]
    BY <2>3
  <2>5. \A s \in upTo(k) : s \in upTo(k + 1)
    BY <2>0, SubsetSize
  <2>6. \A s \in upTo(k) : h[s] = g[s]
    BY <2>1, <2>5
  <2>7. ASSUME NEW s \in upTo(k + 1) PROVE h[s] = value(h, s)
    <3>1. h[s] = value(g, s)
      OBVIOUS
    <3>2. CASE s = {}
      BY <3>1, <3>2
    <3>3. CASE s # {}
      <4>1. h[s \ {pick[s]}] = g[s \ {pick[s]}]
        BY <2>2, <2>6, <3>3
      <4> HIDE DEF h
      <4>2. QED BY <3>1, <3>3, <4>1
    <3>4. QED BY <3>2, <3>3
  <2> HIDE DEF h
  <2>8. QED BY <2>0, <2>4, <2>7
<1>4. Cardinality(S) \in G
  <2> HIDE DEF G
  <2>1. G \in SUBSET Nat BY DEF G
  <2>2. QED BY <1>2, <1>3, <2>1, SizeInduction
<1>5. upTo(Cardinality(S)) = SUBSET S
  BY SubsetSize
<1>6. QED BY <1>4, <1>5 DEF Folds

\* ... and only one, although the equation leaves open what is folded outside V.
LEMMA FoldUnique ==
  ASSUME NEW S, IsFiniteSet(S), NEW V, NEW base \in V, NEW step \in [S -> [V -> V]],
         NEW pick, Picks(pick, S),
         NEW g, Folds(g, S, V, base, step, pick), NEW h, Folds(h, S, V, base, step, pick)
  PROVE  g[S] = h[S] /\ g[S] \in V
<1> DEFINE G == {k \in Nat :
                   \A s \in SUBSET S : Cardinality(s) <= k => g[s] = h[s] /\ g[s] \in V}
<1>2. 0 \in G
  <2>1. \A s \in SUBSET S : Cardinality(s) <= 0 => s = {}
    BY SubsetSize
  <2>2. g[{}] = base /\ h[{}] = base
    BY DEF Folds
  <2>3. QED BY <2>1, <2>2
<1>3. ASSUME NEW k \in G, k < Cardinality(S) PROVE k + 1 \in G
  <2>1. ASSUME NEW s \in SUBSET S, Cardinality(s) <= k + 1
        PROVE  g[s] = h[s] /\ g[s] \in V
    <3>1. CASE s = {}
      BY <3>1 DEF Folds
    <3>2. CASE s # {}
      <4>1. pick[s] \in s /\ s \ {pick[s]} \in SUBSET S /\ pick[s] \in S
        BY <3>2 DEF Picks
      <4>2. Cardinality(s) \in Nat /\ Cardinality(s \ {pick[s]}) = Cardinality(s) - 1
        BY <4>1, SubsetSize
      <4>3. k \in Nat
        OBVIOUS
      <4>4. Cardinality(s \ {pick[s]}) <= k
        BY <2>1, <4>2, <4>3
      <4>5. g[s \ {pick[s]}] = h[s \ {pick[s]}] /\ g[s \ {pick[s]}] \in V
        BY <4>1, <4>4
      <4>6. g[s] = step[pick[s]][g[s \ {pick[s]}]] /\ h[s] = step[pick[s]][h[s \ {pick[s]}]]
        BY <3>2, <4>5 DEF Folds
      <4>7. step[pick[s]] \in [V -> V]
        BY <4>1
      <4> DEFINE v == g[s \ {pick[s]}]
      <4>8. step[pick[s]][v] \in V
        BY <4>5, <4>7
      <4>9. QED BY <4>5, <4>6, <4>8
    <3>3. QED BY <3>1, <3>2
  <2>2. k + 1 \in Nat
    OBVIOUS
  <2>3. QED BY <2>1, <2>2
<1>4. Cardinality(S) \in G
  <2> HIDE DEF G
  <2>1. G \in SUBSET Nat BY DEF G
  <2>2. QED BY <1>2, <1>3, <2>1, SizeInduction
<1>5. S \in SUBSET S /\ Cardinality(S) <= Cardinality(S)
  BY SubsetSize
<1>6. QED BY <1>4, <1>5

\* The same for folds whose values are numbers.
LEMMA NatFoldUnique ==
  ASSUME NEW S, IsFiniteSet(S), NEW base \in Nat, NEW step, step \in [S -> [Nat -> Nat]],
         NEW pick, Picks(pick, S),
         NEW g, Folds(g, S, Nat, base, step, pick), NEW h, Folds(h, S, Nat, base, step, pick)
  PROVE  g[S] = h[S] /\ g[S] \in Nat
BY FoldUnique

-----------------------------------------------------------------------------
(* SumFunctionOnSet *)

\* What SumFunctionOnSet picks, and its step.
Some(S) == [s \in SUBSET S |-> CHOOSE x \in s : TRUE]
Adds(f, S) == [x \in S |-> [v \in Nat |-> f[x] + v]]

\* SumFunctionOnSet of the library is such a fold.
LEMMA SumIsFold ==
  ASSUME NEW S, IsFiniteSet(S), NEW f, \A x \in S : f[x] \in Nat
  PROVE  \E g \in [SUBSET S -> Nat] :
           Folds(g, S, Nat, 0, Adds(f, S), Some(S)) /\ SumFunctionOnSet(f, S) = g[S]
<1> DEFINE value(g, s) == IF s = {} THEN 0
                          ELSE f[CHOOSE x \in s : TRUE] + g[s \ {CHOOSE x \in s : TRUE}]
           P(g) == g = [s \in SUBSET S |-> value(g, s)]
           c == CHOOSE g : P(g)
<1>1. SumFunctionOnSet(f, S) = c[S]
  BY Zenon DEF SumFunctionOnSet, FoldFunctionOnSet, MapThenFoldSet
<1>2. /\ Adds(f, S) \in [S -> [Nat -> Nat]]
      /\ Picks(Some(S), S)
  BY DEF Adds, Some, Picks
<1>3. PICK g \in [SUBSET S -> Nat] : Folds(g, S, Nat, 0, Adds(f, S), Some(S))
  BY <1>2, FoldExists
<1>4. P(g)
  <2>1. ASSUME NEW s \in SUBSET S PROVE g[s] = value(g, s)
    <3>1. CASE s = {}
      BY <1>3, <3>1 DEF Folds
    <3>2. CASE s # {}
      <4> DEFINE x == CHOOSE y \in s : TRUE
      <4>1. x \in s /\ x \in S /\ Some(S)[s] = x
        BY <3>2 DEF Some
      <4>2. g[s \ {x}] \in Nat
        BY <4>1
      <4>3. g[s] = Adds(f, S)[x][g[s \ {x}]]
        BY <1>3, <3>2, <4>1, <4>2 DEF Folds
      <4>4. Adds(f, S)[x][g[s \ {x}]] = f[x] + g[s \ {x}]
        BY <4>1, <4>2 DEF Adds
      <4>5. QED BY <3>2, <4>3, <4>4
    <3>3. QED BY <3>1, <3>2
  <2>2. QED BY <2>1
<1>5. P(c)
  BY <1>4
<1>6. PICK h : P(h) /\ SumFunctionOnSet(f, S) = h[S]
  BY <1>1, <1>5
<1>7. Folds(h, S, Nat, 0, Adds(f, S), Some(S))
  <2>1. h[{}] = 0
    BY <1>6
  <2>2. ASSUME NEW s \in SUBSET S, s # {}, h[s \ {Some(S)[s]}] \in Nat
        PROVE  h[s] = Adds(f, S)[Some(S)[s]][h[s \ {Some(S)[s]}]]
    <3> DEFINE x == CHOOSE y \in s : TRUE
    <3>1. x \in S /\ Some(S)[s] = x
      BY <2>2 DEF Some
    <3>2. h[s] = value(h, s)
      BY <1>6
    <3>3. h[s] = f[x] + h[s \ {x}]
      BY <2>2, <3>2
    <3>4. QED BY <2>2, <3>1, <3>3 DEF Adds
  <2>3. QED BY <2>1, <2>2 DEF Folds
<1>8. g[S] = h[S] /\ g[S] \in Nat
  BY <1>2, <1>3, <1>7, NatFoldUnique
<1>9. QED BY <1>3, <1>6, <1>8

\* A sum is a number, and is worked out one element after another.
LEMMA SumUnfolds ==
  ASSUME NEW S, IsFiniteSet(S), NEW f, \A x \in S : f[x] \in Nat
  PROVE  /\ SumFunctionOnSet(f, S) \in Nat
         /\ S = {} => SumFunctionOnSet(f, S) = 0
         /\ S # {} => \E x \in S : SumFunctionOnSet(f, S) = f[x] + SumFunctionOnSet(f, S \ {x})
<1>1. PICK g \in [SUBSET S -> Nat] :
        Folds(g, S, Nat, 0, Adds(f, S), Some(S)) /\ SumFunctionOnSet(f, S) = g[S]
  BY SumIsFold
<1>2. SumFunctionOnSet(f, S) \in Nat /\ (S = {} => SumFunctionOnSet(f, S) = 0)
  BY <1>1 DEF Folds
<1>3. ASSUME S # {}
      PROVE  \E x \in S : SumFunctionOnSet(f, S) = f[x] + SumFunctionOnSet(f, S \ {x})
  <2> DEFINE x == CHOOSE y \in S : TRUE
             T == S \ {x}
  <2>1. x \in S /\ Some(S)[S] = x /\ T \in SUBSET S
    BY <1>3 DEF Some
  <2>2. g[T] \in Nat
    BY <2>1
  <2>3. g[S] = Adds(f, S)[x][g[T]]
    BY <1>1, <1>3, <2>1, <2>2 DEF Folds
  <2>4. g[S] = f[x] + g[T]
    BY <2>1, <2>2, <2>3 DEF Adds
  <2>5. g[T] = SumFunctionOnSet(f, T)
    <3>1. IsFiniteSet(T) /\ \A y \in T : f[y] \in Nat
      BY <2>1, FS_Subset
    <3>2. PICK h \in [SUBSET T -> Nat] :
            Folds(h, T, Nat, 0, Adds(f, T), Some(T)) /\ SumFunctionOnSet(f, T) = h[T]
      BY <3>1, SumIsFold
    <3>3. Picks(Some(T), T) /\ Adds(f, T) \in [T -> [Nat -> Nat]]
      BY <3>1 DEF Picks, Some, Adds
    <3>4. Folds(g, T, Nat, 0, Adds(f, T), Some(T))
      <4>1. g[{}] = 0
        BY <1>1 DEF Folds
      <4>2. ASSUME NEW s \in SUBSET T, s # {}
            PROVE  g[s] = Adds(f, T)[Some(T)[s]][g[s \ {Some(T)[s]}]]
        <5>1. s \in SUBSET S /\ Some(T)[s] \in T /\ Some(T)[s] = Some(S)[s]
          BY <4>2, <3>3, <2>1 DEF Some, Picks
        <5>2. Adds(f, T)[Some(T)[s]] = Adds(f, S)[Some(S)[s]]
          BY <5>1 DEF Adds
        <5>3. g[s \ {Some(S)[s]}] \in Nat
          BY <5>1
        <5>4. g[s] = Adds(f, S)[Some(S)[s]][g[s \ {Some(S)[s]}]]
          BY <1>1, <4>2, <5>1, <5>3 DEF Folds
        <5>5. QED BY <5>1, <5>2, <5>4
      <4>3. QED BY <4>1, <4>2 DEF Folds
    <3> HIDE DEF T
    <3>5. g[T] = h[T] /\ g[T] \in Nat
      BY <3>1, <3>2, <3>3, <3>4, NatFoldUnique
    <3>6. QED BY <3>2, <3>5
  <2>6. QED BY <1>1, <2>1, <2>4, <2>5
<1>4. QED BY <1>2, <1>3

\* A sum is worked out in any order: any element can be taken out first.
THEOREM SumTakesOut ==
  ASSUME NEW S, IsFiniteSet(S), NEW f, \A x \in S : f[x] \in Nat, NEW x \in S
  PROVE  SumFunctionOnSet(f, S) = f[x] + SumFunctionOnSet(f, S \ {x})
<1> DEFINE sum(T) == SumFunctionOnSet(f, T)
           G == {k \in Nat : \A T \in SUBSET S : Cardinality(T) <= k =>
                               \A y \in T : sum(T) = f[y] + sum(T \ {y})}
<1>1. ASSUME NEW T \in SUBSET S
      PROVE  /\ IsFiniteSet(T) /\ \A y \in T : f[y] \in Nat
             /\ sum(T) \in Nat /\ (T # {} => \E y \in T : sum(T) = f[y] + sum(T \ {y}))
             /\ Cardinality(T) \in Nat
             /\ \A y \in T : Cardinality(T \ {y}) = Cardinality(T) - 1
             /\ Cardinality(T) = 0 => T = {}
  <2>1. IsFiniteSet(T) /\ \A y \in T : f[y] \in Nat
    BY FS_Subset
  <2>2. sum(T) \in Nat /\ (T # {} => \E y \in T : sum(T) = f[y] + sum(T \ {y}))
    BY <2>1, SumUnfolds
  <2>3. QED BY <2>1, <2>2, SubsetSize
<1> HIDE DEF sum
<1>2. 0 \in G
  BY <1>1
<1>3. ASSUME NEW k \in G, k < Cardinality(S) PROVE k + 1 \in G
  <2>1. k \in Nat /\ k + 1 \in Nat
    OBVIOUS
  <2>2. ASSUME NEW T \in SUBSET S, Cardinality(T) <= k + 1, NEW y \in T
        PROVE  sum(T) = f[y] + sum(T \ {y})
    <3>1. PICK z \in T : sum(T) = f[z] + sum(T \ {z})
      BY <1>1
    <3>2. CASE z = y
      BY <3>1, <3>2
    <3>3. CASE z # y
      <4> DEFINE U == T \ {y}
                 V == T \ {z}
      <4>1. U \in SUBSET S /\ V \in SUBSET S /\ z \in U /\ y \in V /\ U \ {z} = V \ {y}
        BY <3>3
      <4>2. Cardinality(U) <= k /\ Cardinality(V) <= k
        BY <1>1, <2>1, <2>2, <4>1
      <4>3. \A W \in SUBSET S : Cardinality(W) <= k => \A v \in W : sum(W) = f[v] + sum(W \ {v})
        OBVIOUS
      <4> HIDE DEF U, V
      <4>4. sum(U) = f[z] + sum(U \ {z}) /\ sum(V) = f[y] + sum(U \ {z})
        BY <4>1, <4>2, <4>3
      <4>5. f[z] \in Nat /\ f[y] \in Nat /\ sum(U \ {z}) \in Nat
        BY <1>1, <4>1
      <4>6. sum(T) = f[z] + sum(V)
        BY <3>1 DEF V
      <4>7. sum(T) = f[y] + sum(U)
        BY <4>4, <4>5, <4>6
      <4>8. QED BY <4>7 DEF U
    <3>4. QED BY <3>2, <3>3
  <2>3. QED BY <2>1, <2>2
<1>4. Cardinality(S) \in G
  <2> HIDE DEF G
  <2>1. G \in SUBSET Nat BY DEF G
  <2>2. QED BY <1>2, <1>3, <2>1, SizeInduction
<1>5. S \in SUBSET S /\ Cardinality(S) <= Cardinality(S)
  BY <1>1
<1>6. QED BY <1>4, <1>5 DEF sum
=============================================================================
