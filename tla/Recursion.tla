------------------------------ MODULE Recursion ------------------------------
(***************************************************************************)
(* Induction and recursion over data, in a form the provers can apply: the *)
(* library's induction theorems take an operator, these take a set, and a  *)
(* recursive definition is a fixed point of a function on functions.       *)
(***************************************************************************)
EXTENDS WellFoundedInduction, TLAPS

\* Every set of natural numbers has a least element.
LEMMA Least ==
    ASSUME NEW T \in SUBSET Nat, T # {}
    PROVE  \E n \in T : \A k \in T : n <= k
<1> DEFINE R == {s \in Nat \X Nat : s[1] < s[2]}
<1>1. IsWellFoundedOn(R, Nat)
  <2>1. R = OpToRel(<, Nat)
    BY Zenon DEF OpToRel
  <2> QED BY <2>1, NatLessThanWellFounded, Zenon
<1> HIDE DEF R
<1>2. PICK n \in T : \A k \in T : ~ (<<k, n>> \in R)
  BY <1>1, WFMin, Zenon
<1>3. \A k \in T : <<k, n>> \notin R => n <= k
  BY DEF R
<1> QED BY <1>2, <1>3

\* Induction: S holds the numbers a property is true of.
LEMMA Induction ==
    ASSUME NEW S, 0 \in S, \A n \in Nat : n \in S => n + 1 \in S
    PROVE  Nat \subseteq S
<1> SUFFICES ASSUME NEW m \in Nat, m \notin S PROVE FALSE
  OBVIOUS
<1> DEFINE T == Nat \ S
<1>1. PICK n \in T : \A k \in T : n <= k
  BY Least
<1>2. n # 0 /\ n - 1 \in Nat /\ n - 1 \notin T
  BY <1>1
<1> QED BY <1>1, <1>2

\* F maps a function from D to V to the right-hand side of its recursive definition,
\* whose value at x depends on arguments of lower rank only.
Recursive(D, V, rank, bound, F) ==
    /\ V # {}
    /\ bound \in Nat
    /\ \A x \in D : rank[x] \in Nat /\ rank[x] < bound
    /\ \A g \in [D -> V] : F[g] \in [D -> V]
    /\ \A g, h \in [D -> V] : \A x \in D :
          (\A y \in D : rank[y] < rank[x] => g[y] = h[y]) => F[g][x] = F[h][x]

\* Such a definition has a solution.
LEMMA FixedPoint ==
    ASSUME NEW D, NEW V, NEW rank, NEW bound, NEW F, Recursive(D, V, rank, bound, F)
    PROVE  \E f \in [D -> V] : f = F[f]
<1> USE DEF Recursive
<1> DEFINE Upto == {n \in Nat : \E g \in [D -> V] : \A x \in D : rank[x] < n => F[g][x] = g[x]}
<1>1. 0 \in Upto
  <2>1. PICK v \in V : TRUE
    OBVIOUS
  <2>2. [x \in D |-> v] \in [D -> V] /\ \A x \in D : ~ (rank[x] < 0)
    OBVIOUS
  <2> QED BY <2>2
<1>2. ASSUME NEW n \in Nat, n \in Upto PROVE n + 1 \in Upto
  <2>1. PICK g \in [D -> V] : \A x \in D : rank[x] < n => F[g][x] = g[x]
    BY <1>2
  <2>2. F[g] \in [D -> V]
    OBVIOUS
  <2>3. ASSUME NEW x \in D, rank[x] < n + 1 PROVE F[F[g]][x] = F[g][x]
    <3>1. \A y \in D : rank[y] < rank[x] => F[g][y] = g[y]
      BY <2>1, <2>3
    <3> QED BY <2>2, <3>1
  <2> QED BY <2>2, <2>3
<1> HIDE DEF Upto
<1>3. bound \in Upto
  BY <1>1, <1>2, Induction
<1>4. PICK g \in [D -> V] : \A x \in D : F[g][x] = g[x]
  BY <1>3 DEF Upto
<1>5. F[g] = g
  BY <1>4
<1> QED BY <1>5

\* The same, level by level: each level is computed from the one before.
LEMMA Levels ==
    ASSUME NEW d \in Nat, NEW V, NEW v \in V, NEW next \in [V -> V]
    PROVE  \E f \in [0..d -> V] : f[0] = v /\ \A k \in 1..d : f[k] = next[f[k - 1]]
<1> DEFINE Good(f, n) == \A k \in 0..d : k < n => f[k] = IF k = 0 THEN v ELSE next[f[k - 1]]
           Upto == {n \in Nat : \E f \in [0..d -> V] : Good(f, n)}
<1>1. 0 \in Upto
  <2>1. [k \in 0..d |-> v] \in [0..d -> V] /\ Good([k \in 0..d |-> v], 0)
    OBVIOUS
  <2> QED BY <2>1
<1>2. ASSUME NEW n \in Nat, n \in Upto PROVE n + 1 \in Upto
  <2>1. PICK f \in [0..d -> V] : Good(f, n)
    BY <1>2
  <2> DEFINE g == [k \in 0..d |-> IF k = 0 THEN v ELSE next[f[k - 1]]]
  <2>2. \A k \in 0..d : k # 0 => k - 1 \in 0..d
    OBVIOUS
  <2>3. g \in [0..d -> V]
    BY <2>2
  <2>4. ASSUME NEW k \in 0..d, k < n + 1 PROVE g[k] = IF k = 0 THEN v ELSE next[g[k - 1]]
    <3>1. CASE k = 0
      BY <3>1
    <3>2. CASE k # 0
      <4>1. k - 1 \in 0..d /\ k - 1 < n
        BY <2>4, <3>2
      <4>2. g[k - 1] = f[k - 1]
        BY <2>1, <4>1
      <4> QED BY <3>2, <4>2
    <3> QED BY <3>1, <3>2
  <2> HIDE DEF g
  <2> QED BY <2>3, <2>4
<1>3. d + 1 \in Upto
  <2> HIDE DEF Upto
  <2> QED BY <1>1, <1>2, Induction
<1>4. PICK f \in [0..d -> V] : Good(f, d + 1)
  BY <1>3
<1>5. \A k \in 0..d : k < d + 1
  OBVIOUS
<1>6. f[0] = v /\ \A k \in 1..d : f[k] = next[f[k - 1]]
  BY <1>4, <1>5
<1> QED BY <1>6

\* The same without a last level.
LEMMA LevelsOfNat ==
    ASSUME NEW V, NEW v \in V, NEW next \in [V -> V]
    PROVE  \E f \in [Nat -> V] : f[0] = v /\ \A k \in Nat : f[k + 1] = next[f[k]]
<1> DEFINE Good(g, d) == g \in [0..d -> V] /\ g[0] = v /\ \A k \in 1..d : g[k] = next[g[k - 1]]
           G(d) == CHOOSE g : Good(g, d)
           f == [k \in Nat |-> G(k)[k]]
<1>1. ASSUME NEW d \in Nat PROVE Good(G(d), d)
  <2>1. \E g : Good(g, d)
    BY Levels
  <2> HIDE DEF Good
  <2> QED BY <2>1
<1> HIDE DEF G
<1>2. ASSUME NEW d \in Nat, NEW e \in Nat, d <= e PROVE G(d)[d] = G(e)[d]
  <2> DEFINE S == {n \in Nat : n <= d => G(d)[n] = G(e)[n]}
  <2>1. 0 \in S
    BY <1>1
  <2>2. ASSUME NEW n \in Nat, n \in S PROVE n + 1 \in S
    <3> SUFFICES ASSUME n + 1 <= d PROVE G(d)[n + 1] = G(e)[n + 1]
      OBVIOUS
    <3>1. n + 1 \in 1..d /\ n + 1 \in 1..e /\ (n + 1) - 1 = n
      BY <1>2
    <3>2. (\A k \in 1..d : G(d)[k] = next[G(d)[k - 1]]) /\ (\A k \in 1..e : G(e)[k] = next[G(e)[k - 1]])
      BY <1>1
    <3>3. G(d)[n + 1] = next[G(d)[n]] /\ G(e)[n + 1] = next[G(e)[n]]
      BY <3>1, <3>2
    <3>4. G(d)[n] = G(e)[n]
      BY <2>2
    <3> QED BY <3>3, <3>4
  <2>3. Nat \subseteq S
    <3> HIDE DEF S
    <3> QED BY <2>1, <2>2, Induction
  <2> QED BY <2>3
<1>3. f \in [Nat -> V]
  BY <1>1
<1>4. f[0] = v
  BY <1>1
<1>5. ASSUME NEW k \in Nat PROVE f[k + 1] = next[f[k]]
  <2>1. \A n \in 1..(k + 1) : G(k + 1)[n] = next[G(k + 1)[n - 1]]
    BY <1>1
  <2>2. G(k + 1)[k + 1] = next[G(k + 1)[k]]
    BY <2>1
  <2>3. G(k)[k] = G(k + 1)[k]
    BY <1>2
  <2> QED BY <2>2, <2>3
<1> HIDE DEF f
<1> QED BY <1>3, <1>4, <1>5
===============================================================================
