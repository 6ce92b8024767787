--------------------------- MODULE SaveWork_proofs ---------------------------
(***************************************************************************)
(* What the two walks of saveDepth reach, for any objects, references and  *)
(* depths: parseStruct level by level, generateCurRels in any order.       *)
(***************************************************************************)
EXTENDS SaveWork, FiniteSetTheorems, Recursion

\* References lead to objects.
Closed(m) == \A o \in Obj : Targets(m, o) \subseteq Obj

Level(m, S) == S \cup UNION {Targets(m, o) : o \in S}

\* The levels of parseStruct satisfy the equation that defines them.
LEMMA WithinIs ==
    ASSUME NEW m, Closed(m), NEW r \in Obj, NEW d \in Nat
    PROVE  /\ Within(m, r, d) \in [0..d -> SUBSET Obj]
           /\ Within(m, r, d)[0] = {r}
           /\ \A k \in 1..d : Within(m, r, d)[k] = Level(m, Within(m, r, d)[k - 1])
<1> DEFINE V == SUBSET Obj
           v == {r}
           next == [S \in V |-> Level(m, S)]
           Step(g) == [k \in 0..d |-> IF k = 0 THEN {r}
                                      ELSE g[k - 1] \cup UNION {Targets(m, o) : o \in g[k - 1]}]
           w == Within(m, r, d)
<1>1. v \in V /\ next \in [V -> V]
  BY DEF Closed, Level
<1>2. PICK f \in [0..d -> V] : f[0] = v /\ \A k \in 1..d : f[k] = next[f[k - 1]]
  <2> HIDE DEF next, V, v
  <2> QED BY <1>1, Levels
<1>3. ASSUME NEW k \in 1..d PROVE f[k] = f[k - 1] \cup UNION {Targets(m, o) : o \in f[k - 1]}
  <2>1. k - 1 \in 0..d
    BY <1>3
  <2>2. f[k - 1] \in V
    BY <2>1
  <2>3. f[k] = next[f[k - 1]]
    <3> HIDE DEF next, V
    <3> QED BY <1>2
  <2> QED BY <2>2, <2>3 DEF Level
<1>4. f = Step(f)
  <2> HIDE DEF next, V
  <2> QED BY <1>2, <1>3
<1>5. w = CHOOSE g : g = Step(g)
  BY DEF Within
<1>6. w = Step(w)
  <2> HIDE DEF Step, w
  <2> QED BY <1>4, <1>5
<1> HIDE DEF w
<1>7. w \in [0..d -> SUBSET Obj]
  <2> DEFINE S == {k \in Nat : k <= d => w[k] \in SUBSET Obj}
  <2>1. 0 \in S
    BY <1>6
  <2>2. ASSUME NEW k \in Nat, k \in S PROVE k + 1 \in S
    <3>1. k + 1 <= d => w[k + 1] = w[k] \cup UNION {Targets(m, o) : o \in w[k]}
      BY <1>6
    <3> QED BY <2>2, <3>1 DEF Closed
  <2>3. Nat \subseteq S
    <3> HIDE DEF S
    <3> QED BY <2>1, <2>2, Induction
  <2>4. \A k \in 0..d : w[k] \in SUBSET Obj
    BY <2>3
  <2>5. w = [k \in 0..d |-> w[k]]
    BY <1>6
  <2> QED BY <2>4, <2>5
<1>8. w[0] = {r} /\ \A k \in 1..d : w[k] = Level(m, w[k - 1])
  BY <1>6 DEF Level
<1> QED BY <1>7, <1>8 DEF w

\* How deep the walk goes on does not change what it finds on the way; nor do the ids
\* and LoadMaps.
LEMMA WithinDepth ==
    ASSUME NEW m, Closed(m), NEW m2, m2.ref = m.ref, NEW r \in Obj,
           NEW d \in Nat, NEW e \in Nat, NEW k \in Nat, k <= d, k <= e
    PROVE  Within(m, r, d)[k] = Within(m2, r, e)[k]
<1>1. \A o : Targets(m, o) = Targets(m2, o)
  BY DEF Targets
<1>2. Closed(m2)
  BY <1>1 DEF Closed
<1>3. \A S : Level(m, S) = Level(m2, S)
  BY <1>1 DEF Level
<1> DEFINE v == Within(m, r, d)
           w == Within(m2, r, e)
           S == {n \in Nat : n <= d /\ n <= e => v[n] = w[n]}
<1>4. v[0] = {r} /\ w[0] = {r} /\ (\A n \in 1..d : v[n] = Level(m, v[n - 1]))
      /\ (\A n \in 1..e : w[n] = Level(m2, w[n - 1]))
  BY <1>2, WithinIs
<1> HIDE DEF v, w
<1>5. 0 \in S
  BY <1>4
<1>6. ASSUME NEW n \in Nat, n \in S PROVE n + 1 \in S
  <2> SUFFICES ASSUME n + 1 <= d, n + 1 <= e PROVE v[n + 1] = w[n + 1]
    OBVIOUS
  <2>1. n + 1 \in 1..d /\ n + 1 \in 1..e /\ (n + 1) - 1 = n
    OBVIOUS
  <2>2. v[n + 1] = Level(m, v[n]) /\ w[n + 1] = Level(m2, w[n])
    BY <1>4, <2>1
  <2>3. v[n] = w[n]
    BY <1>6
  <2> QED BY <1>3, <2>2, <2>3
<1>7. Nat \subseteq S
  <2> HIDE DEF S
  <2> QED BY <1>5, <1>6, Induction
<1> QED BY <1>7 DEF v, w

\* A level holds the levels before it.
LEMMA WithinGrows ==
    ASSUME NEW m, Closed(m), NEW r \in Obj, NEW d \in Nat, NEW k \in 0..d, NEW l \in 0..d, k <= l
    PROVE  Within(m, r, d)[k] \subseteq Within(m, r, d)[l]
<1> DEFINE w == Within(m, r, d)
           S == {n \in Nat : n <= l - k => w[k] \subseteq w[k + n]}
<1>1. \A n \in 1..d : w[n - 1] \subseteq w[n]
  BY WithinIs DEF Level
<1> HIDE DEF w
<1>2. 0 \in S
  OBVIOUS
<1>3. ASSUME NEW n \in Nat, n \in S PROVE n + 1 \in S
  <2>1. n + 1 <= l - k => k + n + 1 \in 1..d /\ (k + n + 1) - 1 = k + n
    OBVIOUS
  <2> QED BY <1>1, <1>3, <2>1
<1>4. Nat \subseteq S
  <2> HIDE DEF S
  <2> QED BY <1>2, <1>3, Induction
<1>5. l - k \in S /\ k + (l - k) = l
  BY <1>4
<1> QED BY <1>5 DEF w

\* parseStruct: depth 0 is the object itself, a further level adds all its references.
LEMMA ParsedIs ==
    ASSUME NEW m, Closed(m), NEW r \in Obj, NEW d \in Nat
    PROVE  /\ Parsed(m, r, 0) = {r}
           /\ Parsed(m, r, d) = Within(m, r, d)[d]
           /\ Parsed(m, r, d + 1) = Level(m, Parsed(m, r, d))
           /\ r \in Parsed(m, r, d)
<1>1. /\ Within(m, r, 0)[0] = {r}
      /\ Within(m, r, d)[d] \subseteq Obj
      /\ Within(m, r, d + 1)[d + 1] = Level(m, Within(m, r, d + 1)[d])
  BY WithinIs
<1>2. Within(m, r, d + 1)[d] = Within(m, r, d)[d]
  BY WithinDepth
<1>3. {r} = Within(m, r, d)[0] /\ Within(m, r, d)[0] \subseteq Within(m, r, d)[d]
  BY WithinIs, WithinGrows
<1>4. \A S \in SUBSET Obj : Level(m, S) \subseteq Obj
  BY DEF Level, Closed
<1> QED BY <1>1, <1>2, <1>3, <1>4 DEF Parsed

LEMMA ParsedSame ==
    ASSUME NEW m, Closed(m), NEW m2, m2.ref = m.ref, NEW r \in Obj, NEW d \in Nat
    PROVE  Parsed(m2, r, d) = Parsed(m, r, d)
BY WithinDepth DEF Parsed

-------------------------------------------------------------------------------
(* The walk of generateCurRels.                                                 *)

Args(d) == (0..d) \X (SUBSET Obj) \X (SUBSET Obj)

\* The calls for p, one of the targets, and for the targets left when it has visited U.
Through(m, x, p) == <<x[1] - 1, Follow(m, p), x[3] \cup {p}>>
After(x, p, U)  == <<x[1], x[2] \ {p}, U>>

Body(m, g, x) ==
    IF x[1] = 0 \/ x[2] \subseteq x[3] THEN {x[3]}
    ELSE UNION {UNION {g[After(x, p, U)] : U \in g[Through(m, x, p)]} : p \in x[2] \ x[3]}

\* Every call of the walk is of lower rank than its caller: fewer levels are left, or as
\* many and fewer targets.
Rank(x) == x[1] * (Cardinality(Obj) + 1) + Cardinality(x[2])

LEMMA RankIsNat ==
    ASSUME NEW d \in Nat, NEW x \in Args(d)
    PROVE  Rank(x) \in Nat /\ Rank(x) < (d + 1) * (Cardinality(Obj) + 1)
<1>1. x[1] \in 0..d /\ x[2] \in SUBSET Obj
  BY DEF Args
<1>2. Cardinality(Obj) \in Nat /\ Cardinality(x[2]) \in Nat /\ Cardinality(x[2]) <= Cardinality(Obj)
  BY <1>1, ObjectsAreFinite, FS_Subset, FS_CardinalityType
<1> DEFINE n == Cardinality(Obj)
           k == x[1]
           c == Cardinality(x[2])
<1> HIDE DEF n, k, c
<1>3. ASSUME n \in Nat, c \in Nat, c <= n, k \in 0..d
      PROVE  k * (n + 1) + c \in Nat /\ k * (n + 1) + c < (d + 1) * (n + 1)
  <2>1. (d + 1) * (n + 1) = k * (n + 1) + (d + 1 - k) * (n + 1)
    BY <1>3
  <2>2. (d + 1 - k) * (n + 1) >= n + 1
    BY <1>3
  <2>3. k * (n + 1) \in Nat
    BY <1>3
  <2> QED BY <1>3, <2>1, <2>2, <2>3
<1> QED BY <1>1, <1>2, <1>3 DEF Rank, n, k, c

LEMMA ArgsAre ==
    ASSUME NEW m, Closed(m), NEW d \in Nat, NEW x \in Args(d)
    PROVE  /\ x[1] \in 0..d /\ x[2] \in SUBSET Obj /\ x[3] \in SUBSET Obj
           /\ \A p \in x[2] : x[1] # 0 => Through(m, x, p) \in Args(d)
           /\ \A p \in x[2], U \in SUBSET Obj : After(x, p, U) \in Args(d)
<1>1. x[1] \in 0..d /\ x[2] \in SUBSET Obj /\ x[3] \in SUBSET Obj
  BY DEF Args
<1>2. ASSUME NEW p \in x[2], x[1] # 0 PROVE Through(m, x, p) \in Args(d)
  <2>1. Follow(m, p) \in SUBSET Obj /\ x[3] \cup {p} \in SUBSET Obj /\ x[1] - 1 \in 0..d
    BY <1>1, <1>2 DEF Follow, Closed
  <2> QED BY <2>1 DEF Args, Through
<1>3. ASSUME NEW p \in x[2], NEW U \in SUBSET Obj PROVE After(x, p, U) \in Args(d)
  BY <1>1 DEF Args, After
<1> QED BY <1>1, <1>2, <1>3

LEMMA ThroughFalls ==
    ASSUME NEW m, Closed(m), NEW d \in Nat, NEW x \in Args(d), x[1] # 0, NEW p \in x[2]
    PROVE  Rank(Through(m, x, p)) < Rank(x)
<1> DEFINE n == Cardinality(Obj)
           k == x[1]
           a == Cardinality(Follow(m, p))
           b == Cardinality(x[2])
<1>1. k \in Nat /\ x[2] \in SUBSET Obj /\ Follow(m, p) \in SUBSET Obj
  <2>1. x[1] \in 0..d /\ x[2] \in SUBSET Obj
    BY ArgsAre
  <2>2. p \in Obj
    BY <2>1
  <2>3. Follow(m, p) \in SUBSET Obj
    BY <2>2 DEF Follow, Closed
  <2> QED BY <2>1, <2>3
<1>2. n \in Nat /\ a \in Nat /\ a <= n /\ b \in Nat
  BY <1>1, ObjectsAreFinite, FS_Subset, FS_CardinalityType
<1>3. Rank(x) = k * (n + 1) + b /\ Rank(Through(m, x, p)) = (k - 1) * (n + 1) + a
  BY DEF Rank, Through
<1>4. k # 0
  OBVIOUS
<1> HIDE DEF n, a, b, k
<1>5. k * (n + 1) = (k - 1) * (n + 1) + (n + 1) /\ (k - 1) * (n + 1) \in Nat
  BY <1>1, <1>2, <1>4
<1> QED BY <1>2, <1>3, <1>5

LEMMA AfterFalls ==
    ASSUME NEW m, Closed(m), NEW d \in Nat, NEW x \in Args(d), NEW p \in x[2], NEW U \in SUBSET Obj
    PROVE  Rank(After(x, p, U)) < Rank(x)
<1> DEFINE n == Cardinality(Obj)
           k == x[1]
           b == Cardinality(x[2])
           c == Cardinality(x[2] \ {p})
<1>1. k \in Nat /\ x[2] \in SUBSET Obj
  BY ArgsAre
<1>2. n \in Nat /\ b \in Nat /\ c = b - 1
  BY <1>1, ObjectsAreFinite, FS_Subset, FS_CardinalityType, FS_RemoveElement
<1>3. Rank(x) = k * (n + 1) + b /\ Rank(After(x, p, U)) = k * (n + 1) + c
  BY DEF Rank, After
<1> HIDE DEF n, b, c, k
<1>4. k * (n + 1) \in Nat
  BY <1>1, <1>2
<1> QED BY <1>2, <1>3, <1>4

\* What g says of the calls of rank below n.
Typed(d, g, n) == \A y \in Args(d) : Rank(y) < n => g[y] \in SUBSET SUBSET Obj

LEMMA BodyTyped ==
    ASSUME NEW m, Closed(m), NEW d \in Nat, NEW x \in Args(d), NEW g, Typed(d, g, Rank(x))
    PROVE  Body(m, g, x) \in SUBSET SUBSET Obj
<1>1. x[3] \in SUBSET Obj
  BY ArgsAre
<1>2. ASSUME x[1] # 0, NEW p \in x[2], NEW U \in g[Through(m, x, p)]
      PROVE  g[After(x, p, U)] \in SUBSET SUBSET Obj
  <2>1. Through(m, x, p) \in Args(d) /\ Rank(Through(m, x, p)) < Rank(x)
    BY <1>2, ArgsAre, ThroughFalls
  <2>2. U \in SUBSET Obj
    BY <2>1, <1>2 DEF Typed
  <2>3. After(x, p, U) \in Args(d) /\ Rank(After(x, p, U)) < Rank(x)
    BY <2>2, ArgsAre, AfterFalls
  <2> QED BY <2>3 DEF Typed
<1> QED BY <1>1, <1>2 DEF Body

LEMMA BodySame ==
    ASSUME NEW m, Closed(m), NEW d \in Nat, NEW x \in Args(d), NEW g, Typed(d, g, Rank(x)), NEW h,
           \A y \in Args(d) : Rank(y) < Rank(x) => g[y] = h[y]
    PROVE  Body(m, g, x) = Body(m, h, x)
<1>1. ASSUME x[1] # 0, NEW p \in x[2]
      PROVE  UNION {g[After(x, p, U)] : U \in g[Through(m, x, p)]}
             = UNION {h[After(x, p, U)] : U \in h[Through(m, x, p)]}
  <2>1. Through(m, x, p) \in Args(d) /\ Rank(Through(m, x, p)) < Rank(x)
    BY <1>1, ArgsAre, ThroughFalls
  <2>2. g[Through(m, x, p)] = h[Through(m, x, p)] /\ g[Through(m, x, p)] \in SUBSET SUBSET Obj
    BY <2>1 DEF Typed
  <2>3. ASSUME NEW U \in g[Through(m, x, p)] PROVE g[After(x, p, U)] = h[After(x, p, U)]
    <3>1. U \in SUBSET Obj
      BY <2>2, <2>3
    <3>2. After(x, p, U) \in Args(d) /\ Rank(After(x, p, U)) < Rank(x)
      BY <3>1, ArgsAre, AfterFalls
    <3> QED BY <3>2
  <2> QED BY <2>2, <2>3
<1> DEFINE A(p) == UNION {g[After(x, p, U)] : U \in g[Through(m, x, p)]}
           B(p) == UNION {h[After(x, p, U)] : U \in h[Through(m, x, p)]}
<1>2. ASSUME x[1] # 0 PROVE UNION {A(p) : p \in x[2] \ x[3]} = UNION {B(p) : p \in x[2] \ x[3]}
  <2>1. \A p \in x[2] : A(p) = B(p)
    BY <1>1, <1>2
  <2> HIDE DEF A, B
  <2> QED BY <2>1
<1> QED BY <1>2 DEF Body

\* The walk satisfies the equation that defines it.
LEMMA WalkIs ==
    ASSUME NEW m, Closed(m), NEW d \in Nat
    PROVE  \A x \in Args(d) : /\ Walk(m, d)[x] \in SUBSET SUBSET Obj
                              /\ Walk(m, d)[x] = Body(m, Walk(m, d), x)
<1> DEFINE D == Args(d)
           V == SUBSET SUBSET Obj
           Step(g) == [x \in D |-> Body(m, g, x)]
           F == [g \in [D -> V] |-> Step(g)]
           rank == [x \in D |-> Rank(x)]
           bound == (d + 1) * (Cardinality(Obj) + 1)
           w == Walk(m, d)
<1>1. ASSUME NEW g \in [D -> V], NEW n PROVE Typed(d, g, n)
  BY DEF Typed
<1>2. F \in [[D -> V] -> [D -> V]]
  BY <1>1, BodyTyped, Zenon
<1>3. \A g, h \in [D -> V] : \A x \in D :
         (\A y \in D : rank[y] < rank[x] => g[y] = h[y]) => F[g][x] = F[h][x]
  <2> SUFFICES ASSUME NEW g \in [D -> V], NEW h \in [D -> V], NEW x \in D,
                      \A y \in D : rank[y] < rank[x] => g[y] = h[y]
               PROVE  F[g][x] = F[h][x]
    OBVIOUS
  <2>1. \A y \in Args(d) : Rank(y) < Rank(x) => g[y] = h[y]
    OBVIOUS
  <2>2. Body(m, g, x) = Body(m, h, x)
    BY <1>1, <2>1, BodySame
  <2> QED BY <2>2
<1>4. rank \in [D -> Nat] /\ \A x \in D : rank[x] < bound
  BY RankIsNat, Zenon
<1>5. bound \in Nat
  BY ObjectsAreFinite, FS_CardinalityType
<1>6. V # {}
  OBVIOUS
<1>7. PICK f \in [D -> V] : f = F[f]
  <2>1. Recursive(D, V, rank, bound, F)
    <3> HIDE DEF F, rank, bound, D, V
    <3> QED BY <1>2, <1>3, <1>4, <1>5, <1>6 DEF Recursive
  <2> HIDE DEF F, rank, bound, D, V
  <2> QED BY <2>1, FixedPoint
<1>8. f = Step(f)
  BY <1>7, Zenon
<1>9. w = CHOOSE g : g = Step(g)
  BY Zenon DEF Walk, Body, Through, After, Args
<1>10. w = Step(w)
  <2> HIDE DEF Step, w
  <2> QED BY <1>8, <1>9
<1> HIDE DEF w
<1>11. \A x \in Args(d) : w[x] = Body(m, w, x)
  BY <1>10, Zenon
<1> DEFINE S == {n \in Nat : Typed(d, w, n)}
<1>12. 0 \in S
  BY RankIsNat DEF Typed
<1>13. ASSUME NEW n \in Nat, n \in S PROVE n + 1 \in S
  <2>1. ASSUME NEW x \in Args(d), Rank(x) < n + 1 PROVE w[x] \in SUBSET SUBSET Obj
    <3>1. \A y \in Args(d) : Rank(y) < Rank(x) => Rank(y) < n
      BY <2>1, RankIsNat
    <3>2. Typed(d, w, Rank(x))
      BY <1>13, <3>1 DEF Typed
    <3> QED BY <1>11, <3>2, BodyTyped
  <2> QED BY <2>1 DEF Typed
<1>14. Nat \subseteq S
  <2> HIDE DEF S
  <2> QED BY <1>12, <1>13, Induction
<1>15. Typed(d, w, bound)
  BY <1>5, <1>14
<1>16. \A x \in Args(d) : w[x] \in SUBSET SUBSET Obj
  BY <1>15, RankIsNat DEF Typed
<1> QED BY <1>11, <1>16 DEF w

\* Induction along the walk: G relates a call to what it may have visited in the end.
StopsIn(d, G) == \A x \in Args(d) : x[1] = 0 \/ x[2] \subseteq x[3] => <<x, x[3]>> \in G
KeepsTo(m, d, G) ==
    \A x \in Args(d) : \A p \in x[2] \ x[3] : \A U, W \in SUBSET Obj :
        x[1] # 0 /\ <<Through(m, x, p), U>> \in G /\ <<After(x, p, U), W>> \in G => <<x, W>> \in G

LEMMA WalkInduction ==
    ASSUME NEW m, Closed(m), NEW d \in Nat, NEW G, StopsIn(d, G), KeepsTo(m, d, G)
    PROVE  \A x \in Args(d) : \A U \in Walk(m, d)[x] : <<x, U>> \in G
<1> DEFINE w == Walk(m, d)
           Good(x) == \A U \in w[x] : <<x, U>> \in G
           S == {n \in Nat : \A x \in Args(d) : Rank(x) < n => Good(x)}
<1>1. \A x \in Args(d) : w[x] \in SUBSET SUBSET Obj /\ w[x] = Body(m, w, x)
  BY WalkIs
<1> HIDE DEF w
<1>2. 0 \in S
  BY RankIsNat
<1>3. ASSUME NEW n \in Nat, n \in S PROVE n + 1 \in S
  <2>1. ASSUME NEW x \in Args(d), Rank(x) < n + 1, NEW W \in w[x] PROVE <<x, W>> \in G
    <3>1. CASE x[1] = 0 \/ x[2] \subseteq x[3]
      <4>1. W = x[3]
        BY <1>1, <3>1 DEF Body
      <4> QED BY <3>1, <4>1 DEF StopsIn
    <3>2. CASE x[1] # 0 /\ ~ (x[2] \subseteq x[3])
      <4>1. W \in UNION {UNION {w[After(x, p, U)] : U \in w[Through(m, x, p)]} : p \in x[2] \ x[3]}
        BY <1>1, <2>1, <3>2 DEF Body
      <4>2. PICK p \in x[2] \ x[3] : \E U \in w[Through(m, x, p)] : W \in w[After(x, p, U)]
        BY <4>1
      <4>3. PICK U \in w[Through(m, x, p)] : W \in w[After(x, p, U)]
        BY <4>2
      <4>4. Through(m, x, p) \in Args(d) /\ Rank(Through(m, x, p)) < Rank(x)
        BY <3>2, ArgsAre, ThroughFalls
      <4>5. U \in SUBSET Obj
        BY <1>1, <4>4
      <4>6. After(x, p, U) \in Args(d) /\ Rank(After(x, p, U)) < Rank(x)
        BY <4>5, ArgsAre, AfterFalls
      <4>7. Rank(Through(m, x, p)) < n /\ Rank(After(x, p, U)) < n
        BY <2>1, <4>4, <4>6, RankIsNat
      <4>8. <<Through(m, x, p), U>> \in G /\ <<After(x, p, U), W>> \in G
        BY <1>3, <4>3, <4>4, <4>6, <4>7
      <4>9. W \in SUBSET Obj
        BY <1>1, <4>3, <4>6
      <4> QED BY <3>2, <4>5, <4>8, <4>9 DEF KeepsTo
    <3> QED BY <3>1, <3>2
  <2> QED BY <2>1
<1>4. Nat \subseteq S
  <2> HIDE DEF S
  <2> QED BY <1>2, <1>3, Induction
<1>5. ASSUME NEW x \in Args(d) PROVE Good(x)
  <2>1. Rank(x) \in Nat /\ Rank(x) + 1 \in S /\ Rank(x) < Rank(x) + 1
    BY <1>4, RankIsNat
  <2> QED BY <2>1
<1> QED BY <1>5 DEF w

\* The first call.
Start(m, r, d) == <<d, Follow(m, r), {r}>>

LEMMA StartIs ==
    ASSUME NEW m, Closed(m), NEW r \in Obj, NEW d \in Nat
    PROVE  Start(m, r, d) \in Args(d) /\ Visits(m, r, d) = Walk(m, d)[Start(m, r, d)]
BY DEF Start, Args, Visits, Follow, Closed

\* Nothing is visited outside the levels of parseStruct.
LEMMA VisitsWithin ==
    ASSUME NEW m, Closed(m), NEW r \in Obj, NEW d \in Nat, NEW U \in Visits(m, r, d)
    PROVE  U \subseteq Parsed(m, r, d)
<1> DEFINE At == Within(m, r, d)
           Fits(x) == (x[1] # 0 => x[2] \subseteq At[d - x[1] + 1]) /\ x[3] \subseteq At[d]
           G == {y \in Args(d) \X SUBSET Obj : Fits(y[1]) => y[2] \subseteq At[d]}
<1>1. At[0] = {r} /\ \A k \in 1..d : At[k] = Level(m, At[k - 1])
  BY WithinIs
<1>2. \A k \in 0..d : At[k] \subseteq At[d]
  BY WithinGrows
<1> HIDE DEF At
<1>3. \A o : Follow(m, o) \subseteq Targets(m, o)
  BY DEF Follow
<1>4. \A x \in Args(d), V \in SUBSET Obj : <<x, V>> \in G <=> (Fits(x) => V \subseteq At[d])
  OBVIOUS
<1>5. StopsIn(d, G)
  BY <1>4, ArgsAre DEF StopsIn
<1>6. KeepsTo(m, d, G)
  <2> SUFFICES ASSUME NEW x \in Args(d), NEW p \in x[2] \ x[3], NEW V \in SUBSET Obj, NEW W \in SUBSET Obj,
                      x[1] # 0, Fits(x), Fits(Through(m, x, p)) => V \subseteq At[d],
                      Fits(After(x, p, V)) => W \subseteq At[d]
               PROVE  W \subseteq At[d]
    <3> HIDE DEF G, Fits
    <3>1. \A x \in Args(d) : \A p \in x[2] \ x[3] : \A V \in SUBSET Obj :
             x[1] # 0 => Through(m, x, p) \in Args(d) /\ After(x, p, V) \in Args(d)
      BY ArgsAre
    <3> QED BY <1>4, <3>1 DEF KeepsTo
  <2> DEFINE k == x[1]
  <2>1. k \in 1..d /\ d - k + 1 \in 1..d
    BY ArgsAre
  <2>2. p \in At[d - k + 1] /\ At[d - k + 1] \subseteq At[d]
    BY <1>2, <2>1
  <2>3. ASSUME k - 1 # 0 PROVE Follow(m, p) \subseteq At[d - (k - 1) + 1]
    <3>1. d - (k - 1) + 1 \in 1..d /\ (d - (k - 1) + 1) - 1 = d - k + 1
      BY <2>1, <2>3
    <3> QED BY <1>1, <1>3, <2>2, <3>1 DEF Level
  <2>4. Fits(Through(m, x, p))
    BY <2>2, <2>3 DEF Through
  <2>5. Fits(After(x, p, V))
    BY <2>4 DEF After
  <2> QED BY <2>5
<1>7. Fits(Start(m, r, d))
  <2>1. d # 0 => Follow(m, r) \subseteq At[d - d + 1]
    <3>1. d # 0 => 1 \in 1..d /\ d - d + 1 = 1 /\ 1 - 1 = 0
      OBVIOUS
    <3> QED BY <1>1, <1>3, <3>1 DEF Level
  <2>2. {r} \subseteq At[d]
    BY <1>1, <1>2
  <2> QED BY <2>1, <2>2 DEF Start
<1>8. <<Start(m, r, d), U>> \in G
  <2> HIDE DEF G
  <2> QED BY <1>5, <1>6, StartIs, WalkInduction
<1>9. U \subseteq At[d]
  BY <1>7, <1>8
<1>10. At[d] = Parsed(m, r, d)
  BY ParsedIs DEF At
<1> QED BY <1>9, <1>10

\* Whatever is visited stays so; with a level left, every target is visited.
LEMMA VisitsTargets ==
    ASSUME NEW m, Closed(m), NEW d \in Nat, NEW x \in Args(d), NEW U \in Walk(m, d)[x]
    PROVE  x[3] \subseteq U /\ (x[1] # 0 => x[2] \subseteq U)
<1> DEFINE Met(y, V) == y[3] \subseteq V /\ (y[1] # 0 => y[2] \subseteq V)
           G == {y \in Args(d) \X SUBSET Obj : Met(y[1], y[2])}
<1>1. \A y \in Args(d), V \in SUBSET Obj : <<y, V>> \in G <=> Met(y, V)
  OBVIOUS
<1>2. StopsIn(d, G)
  BY <1>1, ArgsAre DEF StopsIn
<1>3. KeepsTo(m, d, G)
  <2> SUFFICES ASSUME NEW y \in Args(d), NEW p \in y[2] \ y[3], NEW V \in SUBSET Obj, NEW W \in SUBSET Obj,
                      y[1] # 0, Met(Through(m, y, p), V), Met(After(y, p, V), W)
               PROVE  Met(y, W)
    <3>1. \A y \in Args(d) : \A p \in y[2] \ y[3] : \A V \in SUBSET Obj :
             y[1] # 0 => Through(m, y, p) \in Args(d) /\ After(y, p, V) \in Args(d)
      BY ArgsAre
    <3> HIDE DEF G, Met
    <3> QED BY <1>1, <3>1 DEF KeepsTo
  <2> QED BY DEF Through, After
<1>4. <<x, U>> \in G
  <2> HIDE DEF G
  <2> QED BY <1>2, <1>3, WalkInduction
<1> QED BY <1>4

\* With as many levels left as there are objects of R to visit, the walk goes on from
\* each object it comes to.
LEMMA VisitsGoOn ==
    ASSUME NEW m, Closed(m), NEW d \in Nat, NEW x \in Args(d), NEW U \in Walk(m, d)[x],
           NEW R \in SUBSET Obj, \A o \in R : Follow(m, o) \subseteq R,
           x[2] \subseteq R, x[3] \subseteq R, Cardinality(R \ x[3]) <= x[1]
    PROVE  /\ x[2] \subseteq U /\ x[3] \subseteq U
           /\ \A o \in U \ x[3] : Follow(m, o) \subseteq U
<1> DEFINE Left(S) == Cardinality(R \ S)
           Deep(y) == y[2] \subseteq R /\ y[3] \subseteq R /\ Left(y[3]) <= y[1]
           Met(y, V) == /\ y[3] \subseteq V
                        /\ Deep(y) => /\ y[2] \subseteq V /\ V \subseteq R
                                      /\ \A o \in V \ y[3] : Follow(m, o) \subseteq V
           G == {y \in Args(d) \X SUBSET Obj : Met(y[1], y[2])}
<1>1. \A y \in Args(d), V \in SUBSET Obj : <<y, V>> \in G <=> Met(y, V)
  OBVIOUS
<1>2. \A S \in SUBSET Obj : /\ IsFiniteSet(R \ S) /\ Left(S) \in Nat
                            /\ Left(S) = 0 <=> R \subseteq S
  <2>1. ASSUME NEW S \in SUBSET Obj PROVE IsFiniteSet(R \ S)
    BY ObjectsAreFinite, FS_Subset
  <2>2. \A S \in SUBSET Obj : R \ S = {} <=> R \subseteq S
    OBVIOUS
  <2> QED BY <2>1, <2>2, FS_CardinalityType, FS_EmptySet
<1>3. StopsIn(d, G)
  <2>1. ASSUME NEW y \in Args(d), y[1] = 0 \/ y[2] \subseteq y[3], Deep(y) PROVE y[2] \subseteq y[3]
    <3>1. y[3] \in SUBSET Obj
      BY ArgsAre
    <3>2. Left(y[3]) \in Nat /\ (Left(y[3]) = 0 <=> R \subseteq y[3])
      BY <1>2, <3>1
    <3> HIDE DEF Left, G
    <3> QED BY <2>1, <3>2
  <2>2. \A y \in Args(d) : y[1] = 0 \/ y[2] \subseteq y[3] => Met(y, y[3])
    BY <2>1
  <2>3. \A y \in Args(d) : y[3] \in SUBSET Obj
    BY ArgsAre
  <2> HIDE DEF G, Met
  <2> QED BY <1>1, <2>2, <2>3 DEF StopsIn
<1>4. KeepsTo(m, d, G)
  <2> SUFFICES ASSUME NEW y \in Args(d), NEW p \in y[2] \ y[3], NEW V \in SUBSET Obj, NEW W \in SUBSET Obj,
                      y[1] # 0, Met(Through(m, y, p), V), Met(After(y, p, V), W)
               PROVE  Met(y, W)
    <3>1. \A y \in Args(d) : \A p \in y[2] \ y[3] : \A V \in SUBSET Obj :
             y[1] # 0 => Through(m, y, p) \in Args(d) /\ After(y, p, V) \in Args(d)
      BY ArgsAre
    <3> HIDE DEF G, Met
    <3> QED BY <1>1, <3>1 DEF KeepsTo
  <2>1. y[3] \cup {p} \subseteq V /\ V \subseteq W
    BY DEF Through, After
  <2>2. ASSUME Deep(y)
        PROVE  y[2] \subseteq W /\ W \subseteq R /\ \A o \in W \ y[3] : Follow(m, o) \subseteq W
    <3>1. y[1] \in Nat /\ y[3] \in SUBSET Obj /\ p \in R
      BY <2>2, ArgsAre
    <3>2. Left(y[3] \cup {p}) = Left(y[3]) - 1
      <4> DEFINE S == R \ y[3]
      <4>1. R \ (y[3] \cup {p}) = S \ {p} /\ p \in S
        BY <3>1
      <4>2. IsFiniteSet(S)
        BY <1>2, <3>1
      <4>3. Cardinality(S \ {p}) = Cardinality(S) - 1
        <5> HIDE DEF S
        <5> QED BY <4>1, <4>2, FS_RemoveElement
      <4> QED BY <4>1, <4>3
    <3>3. Deep(Through(m, y, p))
      <4>1. Left(y[3]) \in Nat /\ Left(y[3]) <= y[1]
        BY <1>2, <2>2, <3>1
      <4>2. Left(y[3] \cup {p}) <= y[1] - 1
        <5> HIDE DEF Left, Met, G
        <5> QED BY <3>1, <3>2, <4>1
      <4>3. y[3] \cup {p} \subseteq R /\ Follow(m, p) \subseteq R
        BY <2>2, <3>1
      <4> HIDE DEF Left
      <4> QED BY <4>2, <4>3 DEF Through
    <3>4. V \subseteq R /\ Follow(m, p) \subseteq V /\ \A o \in V \ (y[3] \cup {p}) : Follow(m, o) \subseteq V
      BY <3>3 DEF Through
    <3>5. Deep(After(y, p, V))
      <4> DEFINE S == R \ V
                 T == R \ y[3]
      <4>1. S \subseteq T /\ IsFiniteSet(T)
        BY <1>2, <2>1, <3>1
      <4>2. Cardinality(S) <= Cardinality(T)
        <5> HIDE DEF S, T
        <5> QED BY <4>1, FS_Subset
      <4>3. Left(V) <= Left(y[3])
        BY <4>2
      <4>4. Left(V) \in Nat /\ Left(y[3]) \in Nat /\ Left(y[3]) <= y[1]
        BY <1>2, <2>2, <3>1
      <4>5. Left(V) <= y[1]
        <5> HIDE DEF Left, Met, G
        <5> QED BY <3>1, <4>3, <4>4
      <4> HIDE DEF Left
      <4> QED BY <2>2, <3>4, <4>5 DEF After
    <3>6. y[2] \ {p} \subseteq W /\ W \subseteq R /\ \A o \in W \ V : Follow(m, o) \subseteq W
      BY <3>5 DEF After
    <3> QED BY <2>1, <3>4, <3>6
  <2> QED BY <2>1, <2>2
<1>5. <<x, U>> \in G
  <2> HIDE DEF G
  <2> QED BY <1>3, <1>4, WalkInduction
<1> QED BY <1>5

\* When every object has its id, and no more than d + 1 objects can be reached, the walk
\* comes to all of them in whatever order it goes; at depths 0 and 1 always.
LEMMA VisitsCover ==
    ASSUME NEW m, Closed(m), NEW r \in Obj, NEW d \in Nat, NEW U \in Visits(m, r, d),
           \A o \in Obj : m.id[o] # Nil, NEW R \in SUBSET Obj, r \in R,
           \A o \in R : Targets(m, o) \subseteq R,
           d <= 1 \/ Cardinality(R) <= d + 1
    PROVE  Parsed(m, r, d) \subseteq U
<1> DEFINE x == Start(m, r, d)
           At == Within(m, r, d)
<1>1. x \in Args(d) /\ U \in Walk(m, d)[x]
  BY StartIs
<1>2. x[1] = d /\ x[2] = Follow(m, r) /\ x[3] = {r}
  BY DEF Start
<1>3. \A o \in Obj : Follow(m, o) = Targets(m, o)
  BY DEF Follow, Closed
<1>4. r \in U /\ (d # 0 => Targets(m, r) \subseteq U)
  <2> HIDE DEF x
  <2> QED BY <1>1, <1>2, <1>3, VisitsTargets
<1>5. At[0] = {r} /\ (\A k \in 1..d : At[k] = Level(m, At[k - 1])) /\ At[d] = Parsed(m, r, d)
  BY WithinIs, ParsedIs
<1> HIDE DEF x, At
<1>6. CASE d <= 1
  <2>1. CASE d = 0
    BY <1>4, <1>5, <2>1
  <2>2. CASE d = 1
    <3>1. At[1] = Level(m, At[0])
      <4>1. 1 \in 1..d /\ 1 - 1 = 0
        BY <2>2
      <4> QED BY <1>5, <4>1
    <3> QED BY <1>4, <1>5, <2>2, <3>1 DEF Level
  <2> QED BY <1>6, <2>1, <2>2
<1>7. CASE Cardinality(R) <= d + 1
  <2>1. Cardinality(R \ {r}) <= d
    <3>1. IsFiniteSet(R) /\ Cardinality(R) \in Nat
      BY ObjectsAreFinite, FS_Subset, FS_CardinalityType
    <3>2. Cardinality(R \ {r}) = Cardinality(R) - 1
      BY <3>1, FS_RemoveElement
    <3> QED BY <1>7, <3>1, <3>2
  <2>2. (\A o \in R : Follow(m, o) \subseteq R) /\ x[2] \subseteq R /\ x[3] \subseteq R
        /\ Cardinality(R \ x[3]) <= x[1]
    BY <1>2, <1>3, <2>1
  <2>3. x[2] \subseteq U /\ x[3] \subseteq U /\ \A o \in U \ x[3] : Follow(m, o) \subseteq U
    BY <1>1, <2>2, VisitsGoOn
  <2>4. U \subseteq Obj
    BY <1>1, WalkIs
  <2>5. \A o \in U : Targets(m, o) \subseteq U
    BY <1>2, <1>3, <2>3, <2>4
  <2> DEFINE S == {n \in Nat : n <= d => At[n] \subseteq U}
  <2>6. 0 \in S
    BY <1>4, <1>5
  <2>7. ASSUME NEW n \in Nat, n \in S PROVE n + 1 \in S
    <3> SUFFICES ASSUME n + 1 <= d PROVE At[n + 1] \subseteq U
      OBVIOUS
    <3>1. n + 1 \in 1..d /\ (n + 1) - 1 = n
      OBVIOUS
    <3>2. At[n + 1] = Level(m, At[n])
      BY <1>5, <3>1
    <3>3. At[n] \subseteq U
      BY <2>7
    <3> QED BY <2>5, <3>2, <3>3 DEF Level
  <2>8. Nat \subseteq S
    <3> HIDE DEF S
    <3> QED BY <2>6, <2>7, Induction
  <2> QED BY <1>5, <2>8
<1> QED BY <1>6, <1>7
=============================================================================
