---------------------------- MODULE Loading_proofs ----------------------------
(***************************************************************************)
(* For any nodes, schemas, strategies and calls of Loading: decode keeps   *)
(* the LoadMaps and the fields in step (by Note and Put, whatever the rows *)
(* of the query are); it returns what was asked for; what the strategies   *)
(* ask for, by induction over the depth; and which fields a relationship   *)
(* is loaded into.                                                         *)
(***************************************************************************)
EXTENDS Loading, FiniteSetTheorems, Recursion

\* r maps every node and field to something.
Shape(r) == r = [n \in Node |-> [f \in Fields |-> r[n][f]]]

\* What field f of n holds is noted; what is noted it holds, or it is a pointer that
\* was set more than once.
HeldAt(r, i, n, f) ==
    /\ IsFiniteSet(i[n][f])
    /\ r[n][f] \subseteq i[n][f]
    /\ \/ i[n][f] \subseteq r[n][f]
       \/ IsSingle(f) /\ \E x, y \in i[n][f] : x # y

HeldAll(r, i) == Shape(r) /\ Shape(i) /\ \A n \in Node, f \in Fields : HeldAt(r, i, n, f)

\* The LoadMaps are empty, or what was noted when they were set.
HeldInv == /\ schema \in Schemas
           /\ HeldAll(ref, ids)
           /\ \A n \in Node, f \in Fields : load[n][f] = {} \/ load[n][f] = ids[n][f]
           /\ pc = "relate" => load = Blank

\* A config that decode finds is a field of the schema.
LEMMA ConfigsAreFields ==
    ASSUME NEW decls, NEW type, NEW rel, NEW target, NEW dir
    PROVE  GetConfig(decls, type, rel, target, dir) \subseteq Elements(decls)
BY DEF GetConfig, ConfigsFor, First, Elements, At

LEMMA FieldsOfSchema ==
    ASSUME schema \in Schemas, NEW d \in Elements(schema)
    PROVE  d.field \in Fields /\ (~ d.many => IsSingle(d.field))
BY DEF Fields, IsSingle

\* Note adds p to one field of one node.
LEMMA NoteIs ==
    ASSUME NEW r, Shape(r), NEW n, NEW d, NEW p
    PROVE  Note(r, n, d, p) = [m \in Node |-> [f \in Fields |->
              IF m = n /\ f = d.field THEN r[m][f] \cup {p} ELSE r[m][f]]]
<1>1. DOMAIN r = Node /\ \A m \in Node : DOMAIN r[m] = Fields /\ r[m] = [f \in Fields |-> r[m][f]]
  BY DEF Shape
<1>2. Note(r, n, d, p) = [m \in Node |-> IF m = n THEN [r[n] EXCEPT ![d.field] = @ \cup {p}] ELSE r[m]]
  BY <1>1 DEF Note, Shape
<1>3. ASSUME NEW m \in Node
      PROVE  (IF m = n THEN [r[n] EXCEPT ![d.field] = @ \cup {p}] ELSE r[m])
                = [f \in Fields |-> IF m = n /\ f = d.field THEN r[m][f] \cup {p} ELSE r[m][f]]
  <2>1. CASE m = n
    <3>1. [r[n] EXCEPT ![d.field] = @ \cup {p}]
             = [f \in Fields |-> IF f = d.field THEN r[n][d.field] \cup {p} ELSE r[n][f]]
      BY <1>1, <2>1
    <3> QED BY <2>1, <3>1
  <2>2. CASE m # n
    BY <1>1, <2>2
  <2> QED BY <2>1, <2>2
<1> QED BY <1>2, <1>3

\* What a field holds after p was put into it: a slice is appended to, a pointer set.
Stored(old, d, p) == IF d.many THEN old \cup {p} ELSE {p}

\* Put adds p to one field of one node, or sets it to p.
LEMMA PutIs ==
    ASSUME NEW r, Shape(r), NEW n, NEW d, NEW p
    PROVE  Put(r, n, d, p) = [m \in Node |-> [f \in Fields |->
              IF m = n /\ f = d.field THEN Stored(r[m][f], d, p) ELSE r[m][f]]]
<1>1. DOMAIN r = Node /\ \A m \in Node : DOMAIN r[m] = Fields /\ r[m] = [f \in Fields |-> r[m][f]]
  BY DEF Shape
<1>2. Put(r, n, d, p) = [m \in Node |-> IF m = n THEN [r[n] EXCEPT ![d.field] = Stored(@, d, p)] ELSE r[m]]
  BY <1>1 DEF Put, Shape, Stored
<1>3. ASSUME NEW m \in Node
      PROVE  (IF m = n THEN [r[n] EXCEPT ![d.field] = Stored(@, d, p)] ELSE r[m])
                = [f \in Fields |-> IF m = n /\ f = d.field THEN Stored(r[m][f], d, p) ELSE r[m][f]]
  <2>1. CASE m = n
    <3>1. [r[n] EXCEPT ![d.field] = Stored(@, d, p)]
             = [f \in Fields |-> IF f = d.field THEN Stored(r[n][d.field], d, p) ELSE r[n][f]]
      BY <1>1, <2>1
    <3> QED BY <2>1, <3>1
  <2>2. CASE m # n
    BY <1>1, <2>2
  <2> QED BY <2>1, <2>2
<1> QED BY <1>2, <1>3

\* The same, entry by entry.
LEMMA NoteAt ==
    ASSUME NEW r, Shape(r), NEW n, NEW d, NEW p
    PROVE  /\ Shape(Note(r, n, d, p))
           /\ \A m \in Node, f \in Fields :
                 Note(r, n, d, p)[m][f] = IF m = n /\ f = d.field THEN r[m][f] \cup {p} ELSE r[m][f]
<1> DEFINE N == Note(r, n, d, p)
<1>1. N = [m \in Node |-> [f \in Fields |-> IF m = n /\ f = d.field THEN r[m][f] \cup {p} ELSE r[m][f]]]
  BY NoteIs
<1>2. \A m \in Node, f \in Fields : N[m][f] = IF m = n /\ f = d.field THEN r[m][f] \cup {p} ELSE r[m][f]
  BY <1>1
<1>3. [m \in Node |-> [f \in Fields |-> N[m][f]]]
         = [m \in Node |-> [f \in Fields |-> IF m = n /\ f = d.field THEN r[m][f] \cup {p} ELSE r[m][f]]]
  BY <1>2
<1> QED BY <1>1, <1>2, <1>3 DEF Shape

LEMMA PutAt ==
    ASSUME NEW r, Shape(r), NEW n, NEW d, NEW p
    PROVE  /\ Shape(Put(r, n, d, p))
           /\ \A m \in Node, f \in Fields :
                 Put(r, n, d, p)[m][f] = IF m = n /\ f = d.field THEN Stored(r[m][f], d, p) ELSE r[m][f]
<1> DEFINE P == Put(r, n, d, p)
<1>1. P = [m \in Node |-> [f \in Fields |->
              IF m = n /\ f = d.field THEN Stored(r[m][f], d, p) ELSE r[m][f]]]
  BY PutIs
<1>2. \A m \in Node, f \in Fields :
         P[m][f] = IF m = n /\ f = d.field THEN Stored(r[m][f], d, p) ELSE r[m][f]
  BY <1>1
<1>3. [m \in Node |-> [f \in Fields |-> P[m][f]]] = [m \in Node |-> [f \in Fields |->
              IF m = n /\ f = d.field THEN Stored(r[m][f], d, p) ELSE r[m][f]]]
  BY <1>2
<1> QED BY <1>1, <1>2, <1>3 DEF Shape

\* Noting p and putting p into the same field keeps the two in step.
LEMMA PutHolds ==
    ASSUME schema \in Schemas, NEW r, NEW i, HeldAll(r, i), NEW n, NEW d \in Elements(schema), NEW p
    PROVE  HeldAll(Put(r, n, d, p), Note(i, n, d, p))
<1> DEFINE R == Put(r, n, d, p)
           I == Note(i, n, d, p)
<1>1. \A m \in Node, f \in Fields :
         /\ R[m][f] = IF m = n /\ f = d.field THEN Stored(r[m][f], d, p) ELSE r[m][f]
         /\ I[m][f] = IF m = n /\ f = d.field THEN i[m][f] \cup {p} ELSE i[m][f]
  <2>1. \A m \in Node, f \in Fields :
           R[m][f] = IF m = n /\ f = d.field THEN Stored(r[m][f], d, p) ELSE r[m][f]
    BY PutAt DEF HeldAll
  <2>2. \A m \in Node, f \in Fields : I[m][f] = IF m = n /\ f = d.field THEN i[m][f] \cup {p} ELSE i[m][f]
    BY NoteAt DEF HeldAll
  <2> QED BY <2>1, <2>2
<1>2. Shape(R) /\ Shape(I)
  BY NoteAt, PutAt DEF HeldAll
<1>3. ASSUME NEW m \in Node, NEW f \in Fields PROVE HeldAt(R, I, m, f)
  <2>0. HeldAt(r, i, m, f)
    BY DEF HeldAll
  <2>1. CASE ~ (m = n /\ f = d.field)
    <3>1. R[m][f] = r[m][f] /\ I[m][f] = i[m][f]
      BY <1>1, <2>1
    <3> QED BY <2>0, <3>1 DEF HeldAt
  <2>2. CASE m = n /\ f = d.field
    <3>1. R[m][f] = (IF d.many THEN r[m][f] \cup {p} ELSE {p}) /\ I[m][f] = i[m][f] \cup {p}
      BY <1>1, <2>2 DEF Stored
    <3>2. IsFiniteSet(I[m][f])
      BY <2>0, <3>1, FS_AddElement DEF HeldAt
    <3>3. CASE d.many
      BY <2>0, <3>1, <3>2, <3>3 DEF HeldAt
    <3>4. CASE ~ d.many
      <4>1. IsSingle(f)
        BY <2>2, <3>4, FieldsOfSchema
      <4>2. I[m][f] \subseteq R[m][f] \/ \E x, y \in I[m][f] : x # y
        BY <3>1, <3>4
      <4> QED BY <3>1, <3>2, <3>4, <4>1, <4>2 DEF HeldAt
    <3> QED BY <3>3, <3>4
  <2> QED BY <2>1, <2>2
<1> QED BY <1>2, <1>3 DEF HeldAll

\* Two notes may be taken in either order.
LEMMA NotesCommute ==
    ASSUME NEW i, Shape(i), NEW n, NEW d, NEW p, NEW m, NEW e, NEW q
    PROVE  Note(Note(i, n, d, p), m, e, q) = Note(Note(i, m, e, q), n, d, p)
<1> DEFINE A == Note(i, n, d, p)
           B == Note(i, m, e, q)
           X == Note(A, m, e, q)
           Y == Note(B, n, d, p)
<1>1. /\ Shape(A)
      /\ \A k \in Node, f \in Fields : A[k][f] = IF k = n /\ f = d.field THEN i[k][f] \cup {p} ELSE i[k][f]
  BY NoteAt
<1>2. /\ Shape(B)
      /\ \A k \in Node, f \in Fields : B[k][f] = IF k = m /\ f = e.field THEN i[k][f] \cup {q} ELSE i[k][f]
  BY NoteAt
<1> HIDE DEF A, B
<1>3. /\ Shape(X)
      /\ \A k \in Node, f \in Fields : X[k][f] = IF k = m /\ f = e.field THEN A[k][f] \cup {q} ELSE A[k][f]
  BY <1>1, NoteAt
<1>4. /\ Shape(Y)
      /\ \A k \in Node, f \in Fields : Y[k][f] = IF k = n /\ f = d.field THEN B[k][f] \cup {p} ELSE B[k][f]
  BY <1>2, NoteAt
<1> HIDE DEF X, Y
<1>5. ASSUME NEW k \in Node, NEW f \in Fields PROVE X[k][f] = Y[k][f]
  <2>1. /\ X[k][f] = IF k = m /\ f = e.field THEN A[k][f] \cup {q} ELSE A[k][f]
        /\ A[k][f] = IF k = n /\ f = d.field THEN i[k][f] \cup {p} ELSE i[k][f]
    BY <1>1, <1>3
  <2>2. /\ Y[k][f] = IF k = n /\ f = d.field THEN B[k][f] \cup {p} ELSE B[k][f]
        /\ B[k][f] = IF k = m /\ f = e.field THEN i[k][f] \cup {q} ELSE i[k][f]
    BY <1>2, <1>4
  <2> QED BY <2>1, <2>2
<1>6. [k \in Node |-> [f \in Fields |-> X[k][f]]] = [k \in Node |-> [f \in Fields |-> Y[k][f]]]
  BY <1>5
<1>7. X = Y
  BY <1>3, <1>4, <1>6 DEF Shape
<1> QED BY <1>7 DEF A, B, X, Y

LEMMA BlankHolds == HeldAll(Blank, Blank)
<1>1. \A n \in Node, f \in Fields : Blank[n][f] = {}
  BY DEF Blank
<1>2. Shape(Blank)
  BY DEF Blank, Shape
<1> QED BY <1>1, <1>2, FS_EmptySet DEF HeldAll, HeldAt

\* Relating one relationship keeps the fields and the notes in step.
LEMMA RelateHolds ==
    ASSUME HeldInv, Relate
    PROVE  HeldInv'
<1>1. PICK e \in todo :
         \/ Fails("config") /\ UNCHANGED <<todo, ref, ids>>
         \/ \E s \in StartConfig(schema, LabelOf[e[2]], e[1], LabelOf[e[3]]) :
            \E t \in EndConfig(schema, LabelOf[e[2]], e[1], LabelOf[e[3]]) :
               /\ ids'  = Note(Note(ids, e[2], s, e[3]), e[3], t, e[2])
               /\ ref'  = Put(Put(ref, e[3], t, e[2]), e[2], s, e[3])
               /\ UNCHANGED <<pc, err>>
  BY DEF Relate
<1>2. UNCHANGED <<schema, load>> /\ pc = "relate" /\ load = Blank /\ schema \in Schemas
  BY DEF Relate, HeldInv
<1>3. HeldAll(ref', ids')
  <2>1. CASE UNCHANGED <<ref, ids>>
    BY <2>1 DEF HeldInv
  <2>2. ASSUME NEW s \in StartConfig(schema, LabelOf[e[2]], e[1], LabelOf[e[3]]),
               NEW t \in EndConfig(schema, LabelOf[e[2]], e[1], LabelOf[e[3]]),
               ids' = Note(Note(ids, e[2], s, e[3]), e[3], t, e[2]),
               ref' = Put(Put(ref, e[3], t, e[2]), e[2], s, e[3])
        PROVE  HeldAll(ref', ids')
    <3>1. s \in Elements(schema) /\ t \in Elements(schema)
      BY <2>2, ConfigsAreFields DEF StartConfig, EndConfig
    <3>2. HeldAll(ref, ids) /\ Shape(ids)
      BY DEF HeldInv, HeldAll
    <3>3. HeldAll(Put(ref, e[3], t, e[2]), Note(ids, e[3], t, e[2]))
      BY <1>2, <3>1, <3>2, PutHolds
    <3>4. HeldAll(Put(Put(ref, e[3], t, e[2]), e[2], s, e[3]), Note(Note(ids, e[3], t, e[2]), e[2], s, e[3]))
      BY <1>2, <3>1, <3>3, PutHolds
    <3>5. ids' = Note(Note(ids, e[3], t, e[2]), e[2], s, e[3])
      BY <2>2, <3>2, NotesCommute
    <3> QED BY <2>2, <3>4, <3>5
  <2> QED BY <1>1, <2>1, <2>2
<1>4. HeldAll(ref, ids)' /\ (schema \in Schemas)'
  BY <1>2, <1>3 DEF HeldAll, HeldAt, Shape, IsSingle
<1>5. \A n \in Node, f \in Fields : load'[n][f] = {}
  BY <1>2 DEF Blank
<1> QED BY <1>2, <1>4, <1>5 DEF HeldInv, Blank

\* A step that leaves the objects alone.
LEMMA SameObjects ==
    ASSUME HeldInv, UNCHANGED <<schema, ref, ids, load>>, pc' # "relate"
    PROVE  HeldInv'
BY DEF HeldInv, HeldAll, HeldAt, Shape, IsSingle

LEMMA SortHolds ==
    ASSUME HeldInv, Sort
    PROVE  HeldInv'
<1>1. UNCHANGED schema /\ (Fresh \/ (Kept /\ pc' = "failed"))
  BY DEF Sort, Fails
<1>2. CASE Kept /\ pc' = "failed"
  BY <1>1, <1>2, SameObjects DEF Kept
<1>3. CASE Fresh
  <2>1. UNCHANGED schema /\ ref' = Blank /\ ids' = Blank /\ load' = Blank
    BY <1>1, <1>3 DEF Fresh
  <2>2. HeldAll(Blank, Blank)'
    BY <2>1, BlankHolds DEF HeldAll, HeldAt, Shape, IsSingle, Blank
  <2>3. HeldAll(ref, ids)'
    BY <2>1, <2>2 DEF Blank
  <2> QED BY <2>1, <2>3 DEF HeldInv, Blank
<1> QED BY <1>1, <1>2, <1>3

LEMMA FinishHolds ==
    ASSUME HeldInv, Finish
    PROVE  HeldInv'
<1>1. UNCHANGED <<schema, ref, ids>> /\ pc' = "commit" /\ load = Blank
  BY DEF Finish, HeldInv
<1>2. load' = load \/ load' = [n \in Node |-> IF n \in Seen THEN ids[n] ELSE load[n]]
  BY DEF Finish
<1>3. \A n \in Node, f \in Fields : load[n][f] = {}
  BY <1>1 DEF Blank
<1>4. \A n \in Node, f \in Fields : load'[n][f] = {} \/ load'[n][f] = ids'[n][f]
  BY <1>1, <1>2, <1>3
<1> QED BY <1>1, <1>4 DEF HeldInv, HeldAll, HeldAt, Shape, IsSingle

LEMMA HeldStep ==
    ASSUME HeldInv, [Next]_vars
    PROVE  HeldInv'
<1>1. CASE UNCHANGED vars
  BY <1>1 DEF HeldInv, HeldAll, HeldAt, Shape, IsSingle, vars
<1>2. CASE RunQuery
  BY <1>2, SameObjects DEF RunQuery, Fails
<1>3. CASE Return
  BY <1>3, SameObjects DEF Return
<1>4. CASE Interrupted
  BY <1>4, SameObjects DEF Interrupted, Fails
<1> QED BY <1>1, <1>2, <1>3, <1>4, RelateHolds, SortHolds, FinishHolds DEF Next

\* The inductive invariant: fields, notes and LoadMaps keep step.
THEOREM LoadInvariant == Spec => []HeldInv
<1>1. Init => HeldInv
  <2>1. ASSUME Init PROVE HeldInv
    <3>1. schema \in Schemas /\ ref = Blank /\ ids = Blank /\ load = Blank /\ pc = "query"
      BY <2>1 DEF Init
    <3>2. \A n \in Node, f \in Fields : load[n][f] = {}
      BY <3>1 DEF Blank
    <3> QED BY <3>1, <3>2, BlankHolds DEF HeldInv
  <2> QED BY <2>1
<1> QED BY <1>1, HeldStep, PTL DEF Spec

\* Two different elements make a set of more than one.
LEMMA MoreThanOne ==
    ASSUME NEW S, IsFiniteSet(S), NEW x \in S, NEW y \in S, x # y
    PROVE  Cardinality(S) > 1
<1>1. Cardinality(S) \in Nat /\ Cardinality(S) # 0 /\ Cardinality(S) # 1
  BY FS_CardinalityType, FS_EmptySet, FS_Singleton
<1> QED BY <1>1

\* A Save right after a Load deletes nothing: a LoadMap lists only what its field holds,
\* a pointer field with several relationships excepted, however the rows were cut and
\* when the driver ran the transaction again.
THEOREM LoadKeepsMaps == Spec => []LoadMapIsHeld
<1>1. HeldInv => LoadMapIsHeld
  <2>1. ASSUME HeldInv, NEW n \in Node, NEW f \in Fields
        PROVE  \/ load[n][f] \subseteq ref[n][f]
               \/ IsSingle(f) /\ Cardinality(load[n][f]) > 1 /\ ref[n][f] \subseteq load[n][f]
    <3>1. HeldAt(ref, ids, n, f) /\ (load[n][f] = {} \/ load[n][f] = ids[n][f])
      BY <2>1 DEF HeldInv, HeldAll
    <3> QED BY <3>1, MoreThanOne DEF HeldAt
  <2> QED BY <2>1 DEF LoadMapIsHeld
<1> QED BY <1>1, LoadInvariant, PTL

-------------------------------------------------------------------------------
(* What the statements of the two strategies return.                             *)

Decl == [owner : Mapped, field : STRING, rel : STRING, target : Mapped,
         dir : {"unset", "outgoing", "incoming", "none", "both"}, many : BOOLEAN]
Rel  == STRING \X Node \X Node
Row  == [way : Seq(Node), steps : Seq(rels), nodes : SUBSET Node, rels : SUBSET rels]

\* The database holds relationships between its nodes, finitely many.
RelsTyped == schema \in Schemas /\ rels \subseteq Rel /\ IsFiniteSet(rels)

\* What a function makes of a finite set is finite.
LEMMA FiniteImage ==
    ASSUME NEW S, IsFiniteSet(S), NEW f, f = [x \in S |-> f[x]]
    PROVE  IsFiniteSet({f[x] : x \in S})
<1> DEFINE T == {f[x] : x \in S}
<1>1. f \in [S -> T]
  BY Zenon
<1>2. f \in Surjection(S, T)
  BY <1>1 DEF Surjection
<1> HIDE DEF T
<1>3. IsFiniteSet(T)
  BY <1>2, FS_Surjection
<1> QED BY <1>3 DEF T

LEMMA SchemaIs ==
    ASSUME NEW s \in Schemas
    PROVE  /\ Len(s) \in Nat /\ DOMAIN s = 1..Len(s)
           /\ \A i \in DOMAIN s : s[i] \in Decl
           /\ Elements(s) \subseteq Decl /\ IsFiniteSet(Elements(s))
<1>1. s \in Seq(Decl)
  BY SchemasAreMapped DEF Decl
<1>2. Len(s) \in Nat /\ DOMAIN s = 1..Len(s) /\ \A i \in DOMAIN s : s[i] \in Decl
  BY <1>1
<1>3. IsFiniteSet(DOMAIN s)
  BY <1>2, FS_Interval
<1>4. s = [i \in DOMAIN s |-> s[i]]
  BY <1>1
<1>5. IsFiniteSet({s[i] : i \in DOMAIN s})
  <2> DEFINE D == DOMAIN s
  <2>1. IsFiniteSet(D) /\ s = [i \in D |-> s[i]]
    BY <1>3, <1>4
  <2> HIDE DEF D
  <2>2. IsFiniteSet({s[i] : i \in D})
    BY <2>1, FiniteImage
  <2> QED BY <2>2 DEF D
<1> QED BY <1>2, <1>5 DEF Elements, At

LEMMA SavableTyped ==
    ASSUME NEW s \in Schemas
    PROVE  Savable(Elements(s)) \subseteq Rel /\ IsFiniteSet(Savable(Elements(s)))
<1> DEFINE D == Elements(s)
           X == {y \in D \X Node \X Node : LabelOf[y[2]] = y[1].owner /\ LabelOf[y[3]] = y[1].target}
           f == [x \in X |-> SavedAs(x[1], x[2], x[3])]
<1>1. D \subseteq Decl /\ IsFiniteSet(D)
  BY SchemaIs
<1>2. IsFiniteSet(X)
  <2>1. IsFiniteSet((D \X Node) \X Node)
    BY <1>1, NodesAreFinite, FS_Product
  <2> DEFINE Y == (D \X Node) \X Node
             Z == D \X Node \X Node
             g == [y \in Y |-> <<y[1][1], y[1][2], y[2]>>]
  <2>2. IsFiniteSet({g[y] : y \in Y})
    <3>1. g = [y \in Y |-> g[y]]
      OBVIOUS
    <3> HIDE DEF g, Y
    <3> QED BY <2>1, <3>1, FiniteImage DEF Y
  <2>3. Z \subseteq {g[y] : y \in Y}
    <3>1. ASSUME NEW z \in Z PROVE \E y \in Y : g[y] = z
      <4>1. <<<<z[1], z[2]>>, z[3]>> \in Y
        OBVIOUS
      <4>2. g[<<<<z[1], z[2]>>, z[3]>>] = z
        BY <4>1
      <4> QED BY <4>1, <4>2
    <3> QED BY <3>1
  <2>4. X \subseteq Z
    OBVIOUS
  <2> HIDE DEF X, Y, Z, g
  <2> QED BY <2>2, <2>3, <2>4, FS_Subset
<1>3. f = [x \in X |-> f[x]]
  OBVIOUS
<1>4. IsFiniteSet({f[x] : x \in X})
  <2> HIDE DEF X, f
  <2> QED BY <1>2, <1>3, FiniteImage
<1>5. Savable(D) = {f[x] : x \in X}
  BY DEF Savable
<1>6. \A d \in Decl, n \in Node, p \in Node : SavedAs(d, n, p) \in Rel
  BY DEF SavedAs, Rel, Decl
<1>7. Savable(D) \subseteq Rel
  BY <1>1, <1>6 DEF Savable
<1> QED BY <1>4, <1>5, <1>7

LEMMA FarIs ==
    ASSUME NEW e \in Rel, NEW n \in Ends(e)
    PROVE  /\ n \in Node /\ Far(e, n) \in Node /\ Ends(e) = {n, Far(e, n)}
           /\ e[1] \in STRING /\ e[2] \in Node /\ e[3] \in Node
BY DEF Rel, Ends, Far

\* The paths from n by their length.
Path == {r \in Row : r.way # <<>>}
End(p) == p.way[Len(p.way)]

LEMMA LongerIs ==
    ASSUME RelsTyped, NEW p \in Path, NEW q
    PROVE  q \in Longer(p) <=>
              \E e \in rels \ p.rels : /\ End(p) \in Ends(e)
                                       /\ q = [way |-> Append(p.way, Far(e, End(p))), steps |-> Append(p.steps, e),
                                               nodes |-> p.nodes \cup Ends(e), rels |-> p.rels \cup {e}]
BY DEF Longer, End

LEMMA LongerTyped ==
    ASSUME RelsTyped, NEW p \in Path, NEW q \in Longer(p)
    PROVE  q \in Path /\ q.way[1] = p.way[1]
<1>1. PICK e \in rels \ p.rels :
         /\ End(p) \in Ends(e)
         /\ q = [way |-> Append(p.way, Far(e, End(p))), steps |-> Append(p.steps, e), nodes |-> p.nodes \cup Ends(e), rels |-> p.rels \cup {e}]
  BY LongerIs
<1>2. Far(e, End(p)) \in Node /\ Ends(e) \subseteq Node
  BY <1>1, FarIs DEF RelsTyped
<1>3. /\ p.way \in Seq(Node) /\ p.way # <<>> /\ p.nodes \subseteq Node /\ p.rels \subseteq rels
  BY DEF Path, Row
<1> DEFINE w == p.way
           x == Far(e, End(p))
<1>4. Append(w, x) \in Seq(Node) /\ Append(w, x) # <<>> /\ Append(w, x)[1] = w[1]
  <2>1. w \in Seq(Node) /\ w # <<>> /\ x \in Node
    BY <1>2, <1>3
  <2> HIDE DEF w, x
  <2> QED BY <2>1
<1>5. Append(p.steps, e) \in Seq(rels)
  <2>1. p.steps \in Seq(rels) /\ e \in rels
    BY DEF Path, Row
  <2> QED BY <2>1
<1> QED BY <1>1, <1>2, <1>3, <1>4, <1>5 DEF Path, Row

Single(n) == [way |-> <<n>>, steps |-> <<>>, nodes |-> {n}, rels |-> {}]

LEMMA PathsFromIs ==
    ASSUME RelsTyped, NEW n \in Node
    PROVE  /\ PathsFrom(n)[0] = {Single(n)}
           /\ \A k \in Nat : /\ PathsFrom(n)[k + 1] = UNION {Longer(p) : p \in PathsFrom(n)[k]}
                             /\ PathsFrom(n)[k] \subseteq Path
<1> DEFINE V == SUBSET Path
           v == {Single(n)}
           next == [S \in V |-> UNION {Longer(p) : p \in S}]
           Step(g) == [k \in Nat |-> IF k = 0 THEN {[way |-> <<n>>, steps |-> <<>>, nodes |-> {n}, rels |-> {}]}
                                     ELSE UNION {Longer(p) : p \in g[k - 1]}]
           w == PathsFrom(n)
<1>1. v \in V
  BY DEF Path, Row, Single
<1>2. next \in [V -> V]
  BY LongerTyped
<1>3. PICK f \in [Nat -> V] : f[0] = v /\ \A k \in Nat : f[k + 1] = next[f[k]]
  <2> HIDE DEF next, V, v
  <2> QED BY <1>1, <1>2, LevelsOfNat
<1>4. ASSUME NEW k \in Nat, k # 0 PROVE f[k] = UNION {Longer(p) : p \in f[k - 1]}
  <2>1. k - 1 \in Nat /\ (k - 1) + 1 = k
    BY <1>4
  <2>2. f[k] = next[f[k - 1]] /\ f[k - 1] \in V
    <3> HIDE DEF next, V
    <3> QED BY <1>3, <2>1
  <2> QED BY <2>2
<1>5. f = Step(f)
  <2>1. f = [k \in Nat |-> f[k]] /\ f[0] = {[way |-> <<n>>, steps |-> <<>>, nodes |-> {n}, rels |-> {}]}
    BY <1>3 DEF Single
  <2> HIDE DEF next, V
  <2> QED BY <1>4, <2>1
<1>6. w = CHOOSE g : g = Step(g)
  BY Zenon DEF PathsFrom
<1>7. w = Step(w)
  <2> HIDE DEF Step, w
  <2> QED BY <1>5, <1>6
<1> HIDE DEF w
<1>8. w[0] = {Single(n)}
  BY <1>7 DEF Single
<1>9. ASSUME NEW k \in Nat PROVE w[k + 1] = UNION {Longer(p) : p \in w[k]}
  <2>1. k + 1 \in Nat /\ k + 1 # 0 /\ (k + 1) - 1 = k
    OBVIOUS
  <2>2. w[k + 1] = UNION {Longer(p) : p \in w[(k + 1) - 1]}
    BY <1>7, <2>1
  <2> QED BY <2>1, <2>2
<1> DEFINE S == {k \in Nat : w[k] \subseteq Path}
<1>10. 0 \in S
  BY <1>1, <1>8
<1>11. ASSUME NEW k \in Nat, k \in S PROVE k + 1 \in S
  BY <1>9, <1>11, LongerTyped
<1>12. Nat \subseteq S
  <2> HIDE DEF S
  <2> QED BY <1>10, <1>11, Induction
<1> QED BY <1>8, <1>9, <1>12 DEF w

\* A path from n begins at n; there are finitely many of each length.
LEMMA PathsStart ==
    ASSUME RelsTyped, NEW n \in Node
    PROVE  \A k \in Nat : IsFiniteSet(PathsFrom(n)[k]) /\ \A p \in PathsFrom(n)[k] : p.way[1] = n
<1> DEFINE w == PathsFrom(n)
           S == {k \in Nat : IsFiniteSet(w[k]) /\ \A p \in w[k] : p.way[1] = n}
<1>1. w[0] = {Single(n)} /\ \A k \in Nat : w[k + 1] = UNION {Longer(p) : p \in w[k]} /\ w[k] \subseteq Path
  BY PathsFromIs
<1> HIDE DEF w
<1>2. 0 \in S
  <2>1. Single(n).way[1] = n
    BY DEF Single
  <2> QED BY <1>1, <2>1, FS_Singleton
<1>3. ASSUME NEW p \in Path PROVE IsFiniteSet(Longer(p))
  <2> DEFINE E == {x \in rels \ p.rels : End(p) \in Ends(x)}
             f == [e \in E |-> [way |-> Append(p.way, Far(e, End(p))), steps |-> Append(p.steps, e),
                                nodes |-> p.nodes \cup Ends(e), rels |-> p.rels \cup {e}]]
  <2>1. IsFiniteSet(E)
    BY FS_Subset DEF RelsTyped
  <2>2. f = [e \in E |-> f[e]]
    OBVIOUS
  <2>3. IsFiniteSet({f[e] : e \in E})
    <3> HIDE DEF E, f
    <3> QED BY <2>1, <2>2, FiniteImage
  <2>4. Longer(p) = {f[e] : e \in E}
    BY DEF Longer, End
  <2> QED BY <2>3, <2>4
<1>4. ASSUME NEW k \in Nat, k \in S PROVE k + 1 \in S
  <2> DEFINE f == [p \in w[k] |-> Longer(p)]
  <2>0. w[k] \subseteq Path /\ w[k + 1] = UNION {Longer(p) : p \in w[k]}
    BY <1>1
  <2>1. w[k] \subseteq Path /\ w[k + 1] = UNION {f[p] : p \in w[k]} /\ f = [p \in w[k] |-> f[p]]
    BY <2>0
  <2>2. \A T \in {f[p] : p \in w[k]} : IsFiniteSet(T)
    BY <1>3, <2>1
  <2>3. IsFiniteSet(w[k])
    BY <1>4
  <2>4. IsFiniteSet({f[p] : p \in w[k]})
    <3> HIDE DEF f
    <3> QED BY <2>1, <2>3, FiniteImage
  <2>5. IsFiniteSet(w[k + 1])
    <3> HIDE DEF f
    <3> QED BY <2>1, <2>2, <2>4, FS_UNION
  <2>6. ASSUME NEW q \in w[k + 1] PROVE q.way[1] = n
    <3>1. PICK p \in w[k] : q \in Longer(p)
      BY <2>1
    <3> QED BY <1>4, <2>1, <3>1, LongerTyped
  <2> QED BY <2>5, <2>6
<1>5. Nat \subseteq S
  <2> HIDE DEF S
  <2> QED BY <1>2, <1>4, Induction
<1> QED BY <1>5 DEF w

LEMMA PathsAre ==
    ASSUME RelsTyped, NEW n \in Node, NEW d \in Nat
    PROVE  /\ Paths(n, d) \subseteq Path /\ IsFiniteSet(Paths(n, d))
           /\ Single(n) \in Paths(n, d)
           /\ \A p \in Paths(n, d) : p.way[1] = n
<1> DEFINE w == PathsFrom(n)
           D == 0..d
           f == [k \in D |-> w[k]]
<1>1. /\ w[0] = {Single(n)}
      /\ \A k \in Nat : w[k] \subseteq Path /\ IsFiniteSet(w[k]) /\ \A p \in w[k] : p.way[1] = n
  BY PathsFromIs, PathsStart
<1> HIDE DEF w
<1>2. Paths(n, d) = UNION {f[k] : k \in D} /\ 0 \in D /\ f = [k \in D |-> f[k]]
  BY DEF Paths, w
<1>3. IsFiniteSet(D) /\ \A T \in {f[k] : k \in D} : IsFiniteSet(T)
  BY <1>1, FS_Interval
<1>4. IsFiniteSet({f[k] : k \in D})
  <2> HIDE DEF f, D
  <2> QED BY <1>2, <1>3, FiniteImage
<1>5. IsFiniteSet(Paths(n, d))
  <2> HIDE DEF f, D
  <2> QED BY <1>2, <1>3, <1>4, FS_UNION
<1> QED BY <1>1, <1>2, <1>5

LEMMA PathRowsAre ==
    ASSUME RelsTyped, NEW M \in SUBSET Node, NEW d \in Nat
    PROVE  /\ PathRows(M, d) \subseteq Path /\ IsFiniteSet(PathRows(M, d))
           /\ \A r \in PathRows(M, d) : r.way[1] \in M
           /\ \A n \in M : \E r \in PathRows(M, d) : n \in r.nodes
<1> DEFINE f == [n \in M |-> Paths(n, d)]
<1>1. PathRows(M, d) = UNION {f[n] : n \in M} /\ f = [n \in M |-> f[n]]
  BY DEF PathRows
<1>2. IsFiniteSet(M) /\ \A T \in {f[n] : n \in M} : IsFiniteSet(T)
  BY PathsAre, NodesAreFinite, FS_Subset
<1>3. IsFiniteSet({f[n] : n \in M})
  <2> HIDE DEF f
  <2> QED BY <1>1, <1>2, FiniteImage
<1>4. IsFiniteSet(PathRows(M, d))
  <2> HIDE DEF f
  <2> QED BY <1>1, <1>2, <1>3, FS_UNION
<1>5. \A n \in M : Paths(n, d) \subseteq Path /\ Single(n) \in Paths(n, d) /\ \A p \in Paths(n, d) : p.way[1] = n
  BY PathsAre
<1>6. \A n \in M : n \in Single(n).nodes
  BY DEF Single
<1> QED BY <1>1, <1>4, <1>5, <1>6

\* The fields of a label lead along relationships in the database.
LEMMA AlongIs ==
    ASSUME RelsTyped, NEW n, NEW d, NEW e \in Along(n, d)
    PROVE  e \in rels /\ e \in Rel /\ n \in Ends(e)
BY DEF Along, RelsTyped

LEMMA DeeperIs ==
    ASSUME RelsTyped, NEW X \in [Pattern -> SUBSET rels], NEW c \in Pattern, NEW e
    PROVE  e \in Deeper(X)[c] <=>
              \E d \in Elements(schema) : /\ d.owner = c[2]
                                         /\ \E a \in Along(c[1], d) :
                                               e = a \/ e \in X[<<Far(a, c[1]), c[3], d.target>>]
BY DEF Deeper

LEMMA NextPattern ==
    ASSUME RelsTyped, NEW c \in Pattern, NEW d \in Elements(schema), NEW e \in Along(c[1], d)
    PROVE  <<Far(e, c[1]), c[3], d.target>> \in Pattern
<1>1. Far(e, c[1]) \in Node
  BY AlongIs, FarIs
<1>2. d.target \in Mapped
  BY SchemaIs DEF RelsTyped, Decl
<1> QED BY <1>1, <1>2 DEF Pattern

LEMMA DeeperTyped ==
    ASSUME RelsTyped, NEW X \in [Pattern -> SUBSET rels]
    PROVE  Deeper(X) \in [Pattern -> SUBSET rels]
<1>1. ASSUME NEW c \in Pattern, NEW e \in Deeper(X)[c] PROVE e \in rels
  <2>1. PICK d \in Elements(schema) : \E a \in Along(c[1], d) : e = a \/ e \in X[<<Far(a, c[1]), c[3], d.target>>]
    BY <1>1, DeeperIs
  <2>2. PICK a \in Along(c[1], d) : e = a \/ e \in X[<<Far(a, c[1]), c[3], d.target>>]
    BY <2>1
  <2> QED BY <2>2, NextPattern, AlongIs
<1>2. Deeper(X) = [c \in Pattern |-> Deeper(X)[c]]
  BY DEF Deeper
<1> QED BY <1>1, <1>2

LEMMA ExpansionIs ==
    ASSUME RelsTyped
    PROVE  /\ Expansion[0] = [c \in Pattern |-> {}]
           /\ \A k \in Nat : /\ Expansion[k + 1] = Deeper(Expansion[k])
                             /\ Expansion[k] \in [Pattern -> SUBSET rels]
<1> DEFINE V == [Pattern -> SUBSET rels]
           v == [c \in Pattern |-> {}]
           next == [X \in V |-> Deeper(X)]
           Step(g) == [k \in Nat |-> IF k = 0 THEN [c \in Pattern |-> {}] ELSE Deeper(g[k - 1])]
           w == Expansion
<1>1. v \in V
  OBVIOUS
<1>2. next \in [V -> V]
  BY DeeperTyped
<1>3. PICK f \in [Nat -> V] : f[0] = v /\ \A k \in Nat : f[k + 1] = next[f[k]]
  <2> HIDE DEF next, V, v
  <2> QED BY <1>1, <1>2, LevelsOfNat
<1>4. ASSUME NEW k \in Nat, k # 0 PROVE f[k] = Deeper(f[k - 1])
  <2>1. k - 1 \in Nat /\ (k - 1) + 1 = k
    BY <1>4
  <2>2. f[k] = next[f[k - 1]] /\ f[k - 1] \in V
    <3> HIDE DEF next, V
    <3> QED BY <1>3, <2>1
  <2> HIDE DEF V
  <2> QED BY <2>2
<1>5. f = Step(f)
  <2>1. f = [k \in Nat |-> f[k]] /\ f[0] = v
    BY <1>3
  <2> HIDE DEF next, V
  <2> QED BY <1>4, <2>1
<1>6. w = CHOOSE g : g = Step(g)
  BY Zenon DEF Expansion
<1>7. w = Step(w)
  <2> HIDE DEF Step, w
  <2> QED BY <1>5, <1>6
<1> HIDE DEF w
<1>8. w[0] = v
  BY <1>7
<1>9. ASSUME NEW k \in Nat PROVE w[k + 1] = Deeper(w[k])
  <2>1. k + 1 \in Nat /\ k + 1 # 0 /\ (k + 1) - 1 = k
    OBVIOUS
  <2>2. w[k + 1] = Deeper(w[(k + 1) - 1])
    BY <1>7, <2>1
  <2> QED BY <2>1, <2>2
<1> DEFINE S == {k \in Nat : w[k] \in V}
<1>10. 0 \in S
  BY <1>1, <1>8
<1>11. ASSUME NEW k \in Nat, k \in S PROVE k + 1 \in S
  BY <1>9, <1>11, DeeperTyped
<1>12. Nat \subseteq S
  <2> HIDE DEF S
  <2> QED BY <1>10, <1>11, Induction
<1> QED BY <1>8, <1>9, <1>12 DEF w

LEMMA ExpandTyped ==
    ASSUME RelsTyped, NEW n \in Node, NEW label \in Mapped, NEW d \in Nat
    PROVE  Expand(n, label, d) \subseteq rels
<1>1. <<n, label, label>> \in Pattern
  BY DEF Pattern
<1> QED BY <1>1, ExpansionIs DEF Expand

LEMMA SchemaRowsAre ==
    ASSUME RelsTyped, NEW label \in Mapped, NEW M \in SUBSET Node, NEW d \in Nat
    PROVE  /\ SchemaRows(label, M, d) \subseteq Path /\ IsFiniteSet(SchemaRows(label, M, d))
           /\ \A r \in SchemaRows(label, M, d) : r.way[1] \in M
           /\ \A n \in M : LabelOf[n] = label => \E r \in SchemaRows(label, M, d) : n \in r.nodes
<1> DEFINE N == {n \in M : LabelOf[n] = label}
           Joined(R) == UNION {Ends(e) : e \in R}
           f == [n \in N |-> [way |-> <<n>>, steps |-> <<>>, nodes |-> {n} \cup Joined(Expand(n, label, d)),
                              rels |-> Expand(n, label, d)]]
<1>1. SchemaRows(label, M, d) = {f[n] : n \in N} /\ f = [n \in N |-> f[n]]
  BY DEF SchemaRows
<1>2. IsFiniteSet(N)
  BY NodesAreFinite, FS_Subset
<1>3. IsFiniteSet({f[n] : n \in N})
  <2> HIDE DEF f, N
  <2> QED BY <1>1, <1>2, FiniteImage
<1>4. ASSUME NEW n \in N PROVE f[n] \in Path /\ f[n].way[1] = n /\ n \in f[n].nodes
  <2> DEFINE R == Expand(n, label, d)
  <2>1. R \subseteq rels /\ R \subseteq Rel
    BY ExpandTyped DEF RelsTyped
  <2> HIDE DEF R
  <2>2. Joined(R) \subseteq Node
    BY <2>1 DEF Rel, Ends
  <2> HIDE DEF Joined
  <2>3. f[n] = [way |-> <<n>>, steps |-> <<>>, nodes |-> {n} \cup Joined(R), rels |-> R]
    BY DEF R
  <2> HIDE DEF f
  <2>4. <<n>> \in Seq(Node) /\ <<n>> # <<>> /\ <<n>>[1] = n
    OBVIOUS
  <2> DEFINE M2 == {n} \cup Joined(R)
  <2>5. M2 \subseteq Node
    BY <2>2
  <2>6. [way |-> <<n>>, steps |-> <<>>, nodes |-> M2, rels |-> R] \in Row
    <3> HIDE DEF M2
    <3> QED BY <2>1, <2>4, <2>5 DEF Row
  <2> QED BY <2>3, <2>4, <2>6 DEF Path
<1> HIDE DEF f
<1> QED BY <1>1, <1>3, <1>4

Asked(q) == {n \in q.match : LabelOf[n] = q.label}
IsUnpaged(q) == q.page.number = 0 /\ q.page.limit = 0

\* Rows S for the call q: those of a load begin at a node that was matched; if they are
\* whole, every node that was asked for is in one.
FitsCall(q, S) == q.strategy # "query" => \A r \in S : r.way # <<>> /\ r.way[1] \in q.match
IsWhole(q, S)  == q.strategy # "query" /\ IsUnpaged(q) => \A n \in Asked(q) : \E r \in S : n \in r.nodes

\* An unpaged load asks for all rows.
LEMMA PagesAre ==
    ASSUME NEW page, NEW R, NEW S \in Pages(page, R)
    PROVE  S \subseteq R /\ (IsFiniteSet(R) /\ page.number = 0 /\ page.limit = 0 => S = R)
<1>1. S \subseteq R
  BY DEF Pages
<1>2. ASSUME IsFiniteSet(R), page.number = 0, page.limit = 0 PROVE S = R
  <2>1. Cardinality(R) \in Nat
    BY <1>2, FS_CardinalityType
  <2>2. Cardinality(S) = Cardinality(R)
    BY <1>2, <2>1 DEF Pages
  <2> QED BY <1>1, <1>2, <2>2, FS_Subset
<1> QED BY <1>1, <1>2

LEMMA RequestIs ==
    ASSUME NEW q \in Requests
    PROVE  /\ q.mode \in {"one", "all"} /\ q.strategy \in {"path", "schema", "query"}
           /\ q.label \in Mapped /\ q.match \in SUBSET Node /\ q.depth \in Nat /\ q.tx \in BOOLEAN
           /\ q.page.number \in Int /\ q.page.limit \in Int
BY RequestsAreTyped

LEMMA ResultsAre ==
    ASSUME RelsTyped, req \in Requests, NEW R \in Results
    PROVE  R \subseteq Row /\ FitsCall(req, R) /\ IsWhole(req, R)
<1>1. /\ req.strategy \in {"path", "schema", "query"} /\ req.label \in Mapped
      /\ req.match \in SUBSET Node /\ req.depth \in Nat
  BY RequestIs
<1>2. CASE req.strategy = "path"
  <2> DEFINE A == PathRows(req.match, req.depth)
  <2>1. R \in Pages(req.page, A)
    BY <1>2 DEF Results
  <2>2. /\ A \subseteq Path /\ IsFiniteSet(A) /\ (\A r \in A : r.way[1] \in req.match)
        /\ \A n \in req.match : \E r \in A : n \in r.nodes
    BY <1>1, PathRowsAre
  <2> HIDE DEF A
  <2>3. R \subseteq A /\ (IsUnpaged(req) => R = A)
    BY <2>1, <2>2, PagesAre DEF IsUnpaged
  <2> QED BY <2>2, <2>3 DEF Path, FitsCall, IsWhole, Asked
<1>3. CASE req.strategy = "schema"
  <2> DEFINE A == SchemaRows(req.label, req.match, req.depth)
  <2>1. R \in Pages(req.page, A)
    BY <1>3 DEF Results
  <2>2. /\ A \subseteq Path /\ IsFiniteSet(A) /\ (\A r \in A : r.way[1] \in req.match)
        /\ \A n \in req.match : LabelOf[n] = req.label => \E r \in A : n \in r.nodes
    BY <1>1, SchemaRowsAre
  <2> HIDE DEF A
  <2>3. R \subseteq A /\ (IsUnpaged(req) => R = A)
    BY <2>1, <2>2, PagesAre DEF IsUnpaged
  <2> QED BY <2>2, <2>3 DEF Path, FitsCall, IsWhole, Asked
<1>4. CASE req.strategy = "query"
  <2>1. R \in OwnRows
    BY <1>4 DEF Results
  <2>2. PICK N \in SUBSET Node, S \in SUBSET rels : R = {[way |-> <<>>, steps |-> <<>>, nodes |-> N, rels |-> S]}
    <3> DEFINE One(N, S) == {[way |-> <<>>, steps |-> <<>>, nodes |-> N, rels |-> S]}
    <3>1. OwnRows = {One(N, S) : N \in SUBSET Node, S \in SUBSET rels}
      BY DEF OwnRows
    <3>2. PICK N \in SUBSET Node, S \in SUBSET rels : R = One(N, S)
      <4> HIDE DEF One
      <4> QED BY <2>1, <3>1
    <3> QED BY <3>2
  <2>3. <<>> \in Seq(Node)
    OBVIOUS
  <2> QED BY <1>4, <2>2, <2>3 DEF Row, FitsCall, IsWhole
<1> QED BY <1>1, <1>2, <1>3, <1>4

-------------------------------------------------------------------------------
(* What is read is of the database, and is what was asked for.                   *)

\* The nodes returned: all of the label that were read, or the first of a row.
Answered == /\ req.mode = "all" => mine = Primary
            /\ req.mode = "one" => \E r \in rows : \E n \in FirstOfRow(r) : mine = {n}

\* The rows are of the database and of the call; what was read is related or still to do.
ReadInv ==
    /\ RelsTyped /\ req \in Requests
    /\ rows \subseteq Row
    /\ FitsCall(req, rows)
    /\ pc # "query" /\ pc # "failed" /\ ~ broken => IsWhole(req, rows)
    /\ pc \in {"query", "sort", "relate", "commit", "done", "failed"}
    /\ broken \in BOOLEAN /\ again \in BOOLEAN
    /\ err \in Errors /\ (err # "none" <=> pc = "failed")
    /\ mine \subseteq Node
    /\ todo \subseteq Related /\ (todo # {} => pc \in {"relate", "failed"})
    /\ pc = "done" => req.tx \/ ~ broken
    /\ pc \in {"relate", "commit", "done"} => Answered

LEMMA SeenIsTyped ==
    ASSUME rows \subseteq Row
    PROVE  /\ Seen \subseteq Node /\ Related \subseteq rels /\ Primary \subseteq Node
           /\ \A r \in rows : FirstOfRow(r) \subseteq Node
<1>1. Seen \subseteq Node /\ Related \subseteq rels
  BY DEF Seen, Related, Row
<1>2. Primary \subseteq Node
  BY <1>1 DEF Primary
<1> QED BY <1>1, <1>2 DEF FirstOfRow, Row

LEMMA ReadInit == Init => ReadInv
<1> SUFFICES ASSUME Init PROVE ReadInv
  OBVIOUS
<1>1. schema \in Schemas /\ rels \subseteq Savable(Elements(schema)) \cup Foreign
  BY DEF Init
<1>2. RelsTyped
  <2>1. Savable(Elements(schema)) \subseteq Rel /\ IsFiniteSet(Savable(Elements(schema)))
    BY <1>1, SavableTyped
  <2>2. IsFiniteSet(Savable(Elements(schema)) \cup Foreign)
    BY <2>1, NodesAreFinite, FS_Union
  <2> QED BY <1>1, <2>1, <2>2, ForeignJoinsNodes, FS_Subset DEF RelsTyped, Rel
<1> QED BY <1>2 DEF Init, ReadInv, FitsCall, Errors

\* A step that reads nothing new.
LEMMA SameRows ==
    ASSUME ReadInv, UNCHANGED <<schema, rels, req, rows, broken, mine>>, again' \in BOOLEAN,
           pc' \in {"query", "sort", "relate", "commit", "done", "failed"},
           err' \in Errors, err' # "none" <=> pc' = "failed",
           todo' \subseteq todo, todo' # {} => pc' \in {"relate", "failed"},
           pc' = "done" => req.tx \/ ~ broken,
           pc' \in {"sort", "relate", "commit", "done"} => pc # "query" /\ pc # "failed",
           pc' \in {"relate", "commit", "done"} => pc \in {"relate", "commit", "done"}
    PROVE  ReadInv'
<1>1. RelsTyped' /\ (req \in Requests)' /\ (rows \subseteq Row)' /\ FitsCall(req, rows)'
  BY DEF ReadInv, RelsTyped, Row, FitsCall
<1>2. (pc # "query" /\ pc # "failed" /\ ~ broken => IsWhole(req, rows))'
  BY DEF ReadInv, IsWhole, IsUnpaged, Asked
<1>3. (todo \subseteq Related)'
  BY DEF ReadInv, Related
<1>4. (pc \in {"relate", "commit", "done"} => Answered)'
  BY DEF ReadInv, Answered, Primary, Seen, FirstOfRow
<1> QED BY <1>1, <1>2, <1>3, <1>4 DEF ReadInv

LEMMA RunQueryReads ==
    ASSUME ReadInv, RunQuery
    PROVE  ReadInv'
<1>1. /\ pc = "query" /\ UNCHANGED <<schema, rels, req, again, todo, mine>>
      /\ RelsTyped /\ req \in Requests /\ todo = {}
  BY DEF RunQuery, ReadInv
<1>2. CASE Fails("page") /\ UNCHANGED <<rows, broken>>
  BY <1>1, <1>2, SameRows DEF ReadInv, Fails, Errors
<1>3. CASE /\ pc' = "sort" /\ UNCHANGED err
           /\ \/ rows' \in Results /\ broken' = FALSE
              \/ \E R \in Results : rows' \in CutShort(R) /\ broken' = TRUE
  <2>1. PICK R \in Results : \/ rows' = R /\ broken' = FALSE
                             \/ rows' \subseteq R /\ broken' = TRUE
    <3>1. CASE rows' \in Results /\ broken' = FALSE
      BY <3>1
    <3>2. CASE \E R \in Results : rows' \in CutShort(R) /\ broken' = TRUE
      <4>1. PICK R \in Results : rows' \in CutShort(R) /\ broken' = TRUE
        BY <3>2
      <4>2. rows' \subseteq R
        BY <4>1 DEF CutShort
      <4> QED BY <4>1, <4>2
    <3> QED BY <1>3, <3>1, <3>2
  <2>2. R \subseteq Row /\ FitsCall(req, R) /\ IsWhole(req, R)
    BY <1>1, ResultsAre
  <2>3. rows' \subseteq Row /\ FitsCall(req, rows') /\ (~ broken' => IsWhole(req, rows')) /\ broken' \in BOOLEAN
    BY <2>1, <2>2 DEF FitsCall
  <2>4. (rows \subseteq Row)' /\ RelsTyped' /\ (todo \subseteq Related)'
    BY <1>1, <2>3 DEF Row, RelsTyped
  <2>5. FitsCall(req, rows)' /\ (~ broken => IsWhole(req, rows))'
    BY <1>1, <2>3 DEF FitsCall, IsWhole, IsUnpaged, Asked
  <2> QED BY <1>1, <1>3, <2>3, <2>4, <2>5 DEF ReadInv
<1> QED BY <1>2, <1>3 DEF RunQuery

LEMMA SortReads ==
    ASSUME ReadInv, Sort
    PROVE  ReadInv'
<1>1. pc = "sort" /\ UNCHANGED <<schema, rels, req, rows, broken, again>> /\ todo = {} /\ rows \subseteq Row
  BY DEF Sort, ReadInv
<1>2. CASE pc' = "failed" /\ err' \in Errors \ {"none"} /\ UNCHANGED <<todo, mine>>
  BY <1>1, <1>2, SameRows DEF ReadInv
<1>3. CASE /\ IF req.mode = "one"
              THEN \E r \in rows : \E n \in FirstOfRow(r) : mine' = {n}
              ELSE mine' = Primary
           /\ todo' = Related
           /\ pc' = "relate" /\ UNCHANGED err
  <2>1. mine' \subseteq Node
    BY <1>1, <1>3, SeenIsTyped
  <2>2. Answered'
    <3>1. Primary' = Primary
      BY <1>1 DEF Primary, Seen
    <3>2. \A r : FirstOfRow(r)' = FirstOfRow(r)
      BY <1>1, <3>1 DEF FirstOfRow
    <3>3. CASE req.mode = "one"
      <4>1. PICK r \in rows : \E n \in FirstOfRow(r) : mine' = {n}
        BY <1>3, <3>3
      <4> QED BY <1>1, <3>2, <3>3, <4>1 DEF Answered
    <3>4. CASE req.mode # "one"
      BY <1>1, <1>3, <3>1, <3>4 DEF Answered
    <3> QED BY <3>3, <3>4
  <2>3. /\ RelsTyped' /\ (req \in Requests)' /\ (rows \subseteq Row)' /\ FitsCall(req, rows)'
        /\ (todo \subseteq Related)'
    BY <1>1, <1>3 DEF ReadInv, RelsTyped, Row, FitsCall, Related
  <2>4. (~ broken => IsWhole(req, rows))'
    BY <1>1 DEF ReadInv, IsWhole, IsUnpaged, Asked
  <2> QED BY <1>1, <1>3, <2>1, <2>2, <2>3, <2>4 DEF ReadInv
<1> QED BY <1>2, <1>3 DEF Sort, Fails, Errors

LEMMA ReadStep ==
    ASSUME ReadInv, [Next]_vars
    PROVE  ReadInv'
<1>1. CASE UNCHANGED vars
  BY <1>1, SameRows DEF ReadInv, vars
<1>2. CASE Relate
  <2>1. PICK e \in todo : \/ Fails("config") /\ UNCHANGED todo
                          \/ todo' = todo \ {e} /\ UNCHANGED <<pc, err>>
    <3>1. PICK e \in todo :
             \/ Fails("config") /\ UNCHANGED <<todo, ref, ids>>
             \/ \E s \in StartConfig(schema, LabelOf[e[2]], e[1], LabelOf[e[3]]) :
                \E t \in EndConfig(schema, LabelOf[e[2]], e[1], LabelOf[e[3]]) :
                   todo' = todo \ {e} /\ UNCHANGED <<pc, err>>
      BY <1>2 DEF Relate
    <3> QED BY <3>1
  <2>2. CASE Fails("config") /\ UNCHANGED todo
    BY <1>2, <2>2, SameRows DEF ReadInv, Relate, Fails, Errors
  <2>3. CASE todo' = todo \ {e} /\ UNCHANGED <<pc, err>>
    BY <1>2, <2>3, SameRows DEF ReadInv, Relate
  <2> QED BY <2>1, <2>2, <2>3
<1>3. CASE Finish
  BY <1>3, SameRows DEF ReadInv, Finish
<1>4. CASE Return
  BY <1>4, SameRows DEF ReadInv, Return
<1>5. CASE Interrupted
  BY <1>5, SameRows DEF ReadInv, Interrupted, Exposed, Fails, Errors
<1> QED BY <1>1, <1>2, <1>3, <1>4, <1>5, RunQueryReads, SortReads DEF Next

\* The inductive invariant of what is read.
THEOREM ReadInvariant == Spec => []ReadInv
BY ReadInit, ReadStep, PTL DEF Spec

\* Nothing that was asked for is missing: an unpaged load that succeeds returns every node
\* of the label that meets the filter, although decode does not notice a broken stream.
THEOREM LoadsReturnMatches == Spec => []MatchesReturned
<1>1. ReadInv => MatchesReturned
  <2> SUFFICES ASSUME ReadInv, pc = "done", req.strategy # "query", Unpaged, req.tx => ~ broken
               PROVE  LET asked == {n \in req.match : LabelOf[n] = req.label}
                      IN  IF req.mode = "all" THEN asked \subseteq mine ELSE asked # {} => mine = asked
    BY DEF MatchesReturned
  <2> DEFINE asked == Asked(req)
  <2>1. ~ broken /\ req \in Requests /\ rows \subseteq Row /\ FitsCall(req, rows) /\ Answered
    BY DEF ReadInv
  <2>2. \A n \in asked : \E r \in rows : n \in r.nodes
    BY <2>1 DEF ReadInv, IsWhole, IsUnpaged, Unpaged
  <2>3. asked \subseteq Primary
    BY <2>2 DEF Asked, Primary, Seen
  <2>4. req.mode \in {"one", "all"}
    BY <2>1, RequestIs
  <2>5. CASE req.mode = "all"
    BY <2>1, <2>3, <2>5 DEF Answered, Asked
  <2>6. ASSUME req.mode = "one", NEW n \in asked PROVE mine = asked
    <3>1. \A m \in req.match : m = n
      BY <2>1, <2>6, OneIsByKey DEF Asked
    <3>2. asked = {n} /\ n \in Primary
      BY <2>3, <3>1 DEF Asked
    <3>3. PICK r \in rows : \E x \in FirstOfRow(r) : mine = {x}
      BY <2>1, <2>6 DEF Answered
    <3>4. PICK x \in FirstOfRow(r) : mine = {x}
      BY <3>3
    <3>5. r.way \in Seq(Node) /\ r.way # <<>> /\ r.way[1] = n
      BY <2>1, <3>1 DEF FitsCall, Row
    <3> DEFINE w == r.way
               on == {i \in DOMAIN w : w[i] \in Primary}
    <3>6. 1 \in DOMAIN w /\ \A i \in DOMAIN w : 1 <= i
      <4> w \in Seq(Node) /\ w # <<>>
        BY <3>5
      <4> HIDE DEF w
      <4> QED OBVIOUS
    <3>7. 1 \in on /\ \A j \in on : (\A k \in on : j <= k) => j = 1
      BY <3>2, <3>5, <3>6
    <3>8. FirstOfRow(r) = {w[i] : i \in {j \in on : \A k \in on : j <= k}}
      BY <3>7 DEF FirstOfRow
    <3>9. x = w[1]
      BY <3>4, <3>7, <3>8
    <3> QED BY <3>2, <3>4, <3>5, <3>9
  <2> QED BY <2>4, <2>5, <2>6 DEF Asked
<1> QED BY <1>1, ReadInvariant, PTL

\* Objects whose fields hold nodes.
LEMMA NotedTyped ==
    ASSUME NEW r \in Objects, NEW n, NEW d, NEW p \in Node
    PROVE  Note(r, n, d, p) \in Objects /\ Put(r, n, d, p) \in Objects
<1>1. Shape(r)
  BY DEF Shape, Objects
<1>2. Note(r, n, d, p) \in Objects
  BY <1>1, NoteIs DEF Objects
<1>3. Put(r, n, d, p) \in Objects
  BY <1>1, PutIs DEF Objects, Stored
<1> QED BY <1>2, <1>3

ObjectsInv == ref \in Objects /\ ids \in Objects /\ load \in Objects

\* Every variable keeps its type: what is related are relationships of the database, the
\* fields, notes and LoadMaps of all objects hold nodes of it, an error is the end.
THEOREM LoadTypes == Spec => []TypeOK
<1>1. Blank \in Objects
  BY DEF Blank, Objects
<1>2. Init => ObjectsInv
  BY <1>1 DEF Init, ObjectsInv
<1>3. ReadInv /\ ObjectsInv /\ [Next]_vars => ObjectsInv'
  <2> SUFFICES ASSUME ReadInv, ObjectsInv, [Next]_vars PROVE ObjectsInv'
    OBVIOUS
  <2> USE DEF ObjectsInv
  <2>0. Objects' = Objects
    BY DEF Objects
  <2>1. CASE UNCHANGED <<ref, ids, load>>
    BY <2>0, <2>1
  <2>2. CASE Sort
    <3>1. UNCHANGED <<ref, ids, load>> \/ (ref' = Blank /\ ids' = Blank /\ load' = Blank)
      BY <2>2 DEF Sort, Kept, Fresh
    <3>2. CASE UNCHANGED <<ref, ids, load>>
      BY <2>0, <3>2
    <3>3. CASE ref' = Blank /\ ids' = Blank /\ load' = Blank
      BY <1>1, <2>0, <3>3 DEF Blank
    <3> QED BY <3>1, <3>2, <3>3
  <2>3. CASE Relate
    <3>1. UNCHANGED load
      BY <2>3 DEF Relate
    <3>2. PICK e \in todo : \/ UNCHANGED <<ref, ids>>
                            \/ \E s, t : /\ ids' = Note(Note(ids, e[2], s, e[3]), e[3], t, e[2])
                                         /\ ref' = Put(Put(ref, e[3], t, e[2]), e[2], s, e[3])
      BY <2>3 DEF Relate
    <3>3. e[2] \in Node /\ e[3] \in Node
      BY SeenIsTyped DEF ReadInv, RelsTyped, Rel
    <3> QED BY <2>0, <3>1, <3>2, <3>3, NotedTyped
  <2>4. CASE Finish
    <3>1. UNCHANGED <<ref, ids>> /\ (load' = load \/ load' = [n \in Node |-> IF n \in Seen THEN ids[n] ELSE load[n]])
      BY <2>4 DEF Finish
    <3> QED BY <2>0, <3>1 DEF Objects
  <2> QED BY <2>1, <2>2, <2>3, <2>4 DEF Next, RunQuery, Return, Interrupted, vars
<1>4. ReadInv /\ ObjectsInv => TypeOK
  BY SeenIsTyped DEF ReadInv, ObjectsInv, TypeOK, RelsTyped
<1> QED BY <1>2, <1>3, <1>4, ReadInvariant, PTL DEF Spec

-------------------------------------------------------------------------------
(* The two strategies compared.                                                  *)

\* What a path gains by one relationship more.
LEMMA LongerParts ==
    ASSUME RelsTyped, NEW p \in Path, NEW q \in Longer(p)
    PROVE  \E e \in rels \ p.rels : /\ End(p) \in Ends(e) /\ End(q) = Far(e, End(p))
                                    /\ q.nodes = p.nodes \cup Ends(e) /\ q.rels = p.rels \cup {e}
<1>1. PICK e \in rels \ p.rels :
         /\ End(p) \in Ends(e)
         /\ q = [way |-> Append(p.way, Far(e, End(p))), steps |-> Append(p.steps, e), nodes |-> p.nodes \cup Ends(e), rels |-> p.rels \cup {e}]
  BY LongerIs
<1>2. Far(e, End(p)) \in Node
  BY <1>1, FarIs DEF RelsTyped
<1> DEFINE w == p.way
           x == Far(e, End(p))
<1>3. Append(w, x)[Len(Append(w, x))] = x
  <2>1. w \in Seq(Node) /\ x \in Node
    BY <1>2 DEF Path, Row
  <2> HIDE DEF w, x
  <2> QED BY <2>1
<1>4. q.way = Append(w, x) /\ q.nodes = p.nodes \cup Ends(e) /\ q.rels = p.rels \cup {e}
  BY <1>1
<1> QED BY <1>1, <1>3, <1>4 DEF End

\* A node on a path from n is at the end of one, of no greater length.
EndsIn(n, y, d)  == \E i \in 0..d : \E q \in PathsFrom(n)[i] : End(q) = y
Reaches(n, e, d) == \E i \in 0..d : \E q \in PathsFrom(n)[i] : e \in q.rels

LEMMA PathsHold ==
    ASSUME RelsTyped, NEW n \in Node
    PROVE  \A k \in Nat : \A p \in PathsFrom(n)[k] : /\ \A e \in p.rels : Ends(e) \subseteq p.nodes
                                                    /\ \A z \in p.nodes : EndsIn(n, z, k)
<1> DEFINE w == PathsFrom(n)
           S == {k \in Nat : \A p \in w[k] : /\ \A e \in p.rels : Ends(e) \subseteq p.nodes
                                           /\ \A z \in p.nodes : EndsIn(n, z, k)}
<1>1. w[0] = {Single(n)} /\ \A k \in Nat : w[k + 1] = UNION {Longer(p) : p \in w[k]} /\ w[k] \subseteq Path
  BY PathsFromIs
<1>2. ASSUME NEW k \in Nat, NEW p \in w[k] PROVE EndsIn(n, End(p), k)
  BY <1>2 DEF EndsIn
<1>3. ASSUME NEW k \in Nat, NEW z, EndsIn(n, z, k) PROVE EndsIn(n, z, k + 1)
  BY <1>3 DEF EndsIn
<1> HIDE DEF w
<1>4. 0 \in S
  <2>1. Single(n).rels = {} /\ Single(n).nodes = {n} /\ End(Single(n)) = n
    BY DEF Single, End
  <2> QED BY <1>1, <1>2, <2>1
<1>5. ASSUME NEW k \in Nat, k \in S PROVE k + 1 \in S
  <2>1. ASSUME NEW q \in w[k + 1]
        PROVE  (\A e \in q.rels : Ends(e) \subseteq q.nodes) /\ \A z \in q.nodes : EndsIn(n, z, k + 1)
    <3>1. PICK p \in w[k] : q \in Longer(p)
      BY <1>1, <2>1
    <3>2. p \in Path
      BY <1>1
    <3>3. PICK e \in rels \ p.rels : /\ End(p) \in Ends(e) /\ End(q) = Far(e, End(p))
                                     /\ q.nodes = p.nodes \cup Ends(e) /\ q.rels = p.rels \cup {e}
      BY <3>1, <3>2, LongerParts
    <3>4. Ends(e) = {End(p), End(q)}
      BY <3>3, FarIs DEF RelsTyped
    <3>5. EndsIn(n, End(p), k + 1) /\ EndsIn(n, End(q), k + 1)
      BY <1>2, <1>3, <2>1
    <3>6. (\A a \in p.rels : Ends(a) \subseteq p.nodes) /\ \A z \in p.nodes : EndsIn(n, z, k + 1)
      BY <1>3, <1>5
    <3> QED BY <3>3, <3>4, <3>5, <3>6
  <2> QED BY <2>1
<1>6. Nat \subseteq S
  <2> HIDE DEF S
  <2> QED BY <1>4, <1>5, Induction
<1> QED BY <1>6 DEF w

\* One relationship further, whether or not the path took it before.
LEMMA OneFurther ==
    ASSUME RelsTyped, NEW n \in Node, NEW j \in Nat, NEW y, EndsIn(n, y, j), NEW e \in rels, y \in Ends(e)
    PROVE  Reaches(n, e, j + 1) /\ EndsIn(n, Far(e, y), j + 1)
<1>1. PICK i \in 0..j : \E q \in PathsFrom(n)[i] : End(q) = y
  BY DEF EndsIn
<1>2. PICK p \in PathsFrom(n)[i] : End(p) = y
  BY <1>1
<1>3. /\ p \in Path /\ PathsFrom(n)[i + 1] = UNION {Longer(q) : q \in PathsFrom(n)[i]}
      /\ (\A a \in p.rels : Ends(a) \subseteq p.nodes) /\ \A z \in p.nodes : EndsIn(n, z, i)
  BY PathsFromIs, PathsHold
<1>4. Far(e, y) \in Ends(e)
  BY FarIs DEF RelsTyped
<1>5. CASE e \in p.rels
  <2>1. Reaches(n, e, j + 1)
    BY <1>5 DEF Reaches
  <2>2. EndsIn(n, Far(e, y), i)
    BY <1>3, <1>4, <1>5
  <2> QED BY <2>1, <2>2 DEF EndsIn
<1>6. CASE e \notin p.rels
  <2> DEFINE q == [way |-> Append(p.way, Far(e, End(p))), steps |-> Append(p.steps, e), nodes |-> p.nodes \cup Ends(e), rels |-> p.rels \cup {e}]
  <2>1. q \in Longer(p)
    BY <1>2, <1>3, <1>6, LongerIs
  <2>2. q.rels = p.rels \cup {e} /\ q.way = Append(p.way, Far(e, y))
    BY <1>2
  <2>3. End(q) = Far(e, y)
    <3> DEFINE s == p.way
               x == Far(e, y)
    <3>1. s \in Seq(Node) /\ x \in Node
      BY <1>3, FarIs DEF Path, Row, RelsTyped
    <3>2. Append(s, x)[Len(Append(s, x))] = x
      <4> HIDE DEF s, x
      <4> QED BY <3>1
    <3> QED BY <2>2, <3>2 DEF End
  <2>4. q \in PathsFrom(n)[i + 1] /\ i + 1 \in 0..(j + 1)
    BY <1>3, <2>1
  <2> HIDE DEF q
  <2> QED BY <2>2, <2>3, <2>4 DEF Reaches, EndsIn
<1> QED BY <1>5, <1>6

\* Whatever is expanded from the end of a path from n is on a path from n.
LEMMA ExpansionWithin ==
    ASSUME RelsTyped, NEW n \in Node
    PROVE  \A k \in Nat : \A c \in Pattern : \A j \in Nat :
              EndsIn(n, c[1], j) => \A e \in Expansion[k][c] : Reaches(n, e, j + k)
<1> DEFINE X == Expansion
           S == {k \in Nat : \A c \in Pattern : \A j \in Nat :
                    EndsIn(n, c[1], j) => \A e \in X[k][c] : Reaches(n, e, j + k)}
<1>1. /\ \A c \in Pattern : X[0][c] = {}
      /\ \A k \in Nat : X[k + 1] = Deeper(X[k]) /\ X[k] \in [Pattern -> SUBSET rels]
  BY ExpansionIs
<1> HIDE DEF X
<1>2. 0 \in S
  BY <1>1
<1>3. ASSUME NEW k \in Nat, k \in S PROVE k + 1 \in S
  <2>1. ASSUME NEW c \in Pattern, NEW j \in Nat, EndsIn(n, c[1], j), NEW e \in X[k + 1][c]
        PROVE  Reaches(n, e, j + (k + 1))
    <3>1. PICK d \in Elements(schema) :
             /\ d.owner = c[2]
             /\ \E a \in Along(c[1], d) : e = a \/ e \in X[k][<<Far(a, c[1]), c[3], d.target>>]
      <4>1. e \in Deeper(X[k])[c] /\ X[k] \in [Pattern -> SUBSET rels]
        BY <1>1, <2>1
      <4> QED BY <4>1, DeeperIs
    <3>2. PICK a \in Along(c[1], d) : e = a \/ e \in X[k][<<Far(a, c[1]), c[3], d.target>>]
      BY <3>1
    <3>3. Reaches(n, a, j + 1) /\ EndsIn(n, Far(a, c[1]), j + 1)
      BY <2>1, AlongIs, OneFurther
    <3>4. CASE e = a
      BY <3>3, <3>4 DEF Reaches
    <3>5. CASE e \in X[k][<<Far(a, c[1]), c[3], d.target>>]
      <4> DEFINE b == <<Far(a, c[1]), c[3], d.target>>
      <4>1. b \in Pattern /\ b[1] = Far(a, c[1])
        BY NextPattern
      <4>2. EndsIn(n, b[1], j + 1) /\ e \in X[k][b]
        BY <3>3, <3>5, <4>1
      <4> HIDE DEF b
      <4>3. Reaches(n, e, (j + 1) + k)
        BY <1>3, <4>1, <4>2
      <4>4. (j + 1) + k = j + (k + 1)
        OBVIOUS
      <4> QED BY <4>3, <4>4
    <3> QED BY <3>2, <3>4, <3>5
  <2> QED BY <2>1
<1>4. Nat \subseteq S
  <2> HIDE DEF S
  <2> QED BY <1>2, <1>3, Induction
<1> QED BY <1>4 DEF X

LEMMA ExpandWithin ==
    ASSUME RelsTyped, NEW n \in Node, NEW label \in Mapped, NEW d \in Nat
    PROVE  Expand(n, label, d) \subseteq UNION {p.rels : p \in Paths(n, d)}
<1> DEFINE c == <<n, label, label>>
<1>1. c \in Pattern /\ c[1] = n
  BY DEF Pattern
<1>2. EndsIn(n, n, 0)
  <2>1. End(Single(n)) = n
    BY DEF Single, End
  <2> QED BY <2>1, PathsFromIs DEF EndsIn
<1>3. ASSUME NEW e \in Expansion[d][c] PROVE Reaches(n, e, d)
  <2>1. Reaches(n, e, 0 + d)
    <3> HIDE DEF c
    <3> QED BY <1>1, <1>2, <1>3, ExpansionWithin
  <2> QED BY <2>1
<1>4. \A e : Reaches(n, e, d) => e \in UNION {p.rels : p \in Paths(n, d)}
  BY DEF Reaches, Paths
<1> QED BY <1>3, <1>4 DEF Expand

\* What was saved through a field of n is followed from n.
LEMMA AlongSaved ==
    ASSUME RelsTyped, NEW n \in Node, NEW p \in Node, NEW d \in Elements(schema),
           LabelOf[p] = d.target, SavedAs(d, n, p) \in rels
    PROVE  SavedAs(d, n, p) \in Along(n, d)
<1>1. CASE Dir(d) = "outgoing"
  <2>1. SavedAs(d, n, p) = <<d.rel, n, p>>
    BY <1>1 DEF SavedAs
  <2> QED BY <1>1, <2>1 DEF Along, Ends, Far
<1>2. CASE Dir(d) # "outgoing"
  <2>1. SavedAs(d, n, p) = <<d.rel, p, n>>
    BY <1>2 DEF SavedAs
  <2> QED BY <1>2, <2>1 DEF Along, Ends, Far
<1> QED BY <1>1, <1>2

\* A field of the label is followed at once.
LEMMA ExpandFollows ==
    ASSUME RelsTyped, NEW n \in Node, NEW label \in Mapped, NEW k \in Nat,
           NEW d \in Elements(schema), d.owner = label, NEW e \in Along(n, d)
    PROVE  /\ e \in Expansion[k + 1][<<n, label, label>>]
           /\ Expansion[k][<<Far(e, n), label, d.target>>] \subseteq Expansion[k + 1][<<n, label, label>>]
<1> DEFINE c == <<n, label, label>>
           X == Expansion[k]
<1>1. c \in Pattern /\ c[1] = n /\ c[2] = label /\ c[3] = label
  BY DEF Pattern
<1>2. X \in [Pattern -> SUBSET rels] /\ Expansion[k + 1] = Deeper(X)
  BY ExpansionIs
<1> HIDE DEF c, X
<1>3. ASSUME NEW b, b = e \/ b \in X[<<Far(e, n), label, d.target>>] PROVE b \in Deeper(X)[c]
  <2>1. \E a \in Along(c[1], d) : b = a \/ b \in X[<<Far(a, c[1]), c[3], d.target>>]
    BY <1>1, <1>3
  <2>2. d.owner = c[2]
    BY <1>1
  <2> QED BY <1>1, <1>2, <2>1, <2>2, DeeperIs
<1> QED BY <1>2, <1>3 DEF c, X

\* The schema strategy loads part of what the path strategy loads; of a node that is asked
\* for, every relationship that one of its fields stands for.
THEOREM SchemaLoadsWithinPath == Spec => []SchemaWithinPath
<1>1. ReadInv => SchemaWithinPath
  <2> SUFFICES ASSUME ReadInv, NEW n \in req.match, LabelOf[n] = req.label
               PROVE  /\ Expand(n, req.label, req.depth) \subseteq UNION {p.rels : p \in Paths(n, req.depth)}
                      /\ req.depth > 0 => \A d \in Elements(schema), p \in Node :
                            d.owner = req.label /\ LabelOf[p] = d.target /\ SavedAs(d, n, p) \in rels
                               => SavedAs(d, n, p) \in Expand(n, req.label, req.depth)
    BY DEF SchemaWithinPath
  <2>1. RelsTyped /\ n \in Node /\ req.label \in Mapped /\ req.depth \in Nat
    BY RequestIs DEF ReadInv
  <2>2. Expand(n, req.label, req.depth) \subseteq UNION {p.rels : p \in Paths(n, req.depth)}
    BY <2>1, ExpandWithin
  <2>3. ASSUME req.depth > 0, NEW d \in Elements(schema), NEW p \in Node,
               d.owner = req.label, LabelOf[p] = d.target, SavedAs(d, n, p) \in rels
        PROVE  SavedAs(d, n, p) \in Expand(n, req.label, req.depth)
    <3> DEFINE k == req.depth - 1
               e == SavedAs(d, n, p)
    <3>1. k \in Nat /\ k + 1 = req.depth
      BY <2>1, <2>3
    <3>2. e \in Along(n, d)
      BY <2>1, <2>3, AlongSaved
    <3> HIDE DEF k, e
    <3>3. e \in Expansion[k + 1][<<n, req.label, req.label>>]
      BY <2>1, <2>3, <3>1, <3>2, ExpandFollows
    <3> QED BY <3>1, <3>3 DEF Expand, e
  <2> QED BY <2>2, <2>3
<1> QED BY <1>1, ReadInvariant, PTL

\* More depth, more relationships.
LEMMA ExpansionGrows ==
    ASSUME RelsTyped, NEW k \in Nat, NEW l \in Nat, k <= l, NEW c \in Pattern
    PROVE  Expansion[k][c] \subseteq Expansion[l][c]
<1> DEFINE X == Expansion
           S == {n \in Nat : \A b \in Pattern : X[n][b] \subseteq X[n + 1][b]}
<1>1. /\ \A b \in Pattern : X[0][b] = {}
      /\ \A n \in Nat : X[n + 1] = Deeper(X[n]) /\ X[n] \in [Pattern -> SUBSET rels]
  BY ExpansionIs
<1> HIDE DEF X
<1>2. 0 \in S
  BY <1>1
<1>3. ASSUME NEW n \in Nat, n \in S PROVE n + 1 \in S
  <2>1. ASSUME NEW b \in Pattern, NEW e \in X[n + 1][b] PROVE e \in X[(n + 1) + 1][b]
    <3>1. /\ X[n + 1] = Deeper(X[n]) /\ X[n] \in [Pattern -> SUBSET rels]
          /\ X[(n + 1) + 1] = Deeper(X[n + 1]) /\ X[n + 1] \in [Pattern -> SUBSET rels]
      BY <1>1
    <3>2. PICK d \in Elements(schema) :
             d.owner = b[2] /\ \E a \in Along(b[1], d) : e = a \/ e \in X[n][<<Far(a, b[1]), b[3], d.target>>]
      BY <2>1, <3>1, DeeperIs
    <3>3. \E a \in Along(b[1], d) : e = a \/ e \in X[n + 1][<<Far(a, b[1]), b[3], d.target>>]
      BY <1>3, <3>2, NextPattern
    <3> QED BY <3>1, <3>2, <3>3, DeeperIs
  <2> QED BY <2>1
<1>4. Nat \subseteq S
  <2> HIDE DEF S
  <2> QED BY <1>2, <1>3, Induction
<1> DEFINE T == {n \in Nat : X[k][c] \subseteq X[k + n][c]}
<1>5. 0 \in T
  OBVIOUS
<1>6. ASSUME NEW n \in Nat, n \in T PROVE n + 1 \in T
  <2>1. k + n \in Nat /\ (k + n) + 1 = k + (n + 1)
    OBVIOUS
  <2>2. X[k + n][c] \subseteq X[(k + n) + 1][c]
    BY <1>4, <2>1
  <2> QED BY <1>6, <2>1, <2>2
<1>7. Nat \subseteq T
  <2> HIDE DEF T
  <2> QED BY <1>5, <1>6, Induction
<1>8. l - k \in T /\ k + (l - k) = l
  BY <1>7
<1> QED BY <1>8 DEF X

\* One type, mapped at both ends of its relationships, and nothing else in the database.
OneTyped(label) == /\ Generates(schema)
                   /\ Parsed(schema) = DOMAIN schema
                   /\ rels \subseteq Savable(Elements(schema))
                   /\ \A d \in Elements(schema) : d.owner = label /\ d.target = label

\* The field gogmcli pairs with d faces it.
LEMMA OppositeIs ==
    ASSUME NEW decls, NEW d, NEW o \in OppositeOf(decls, d)
    PROVE  /\ o \in Elements(decls) /\ o.dir # "unset"
           /\ o.owner = d.target /\ o.rel = d.rel /\ o.target = d.owner
           /\ <<d.dir, o.dir>> \in Facing
BY DEF OppositeOf, At, First, Parsed, ConfigsFor, Elements

\* From either end of a relationship one of the fields is followed.
LEMMA FollowedFromBoth ==
    ASSUME RelsTyped, NEW label, OneTyped(label), NEW e \in rels, NEW x \in Ends(e)
    PROVE  \E d \in Elements(schema) : e \in Along(x, d)
<1>1. PICK d \in Elements(schema), a \in Node, b \in Node :
         e = SavedAs(d, a, b) /\ LabelOf[a] = d.owner /\ LabelOf[b] = d.target
  BY DEF OneTyped, Savable
<1>2. d.owner = label /\ d.target = label /\ d \in At(schema, Parsed(schema)) /\ d.dir # "unset"
  BY DEF OneTyped, Elements, At, Parsed
<1>3. PICK o \in OppositeOf(schema, d) : TRUE
  BY <1>2 DEF OneTyped, Generates
<1>4. /\ o \in Elements(schema) /\ o.rel = d.rel /\ o.target = d.owner
      /\ <<d.dir, o.dir>> \in Facing
  BY OppositeIs
<1>5. x \in {a, b}
  BY <1>1 DEF SavedAs, Ends
<1>6. CASE x = a
  BY <1>1, <1>6, AlongSaved
<1>7. CASE x = b /\ d.dir \in {"outgoing", "incoming"}
  <2>1. SavedAs(o, b, a) = e
    BY <1>1, <1>2, <1>4, <1>7 DEF Facing, SavedAs, Dir
  <2> QED BY <1>1, <1>4, <1>7, <2>1, AlongSaved
<1>8. CASE x = b /\ d.dir \notin {"outgoing", "incoming"}
  <2>1. Dir(d) \notin {"outgoing", "incoming"}
    BY <1>2, <1>8 DEF Dir
  <2>2. e = <<d.rel, b, a>>
    BY <1>1, <2>1 DEF SavedAs
  <2> QED BY <1>1, <1>2, <1>8, <2>1, <2>2 DEF Along, Ends, Far
<1> QED BY <1>5, <1>6, <1>7, <1>8

\* Then a path is expanded from its first node.
LEMMA PathsWithin ==
    ASSUME RelsTyped, NEW label \in Mapped, OneTyped(label), NEW n \in Node
    PROVE  \A j \in Nat : \A p \in PathsFrom(n)[j] :
              /\ p.rels \subseteq Expansion[j][<<n, label, label>>]
              /\ \A k \in Nat : Expansion[k][<<End(p), label, label>>]
                                \subseteq Expansion[j + k][<<n, label, label>>]
<1> DEFINE w == PathsFrom(n)
           At0(y) == <<y, label, label>>
           Inside(p, j) == /\ p.rels \subseteq Expansion[j][At0(n)]
                           /\ \A k \in Nat : Expansion[k][At0(End(p))] \subseteq Expansion[j + k][At0(n)]
           S == {j \in Nat : \A p \in w[j] : Inside(p, j)}
<1>1. w[0] = {Single(n)} /\ \A k \in Nat : w[k + 1] = UNION {Longer(p) : p \in w[k]} /\ w[k] \subseteq Path
  BY PathsFromIs
<1> HIDE DEF w
<1>2. \A y \in Node : At0(y) \in Pattern
  BY DEF Pattern
<1>3. 0 \in S
  <2>1. Single(n).rels = {} /\ End(Single(n)) = n
    BY DEF Single, End
  <2> QED BY <1>1, <2>1
<1>4. ASSUME NEW j \in Nat, j \in S PROVE j + 1 \in S
  <2>1. ASSUME NEW q \in w[j + 1] PROVE Inside(q, j + 1)
    <3>1. PICK p \in w[j] : q \in Longer(p)
      BY <1>1, <2>1
    <3>2. p \in Path /\ Inside(p, j)
      BY <1>1, <1>4
    <3>3. PICK e \in rels \ p.rels : /\ End(p) \in Ends(e) /\ End(q) = Far(e, End(p))
                                     /\ q.rels = p.rels \cup {e}
      BY <3>1, <3>2, LongerParts
    <3>4. PICK d \in Elements(schema) : e \in Along(End(p), d)
      BY <3>3, FollowedFromBoth
    <3>5. d.owner = label /\ d.target = label /\ End(p) \in Node
      BY <3>3, FarIs DEF OneTyped, RelsTyped
    <3>6. ASSUME NEW k \in Nat
          PROVE  /\ e \in Expansion[k + 1][At0(End(p))]
                 /\ Expansion[k][At0(End(q))] \subseteq Expansion[k + 1][At0(End(p))]
      BY <3>3, <3>4, <3>5, ExpandFollows
    <3>7. ASSUME NEW k \in Nat
          PROVE  Expansion[k + 1][At0(End(p))] \subseteq Expansion[(j + 1) + k][At0(n)]
      <4>1. k + 1 \in Nat /\ j + (k + 1) = (j + 1) + k
        OBVIOUS
      <4> QED BY <3>2, <4>1
    <3>8. e \in Expansion[j + 1][At0(n)]
      <4>1. 0 + 1 = 1 /\ (j + 1) + 0 = j + 1
        OBVIOUS
      <4> QED BY <3>6, <3>7, <4>1
    <3>9. p.rels \subseteq Expansion[j + 1][At0(n)]
      <4>1. Expansion[j][At0(n)] \subseteq Expansion[j + 1][At0(n)]
        <5> HIDE DEF At0
        <5> QED BY <1>2, ExpansionGrows
      <4> QED BY <3>2, <4>1
    <3> HIDE DEF At0
    <3> QED BY <3>3, <3>6, <3>7, <3>8, <3>9
  <2> QED BY <2>1
<1>5. Nat \subseteq S
  <2> HIDE DEF S
  <2> QED BY <1>3, <1>4, Induction
<1> QED BY <1>5 DEF w

\* With one type only, mapped at both ends, the two strategies load the same.
THEOREM StrategiesLoadTheSame == Spec => []StrategiesAgree
<1>1. ReadInv => StrategiesAgree
  <2> SUFFICES ASSUME ReadInv, OneTyped(req.label), NEW n \in req.match
               PROVE  Expand(n, req.label, req.depth) = UNION {p.rels : p \in Paths(n, req.depth)}
    BY DEF StrategiesAgree, OneTyped
  <2> DEFINE label == req.label
             depth == req.depth
             c == <<n, label, label>>
  <2>1. RelsTyped /\ n \in Node /\ label \in Mapped /\ depth \in Nat /\ OneTyped(label)
    BY RequestIs DEF ReadInv
  <2>2. c \in Pattern
    BY <2>1 DEF Pattern
  <2>3. ASSUME NEW p \in Paths(n, depth) PROVE p.rels \subseteq Expand(n, label, depth)
    <3>1. PICK j \in 0..depth : p \in PathsFrom(n)[j]
      BY <2>3 DEF Paths
    <3>2. p.rels \subseteq Expansion[j][c]
      <4> HIDE DEF label, depth
      <4>1. j \in Nat
        BY <2>1
      <4>2. \A k \in Nat : \A q \in PathsFrom(n)[k] : q.rels \subseteq Expansion[k][<<n, label, label>>]
        BY <2>1, PathsWithin
      <4> QED BY <3>1, <4>1, <4>2
    <3>3. Expansion[j][c] \subseteq Expansion[depth][c]
      <4> HIDE DEF c, depth
      <4> QED BY <2>1, <2>2, <3>1, ExpansionGrows
    <3> QED BY <3>2, <3>3 DEF Expand
  <2>4. Expand(n, label, depth) \subseteq UNION {p.rels : p \in Paths(n, depth)}
    <3> HIDE DEF label, depth
    <3> QED BY <2>1, ExpandWithin
  <2> QED BY <2>3, <2>4
<1> QED BY <1>1, ReadInvariant, PTL

-------------------------------------------------------------------------------
(* Which fields a relationship is loaded into.                                   *)

LEMMA FirstIs ==
    ASSUME NEW I \in SUBSET Nat, I # {}
    PROVE  \E i \in I : First(I) = {i}
<1>1. PICK i \in I : \A k \in I : i <= k
  BY Least
<1>2. \A j \in I : (\A k \in I : j <= k) => j = i
  <2> TAKE j \in I
  <2> HAVE \A k \in I : j <= k
  <2>1. j <= i /\ i <= j /\ i \in Nat /\ j \in Nat
    BY <1>1
  <2> QED BY <2>1
<1>3. First(I) = {i}
  BY <1>1, <1>2 DEF First
<1> QED BY <1>3

LEMMA ConfigsAreFinite ==
    ASSUME NEW s \in Schemas, NEW type, NEW rel, NEW target
    PROVE  /\ ConfigsFor(s, type, rel, target) \in SUBSET Nat
           /\ IsFiniteSet(ConfigsFor(s, type, rel, target))
<1> DEFINE confs == ConfigsFor(s, type, rel, target)
           places == 1..Len(s)
<1>1. confs \subseteq places /\ Len(s) \in Nat
  BY SchemaIs DEF ConfigsFor
<1>2. IsFiniteSet(places)
  BY <1>1, FS_Interval
<1>3. places \subseteq Nat
  OBVIOUS
<1> HIDE DEF confs, places
<1>4. IsFiniteSet(confs)
  BY <1>1, <1>2, FS_Subset
<1> QED BY <1>1, <1>3, <1>4 DEF confs

LEMMA NoThird ==
    ASSUME NEW S, IsFiniteSet(S), Cardinality(S) = 2, NEW x \in S, NEW y \in S, NEW z \in S, x # y, x # z
    PROVE  y = z
<1>1. IsFiniteSet(S \ {x}) /\ Cardinality(S \ {x}) = 1
  BY FS_RemoveElement
<1>2. \E u : S \ {x} = {u}
  BY <1>1, FS_Singleton
<1> QED BY <1>2

\* getConfig finds at most one config, and it is one of the type.
LEMMA ConfigIsOne ==
    ASSUME NEW s \in Schemas, NEW type, NEW rel, NEW target, NEW dir,
           NEW c \in GetConfig(s, type, rel, target, dir)
    PROVE  /\ GetConfig(s, type, rel, target, dir) = {c}
           /\ c \in Elements(s) /\ c.owner = type
<1> DEFINE confs == ConfigsFor(s, type, rel, target)
           F == {i \in confs : Dir(s[i]) = dir}
           I == IF Cardinality(confs) = 1 THEN confs ELSE First(F)
<1>1. GetConfig(s, type, rel, target, dir) = At(s, I)
  BY DEF GetConfig
<1>2. confs \in SUBSET Nat /\ IsFiniteSet(confs)
  BY ConfigsAreFinite
<1>3. PICK i \in I : c = s[i]
  BY <1>1 DEF At
<1>4. I = {i}
  <2>1. CASE Cardinality(confs) = 1
    <3>1. \E u : confs = {u}
      BY <1>2, <2>1, FS_Singleton
    <3> QED BY <1>3, <2>1, <3>1
  <2>2. CASE Cardinality(confs) # 1
    <3>1. First(F) # {} /\ F \in SUBSET Nat
      BY <1>2, <1>3, <2>2
    <3>2. F # {}
      BY <3>1 DEF First
    <3>3. \E u \in F : First(F) = {u}
      <4> HIDE DEF F
      <4> QED BY <3>1, <3>2, FirstIs
    <3> QED BY <1>3, <2>2, <3>3
  <2> QED BY <2>1, <2>2
<1>5. i \in confs
  BY <1>3 DEF First
<1>6. c \in Elements(s) /\ c.owner = type
  BY <1>3, <1>5 DEF ConfigsFor, Elements, At
<1> HIDE DEF I
<1> QED BY <1>1, <1>3, <1>4, <1>6 DEF At

\* Where the fields of a type can be told apart, getConfig finds each by its own direction,
\* and one without a direction by either.
LEMMA ConfigIsOwn ==
    ASSUME NEW s \in Schemas, Distinct(s), NEW d \in Elements(s), NEW dir \in {"outgoing", "incoming"},
           Dir(d) = dir \/ Dir(d) \notin {"outgoing", "incoming"}
    PROVE  GetConfig(s, d.owner, d.rel, d.target, dir) = {d}
<1> DEFINE confs == ConfigsFor(s, d.owner, d.rel, d.target)
           F == {i \in confs : Dir(s[i]) = dir}
<1>1. PICK i \in DOMAIN s : d = s[i]
  BY DEF Elements, At
<1>2. i \in confs /\ confs \in SUBSET Nat /\ IsFiniteSet(confs)
  <2>1. i \in confs
    BY <1>1 DEF ConfigsFor
  <2> QED BY <2>1, ConfigsAreFinite
<1>3. \/ Cardinality(confs) = 1
      \/ Cardinality(confs) = 2 /\ {Dir(s[j]) : j \in confs} = {"outgoing", "incoming"}
  BY DEF Distinct
<1> HIDE DEF confs
<1>4. CASE Cardinality(confs) = 1
  <2>1. \E u : confs = {u}
    BY <1>2, <1>4, FS_Singleton
  <2>2. confs = {i}
    BY <1>2, <2>1
  <2> QED BY <1>1, <1>4, <2>2 DEF GetConfig, At, confs
<1>5. CASE Cardinality(confs) = 2 /\ {Dir(s[j]) : j \in confs} = {"outgoing", "incoming"}
  <2>1. Dir(d) = dir
    BY <1>1, <1>2, <1>5
  <2>2. PICK k \in confs : Dir(s[k]) # dir
    BY <1>5
  <2>3. ASSUME NEW j \in F PROVE j = i
    <3>1. k # i /\ k # j
      BY <1>1, <2>1, <2>2
    <3> QED BY <1>2, <1>5, <2>2, <3>1, NoThird
  <2>4. F = {i} /\ F \in SUBSET Nat
    BY <1>1, <1>2, <2>1, <2>3
  <2>5. First(F) = {i}
    BY <2>4 DEF First
  <2>6. GetConfig(s, d.owner, d.rel, d.target, dir) = At(s, First(F))
    BY <1>5 DEF GetConfig, confs
  <2> QED BY <1>1, <2>5, <2>6 DEF At
<1> QED BY <1>3, <1>4, <1>5

StartOf(s, e) == StartConfig(s, LabelOf[e[2]], e[1], LabelOf[e[3]])
EndOf(s, e)   == EndConfig(s, LabelOf[e[2]], e[1], LabelOf[e[3]])

\* The configs decode finds for a relationship saved through a field that gogmcli paired:
\* that field and its opposite.
LEMMA SavedConfigs ==
    ASSUME NEW s \in Schemas, Distinct(s), NEW d \in At(s, Parsed(s)), NEW o \in OppositeOf(s, d),
           NEW n \in Node, NEW p \in Node, LabelOf[n] = d.owner, LabelOf[p] = d.target
    PROVE  \/ /\ SavedAs(d, n, p) = <<d.rel, n, p>>
              /\ StartOf(s, SavedAs(d, n, p)) = {d} /\ EndOf(s, SavedAs(d, n, p)) = {o}
           \/ /\ SavedAs(d, n, p) = <<d.rel, p, n>>
              /\ StartOf(s, SavedAs(d, n, p)) = {o} /\ EndOf(s, SavedAs(d, n, p)) = {d}
<1>1. d \in Elements(s) /\ d.dir # "unset"
  BY DEF At, Parsed, Elements
<1>2. /\ o \in Elements(s) /\ o.dir # "unset" /\ o.owner = d.target /\ o.rel = d.rel /\ o.target = d.owner
      /\ <<d.dir, o.dir>> \in Facing
  BY OppositeIs
<1>3. Dir(d) = d.dir /\ Dir(o) = o.dir
  BY <1>1, <1>2 DEF Dir
<1>4. CASE Dir(d) = "outgoing"
  <2>1. SavedAs(d, n, p) = <<d.rel, n, p>>
    BY <1>4 DEF SavedAs
  <2>2. Dir(o) = "incoming"
    BY <1>2, <1>3, <1>4 DEF Facing
  <2>3. GetConfig(s, d.owner, d.rel, d.target, "outgoing") = {d}
    BY <1>1, <1>4, ConfigIsOwn
  <2>4. GetConfig(s, o.owner, o.rel, o.target, "incoming") = {o}
    BY <1>2, <2>2, ConfigIsOwn
  <2> QED BY <1>2, <2>1, <2>3, <2>4 DEF StartOf, EndOf, StartConfig, EndConfig
<1>5. CASE Dir(d) # "outgoing"
  <2>1. SavedAs(d, n, p) = <<d.rel, p, n>>
    BY <1>5 DEF SavedAs
  <2>2. /\ Dir(d) = "incoming" \/ Dir(d) \notin {"outgoing", "incoming"}
        /\ Dir(o) = "outgoing" \/ Dir(o) \notin {"outgoing", "incoming"}
    BY <1>2, <1>3, <1>5 DEF Facing
  <2>3. GetConfig(s, d.owner, d.rel, d.target, "incoming") = {d}
    BY <1>1, <2>2, ConfigIsOwn
  <2>4. GetConfig(s, o.owner, o.rel, o.target, "outgoing") = {o}
    BY <1>2, <2>2, ConfigIsOwn
  <2> QED BY <1>2, <2>1, <2>3, <2>4 DEF StartOf, EndOf, StartConfig, EndConfig
<1> QED BY <1>4, <1>5

\* What gogmcli accepts can be loaded: when fields are paired and can be told apart, decode
\* finds a config for every relationship that Save made.
THEOREM GeneratedSchemasAreLoaded == Spec => []GeneratedSchemasLoad
<1>1. Init => GeneratedSchemasLoad
  BY DEF Init, GeneratedSchemasLoad
<1>2. ReadInv /\ GeneratedSchemasLoad /\ [Next]_vars => GeneratedSchemasLoad'
  <2> SUFFICES ASSUME ReadInv, GeneratedSchemasLoad, [Next]_vars, err' = "config",
                      Distinct(schema'), Generates(schema'),
                      Related' \subseteq Savable(At(schema', Parsed(schema')))
               PROVE  FALSE
    BY DEF GeneratedSchemasLoad
  <2>1. CASE err = "config"
    <3>1. pc = "failed"
      BY <2>1 DEF ReadInv
    <3>2. UNCHANGED vars
      BY <3>1 DEF Next, RunQuery, Sort, Relate, Finish, Return, Interrupted, Exposed
    <3> QED BY <2>1, <3>2 DEF GeneratedSchemasLoad, Related, vars
  <2>2. CASE err # "config"
    <3>1. Relate
      BY <2>2 DEF Next, RunQuery, Sort, Finish, Return, Interrupted, Fails, vars
    <3>2. UNCHANGED <<schema, rows>>
      BY <3>1 DEF Relate
    <3>3. PICK e \in todo : StartOf(schema, e) = {} \/ EndOf(schema, e) = {}
      BY <2>2, <3>1 DEF Relate, StartOf, EndOf
    <3>4. e \in Savable(At(schema, Parsed(schema)))
      BY <3>2 DEF ReadInv, Related
    <3>5. PICK d \in At(schema, Parsed(schema)), n \in Node, p \in Node :
             e = SavedAs(d, n, p) /\ LabelOf[n] = d.owner /\ LabelOf[p] = d.target
      BY <3>4 DEF Savable
    <3>6. PICK o \in OppositeOf(schema, d) : TRUE
      BY <3>2 DEF Generates
    <3>7. schema \in Schemas /\ Distinct(schema)
      BY <3>2 DEF ReadInv, RelsTyped
    <3>8. StartOf(schema, e) # {} /\ EndOf(schema, e) # {}
      BY <3>5, <3>6, <3>7, SavedConfigs
    <3> QED BY <3>3, <3>8
  <2> QED BY <2>1, <2>2
<1> QED BY <1>1, <1>2, ReadInvariant, PTL DEF Spec

\* Field d of n holds p; a pointer may have been set to another since.
Holds(r, d, n, p) == IF d.many THEN p \in r[n][d.field] ELSE r[n][d.field] # {}

LEMMA PutKeeps ==
    ASSUME schema \in Schemas, NEW r, Shape(r), NEW n \in Node, NEW d \in Elements(schema),
           d.owner = LabelOf[n], NEW p, NEW c \in Elements(schema), NEW m \in Node,
           c.owner = LabelOf[m], NEW q, Holds(r, c, m, q)
    PROVE  Holds(Put(r, n, d, p), c, m, q)
<1>1. c.field \in Fields /\ (m = n /\ c.field = d.field => c = d)
  BY FieldsOfSchema, FieldsAreNamed
<1>2. Put(r, n, d, p)[m][c.field]
         = IF m = n /\ c.field = d.field THEN Stored(r[m][c.field], d, p) ELSE r[m][c.field]
  BY <1>1, PutAt
<1> QED BY <1>1, <1>2 DEF Holds, Stored

LEMMA PutPuts ==
    ASSUME schema \in Schemas, NEW r, Shape(r), NEW n \in Node, NEW d \in Elements(schema), NEW p
    PROVE  Holds(Put(r, n, d, p), d, n, p)
<1>1. d.field \in Fields
  BY FieldsOfSchema
<1>2. Put(r, n, d, p)[n][d.field] = Stored(r[n][d.field], d, p)
  BY <1>1, PutAt
<1> QED BY <1>2 DEF Holds, Stored

\* A relationship is at both ends in the fields that decode found.
Loaded(s, r, e) == /\ \A c \in StartOf(s, e) : Holds(r, c, e[2], e[3])
                   /\ \A c \in EndOf(s, e) : Holds(r, c, e[3], e[2])

LoadedInv == pc \in {"relate", "commit", "done"} => \A e \in Related \ todo : Loaded(schema, ref, e)

LEMMA RelateLoads ==
    ASSUME ReadInv, HeldInv, LoadedInv, Relate
    PROVE  LoadedInv'
<1>1. /\ UNCHANGED <<schema, rows>> /\ schema \in Schemas /\ Shape(ref) /\ todo \subseteq Related
      /\ Related \subseteq Rel /\ \A a \in Related \ todo : Loaded(schema, ref, a)
  BY SeenIsTyped DEF Relate, ReadInv, RelsTyped, HeldInv, HeldAll, LoadedInv
<1>2. CASE UNCHANGED <<todo, ref>>
  BY <1>1, <1>2 DEF LoadedInv, Related
<1>3. ASSUME NEW e \in todo, NEW s \in StartOf(schema, e), NEW t \in EndOf(schema, e),
             ref' = Put(Put(ref, e[3], t, e[2]), e[2], s, e[3]), todo' = todo \ {e}
      PROVE  LoadedInv'
  <2> DEFINE r == Put(ref, e[3], t, e[2])
  <2>1. /\ StartOf(schema, e) = {s} /\ s \in Elements(schema) /\ s.owner = LabelOf[e[2]]
        /\ EndOf(schema, e) = {t} /\ t \in Elements(schema) /\ t.owner = LabelOf[e[3]]
    BY <1>1, <1>3, ConfigIsOne DEF StartOf, EndOf, StartConfig, EndConfig
  <2>2. e[2] \in Node /\ e[3] \in Node
    BY <1>1, <1>3 DEF Rel
  <2>3. Shape(r)
    BY <1>1, PutAt
  <2>4. ASSUME NEW c \in Elements(schema), NEW m \in Node, c.owner = LabelOf[m], NEW q, Holds(ref, c, m, q)
        PROVE  Holds(ref', c, m, q)
    <3>1. Holds(r, c, m, q)
      BY <1>1, <2>1, <2>2, <2>4, PutKeeps
    <3> HIDE DEF r
    <3>2. Holds(Put(r, e[2], s, e[3]), c, m, q)
      BY <1>1, <2>1, <2>2, <2>3, <2>4, <3>1, PutKeeps
    <3> QED BY <1>3, <3>2 DEF r
  <2>5. ASSUME NEW a \in Related, a \notin todo PROVE Loaded(schema, ref', a)
    <3>1. Loaded(schema, ref, a) /\ a[2] \in Node /\ a[3] \in Node
      BY <1>1, <2>5 DEF Rel
    <3>2. /\ \A c \in StartOf(schema, a) : c \in Elements(schema) /\ c.owner = LabelOf[a[2]]
          /\ \A c \in EndOf(schema, a) : c \in Elements(schema) /\ c.owner = LabelOf[a[3]]
      BY <1>1, ConfigIsOne DEF StartOf, EndOf, StartConfig, EndConfig
    <3> QED BY <2>4, <3>1, <3>2 DEF Loaded
  <2>6. Loaded(schema, ref', e)
    <3>1. Holds(r, t, e[3], e[2])
      BY <1>1, <2>1, <2>2, PutPuts
    <3> HIDE DEF r
    <3>2. Holds(Put(r, e[2], s, e[3]), t, e[3], e[2]) /\ Holds(Put(r, e[2], s, e[3]), s, e[2], e[3])
      BY <1>1, <2>1, <2>2, <2>3, <3>1, PutKeeps, PutPuts
    <3> QED BY <1>3, <2>1, <3>2 DEF Loaded, r
  <2>7. \A a \in Related \ todo' : Loaded(schema, ref', a)
    BY <1>3, <2>5, <2>6
  <2>8. Related' = Related /\ schema' = schema
    BY <1>1 DEF Related
  <2> QED BY <2>7, <2>8 DEF LoadedInv, Loaded, StartOf, EndOf, Holds
<1>4. \/ UNCHANGED <<todo, ref>>
      \/ \E e \in todo : \E s \in StartOf(schema, e), t \in EndOf(schema, e) :
            ref' = Put(Put(ref, e[3], t, e[2]), e[2], s, e[3]) /\ todo' = todo \ {e}
  BY DEF Relate, StartOf, EndOf
<1> QED BY <1>2, <1>3, <1>4

\* A relationship that was saved through a field is loaded into that field, and into the
\* field gogmcli pairs with it at the other end.
THEOREM SavedIsLoaded == Spec => []LoadedWhereSaved
<1>1. Init => LoadedInv
  BY DEF Init, LoadedInv
<1>2. ReadInv /\ HeldInv /\ LoadedInv /\ [Next]_vars => LoadedInv'
  <2> SUFFICES ASSUME ReadInv, HeldInv, LoadedInv, [Next]_vars PROVE LoadedInv'
    OBVIOUS
  <2>1. CASE UNCHANGED <<schema, rows, ref, todo>>
             /\ (pc' \in {"relate", "commit", "done"} => pc \in {"relate", "commit", "done"})
    BY <2>1 DEF LoadedInv, Related, Loaded, StartOf, EndOf, Holds
  <2>2. CASE RunQuery
    BY <2>2 DEF RunQuery, Fails, LoadedInv
  <2>3. CASE Sort
    BY <2>3 DEF Sort, Fails, LoadedInv, Related
  <2>4. CASE Interrupted
    BY <2>4 DEF Interrupted, Fails, LoadedInv
  <2> QED BY <2>1, <2>2, <2>3, <2>4, RelateLoads DEF Next, Finish, Return, vars
<1>3. ReadInv /\ LoadedInv => LoadedWhereSaved
  <2> SUFFICES ASSUME ReadInv, LoadedInv, pc = "done", Distinct(schema),
                      NEW d \in At(schema, Parsed(schema)), NEW o \in OppositeOf(schema, d),
                      NEW n \in Node, NEW p \in Node, LabelOf[n] = d.owner, LabelOf[p] = d.target,
                      SavedAs(d, n, p) \in Related
               PROVE  Holds(ref, d, n, p) /\ Holds(ref, o, p, n)
    BY DEF LoadedWhereSaved, Holds
  <2>1. schema \in Schemas /\ todo = {}
    BY DEF ReadInv, RelsTyped
  <2>2. Loaded(schema, ref, SavedAs(d, n, p))
    BY <2>1 DEF LoadedInv
  <2> QED BY <2>1, <2>2, SavedConfigs DEF Loaded
<1> QED BY <1>1, <1>2, <1>3, ReadInvariant, LoadInvariant, PTL DEF Spec
===============================================================================
