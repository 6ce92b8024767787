--------------------------- MODULE ObjectStore_proofs ---------------------------
(***************************************************************************)
(* Theorems about saved objects and their nodes, for any objects, fields,  *)
(* labels, depths and number of attempts.                                  *)
(***************************************************************************)
EXTENDS ObjectStore, SaveWork_proofs

\* What a Save may do to ids and nodes: New objects N2 get the next id of theirs,
\* and when it returns nil their nodes are in the graph.
Creates(m, mk, g, N2, out) ==
    /\ N2 \subseteq {o \in Obj : m.id[o] = Nil}
    /\ out.mem \in Objects
    /\ out.mem.ref = m.ref
    /\ out.mem.id = [o \in Obj |-> IF o \in N2 THEN <<o, mk[o] + 1>> ELSE m.id[o]]
    /\ out.made = [o \in Obj |-> IF o \in N2 THEN mk[o] + 1 ELSE mk[o]]
    /\ out.graph \in Graph
    /\ out.graph.nodes \subseteq g.nodes \cup {out.mem.id[o] : o \in N2}
    /\ g.nodes \subseteq out.graph.nodes
    /\ out.ret = "nil" => {out.mem.id[o] : o \in N2} \subseteq out.graph.nodes
    /\ \A e \in out.graph.rels \ g.rels : e[2] \in out.graph.nodes /\ e[3] \in out.graph.nodes

LEMMA WithIdsTyped ==
    ASSUME NEW m \in Objects, NEW mk \in [Obj -> Nat], NEW N2
    PROVE  /\ WithIds(m, mk, N2) \in Objects
           /\ WithIds(m, mk, N2).ref = m.ref /\ WithIds(m, mk, N2).load = m.load
           /\ WithIds(m, mk, N2).id = [o \in Obj |-> IF o \in N2 THEN <<o, mk[o] + 1>> ELSE m.id[o]]
<1> DEFINE ids == [o \in Obj |-> IF o \in N2 THEN <<o, mk[o] + 1>> ELSE m.id[o]]
<1>1. WithIds(m, mk, N2) = [m EXCEPT !.id = ids] BY DEF WithIds
<1>2. ids \in [Obj -> Id \cup {Nil}] BY DEF Objects, Id
<1> HIDE DEF ids
<1>3. /\ [m EXCEPT !.id = ids] \in Objects
      /\ [m EXCEPT !.id = ids].ref = m.ref /\ [m EXCEPT !.id = ids].id = ids
      /\ [m EXCEPT !.id = ids].load = m.load
  BY <1>2 DEF Objects
<1> QED BY <1>1, <1>3 DEF ids

LEMMA WithLoadMapsTyped ==
    ASSUME NEW m \in Objects, NEW N2
    PROVE  /\ WithLoadMaps(m, N2) \in Objects
           /\ WithLoadMaps(m, N2).ref = m.ref /\ WithLoadMaps(m, N2).id = m.id
           /\ WithLoadMaps(m, N2).load = [o \in Obj |-> IF o \in N2 THEN CurRels(m, o) ELSE m.load[o]]
<1>1. \A o \in Obj : CurRels(m, o) \in [Field -> SUBSET Id]
  BY DEF CurRels, Objects
<1> QED BY <1>1 DEF WithLoadMaps, Objects

\* Deleting and merging relationships leaves the nodes alone.
LEMMA DeleteTyped ==
    ASSUME NEW g \in Graph, NEW D
    PROVE  /\ DeleteRels(g, D) \in Graph /\ DeleteRels(g, D).nodes = g.nodes
           /\ DeleteRels(g, D).rels = g.rels \ D
BY DEF DeleteRels, Graph

LEMMA MergeTyped ==
    ASSUME NEW g \in Graph, NEW R, \A e \in R : e[1] \in Type /\ e = <<e[1], e[2], e[3]>>
    PROVE  /\ MergeRels(g, R) \in Graph /\ MergeRels(g, R).nodes = g.nodes
           /\ MergeRels(g, R).rels = g.rels \cup {e \in R : e[2] \in g.nodes /\ e[3] \in g.nodes}
<1>1. ASSUME NEW e \in R, e[2] \in g.nodes, e[3] \in g.nodes PROVE e \in Type \X Id \X Id
  BY <1>1 DEF Graph
<1> QED BY <1>1 DEF MergeRels, Graph

\* The relationships a Save merges are typed, whatever it parsed.
LEMMA RelationsTyped ==
    ASSUME NEW m \in Objects, NEW r, NEW d, NEW e \in Relations(m, r, d)
    PROVE  e[1] \in Type
<1>1. PICK o, f : f \in Field /\ e \in {RelOf(o, f, p) : p \in m.ref[o][f]}
  BY DEF Relations
<1>2. PICK p : e = RelOf(o, f, p)
  BY <1>1
<1> QED BY <1>1, <1>2, SchemaIsTyped DEF RelOf

\* Made counts one more node for each object of S.
Counted(mk, S) == [o \in Obj |-> IF o \in S THEN mk[o] + 1 ELSE mk[o]]

\* A Save ends in createNodes, or goes on although that broke off, or after it.
LEMMA Shapes ==
    ASSUME NEW m, NEW mk, NEW g, NEW r, NEW d, NEW N, N = Parsed(m, r, d), NEW News, News = New(m, N),
           NEW out \in SaveOutcomes(m, mk, g, r, d)
    PROVE  \/ \E S \in SUBSET News : out = Outcome(WithIds(m, mk, S), Counted(mk, S), g, "failed")
           \/ \E S \in SUBSET News, T \in SUBSET N, ret \in {"failed", "lost"} :
                 out = Outcome(WithLoadMaps(WithIds(m, mk, S), T), Counted(mk, S), g, ret)
           \/ \E V : out \in AfterCreate(WithIds(m, mk, News), Counted(mk, News),
                                         CreateNodes(g, {WithIds(m, mk, News).id[o] : o \in News}),
                                         N, V, Relations(m, r, d))
<1> DEFINE rels == Relations(m, r, d)
           Broken(S, V) == AfterBroken(WithIds(m, mk, S), Counted(mk, S), g, N, V, rels)
           Finished(V) == AfterCreate(WithIds(m, mk, News), Counted(mk, News),
                                   CreateNodes(g, {WithIds(m, mk, News).id[o] : o \in News}), N, V, rels)
           Halves == {Outcome(WithIds(m, mk, S), Counted(mk, S), g, "failed") : S \in HalfCreated(News)}
           Brokens == UNION {UNION {Broken(S, V) : V \in Visited(WithIds(m, mk, S), r, d)}
                             : S \in LastBroken(N, News)}
           AllFinished == UNION {Finished(V) : V \in Visits(WithIds(m, mk, News), r, d)}
<1>1. SaveOutcomes(m, mk, g, r, d) = Halves \cup (Brokens \cup AllFinished)
  BY DEF SaveOutcomes, Counted
<1>2. out \in Halves => \E S \in SUBSET News : out = Outcome(WithIds(m, mk, S), Counted(mk, S), g, "failed")
  BY DEF HalfCreated
<1>3. out \in Brokens => \E S \in LastBroken(N, News) : \E V : out \in Broken(S, V)
  <2> HIDE DEF Broken
  <2> QED OBVIOUS
<1>4. out \in AllFinished => \E V : out \in Finished(V)
  <2> HIDE DEF Finished
  <2> QED OBVIOUS
<1>5. \/ \E S \in SUBSET News : out = Outcome(WithIds(m, mk, S), Counted(mk, S), g, "failed")
      \/ \E S \in LastBroken(N, News) : \E V : out \in Broken(S, V)
      \/ \E V : out \in AfterCreate(WithIds(m, mk, News), Counted(mk, News),
                                    CreateNodes(g, {WithIds(m, mk, News).id[o] : o \in News}), N, V, rels)
  <2> HIDE DEF Halves, Brokens, AllFinished
  <2> QED BY <1>1, <1>2, <1>3, <1>4
<1>6. LastBroken(N, News) \subseteq SUBSET News
  BY DEF LastBroken
<1>7. ASSUME NEW m1, NEW c, NEW V, out \in AfterBroken(m1, c, g, N, V, rels)
      PROVE  \E T \in SUBSET N, ret \in {"failed", "lost"} : out = Outcome(WithLoadMaps(m1, T), c, g, ret)
  <2> HIDE DEF rels
  <2>1. \/ \E T \in SUBSET (N \cap V) : out = Outcome(WithLoadMaps(m1, T), c, g, "failed")
        \/ out = Outcome(WithLoadMaps(m1, N), c, g, "lost")
        \/ out = Outcome(WithLoadMaps(m1, N), c, g, "failed")
    BY <1>7 DEF AfterBroken, Unmapped
  <2> QED BY <2>1
<1> QED BY <1>5, <1>6, <1>7

\* After createNodes relationships are removed and merged, if LoadMaps came first.
LEMMA ShapesAfterCreate ==
    ASSUME NEW m, NEW c, NEW g, NEW N, NEW V, NEW rels, NEW out \in AfterCreate(m, c, g, N, V, rels),
           NEW g2, g2 = DeleteRels(g, Removed(m, g, Dels(m, N)))
    PROVE  \/ \E T \in SUBSET N : \E ret : ret # "nil" /\ out = Outcome(WithLoadMaps(m, T), c, g, ret)
           \/ out = Outcome(WithLoadMaps(m, N), c, g2, "error")
           \/ out = Outcome(WithLoadMaps(m, N), c, MergeRels(g2, RelRows(WithLoadMaps(m, N), rels)), "nil")
<1>1. \/ \E T \in SUBSET (N \cap V) : out = Outcome(WithLoadMaps(m, T), c, g, "error")
      \/ out = Outcome(WithLoadMaps(m, N), c, g, "failed")
      \/ out = Outcome(WithLoadMaps(m, N), c, g, "lost")
      \/ out = Outcome(WithLoadMaps(m, N), c, g2, "error")
      \/ out = Outcome(WithLoadMaps(m, N), c, MergeRels(g2, RelRows(WithLoadMaps(m, N), rels)), "nil")
  BY DEF AfterCreate, Unmapped
<1> QED BY <1>1

\* Whatever Save did before it stopped, it created nodes for new objects only.
LEMMA Outcomes ==
    ASSUME NEW m \in Objects, NEW mk \in [Obj -> Nat], NEW g \in Graph, NEW r, NEW d,
           NEW out \in SaveOutcomes(m, mk, g, r, d)
    PROVE  \E N2 : Creates(m, mk, g, N2, out)
<1> DEFINE N     == Parsed(m, r, d)
           News  == New(m, N)
           m1    == WithIds(m, mk, News)
           g1    == CreateNodes(g, {m1.id[o] : o \in News})
           rels  == Relations(m, r, d)
<1>1. \/ \E S \in SUBSET News : out = Outcome(WithIds(m, mk, S), Counted(mk, S), g, "failed")
      \/ \E S \in SUBSET News, T \in SUBSET N, ret \in {"failed", "lost"} :
            out = Outcome(WithLoadMaps(WithIds(m, mk, S), T), Counted(mk, S), g, ret)
      \/ \E V : out \in AfterCreate(m1, Counted(mk, News), g1, N, V, rels)
  BY Shapes
<1>2. News \subseteq {o \in Obj : m.id[o] = Nil}
  BY DEF New, Parsed
<1>3. \A S : /\ WithIds(m, mk, S) \in Objects /\ WithIds(m, mk, S).ref = m.ref
              /\ WithIds(m, mk, S).id = [o \in Obj |-> IF o \in S THEN <<o, mk[o] + 1>> ELSE m.id[o]]
  BY WithIdsTyped
<1>4. ASSUME NEW S \in SUBSET News, NEW m2 \in Objects, m2.ref = m.ref, m2.id = WithIds(m, mk, S).id,
             NEW ret, ret # "nil", out = Outcome(m2, Counted(mk, S), g, ret)
      PROVE  Creates(m, mk, g, S, out)
  <2>1. out.mem = m2 /\ out.made = Counted(mk, S) /\ out.graph = g /\ out.ret = ret
    BY <1>4 DEF Outcome
  <2>2. m2.id = [o \in Obj |-> IF o \in S THEN <<o, mk[o] + 1>> ELSE m.id[o]]
    BY <1>4, <1>3
  <2> QED BY <1>2, <1>4, <2>1, <2>2 DEF Creates, Counted
<1>5. m1 \in Objects /\ m1.ref = m.ref
      /\ m1.id = [o \in Obj |-> IF o \in News THEN <<o, mk[o] + 1>> ELSE m.id[o]]
  BY WithIdsTyped
<1>6. {m1.id[o] : o \in News} \subseteq Id
  BY <1>2, <1>5 DEF Id
<1>7. g1 \in Graph /\ g1.nodes = g.nodes \cup {m1.id[o] : o \in News} /\ g1.rels = g.rels
  BY <1>6 DEF CreateNodes, Graph
<1>8. \A e \in RelRows(WithLoadMaps(m1, N), rels) : e[1] \in Type /\ e = <<e[1], e[2], e[3]>>
  BY RelationsTyped DEF RelRows
<1>9. ASSUME NEW m2 \in Objects, m2.ref = m1.ref, m2.id = m1.id,
             NEW g2 \in Graph, g2.nodes = g1.nodes, NEW ret,
             \A e \in g2.rels \ g.rels : e[2] \in g2.nodes /\ e[3] \in g2.nodes
      PROVE  Creates(m, mk, g, News, Outcome(m2, Counted(mk, News), g2, ret))
  <2> DEFINE out2 == Outcome(m2, Counted(mk, News), g2, ret)
  <2> SUFFICES Creates(m, mk, g, News, out2) OBVIOUS
  <2>1. out2.mem = m2 /\ out2.made = Counted(mk, News) /\ out2.graph = g2 /\ out2.ret = ret
    BY DEF Outcome
  <2>2. out2.mem.id = [o \in Obj |-> IF o \in News THEN <<o, mk[o] + 1>> ELSE m.id[o]]
    BY <1>5, <1>9, <2>1
  <2>3. out2.graph.nodes = g.nodes \cup {out2.mem.id[o] : o \in News}
    BY <1>7, <1>9, <2>1
  <2>4. out2.mem.ref = m.ref /\ out2.made = [o \in Obj |-> IF o \in News THEN mk[o] + 1 ELSE mk[o]]
    BY <1>5, <1>9, <2>1 DEF Counted
  <2>5. out2.mem \in Objects /\ out2.graph \in Graph
    BY <1>9, <2>1
  <2>6. \A e \in out2.graph.rels \ g.rels : e[2] \in out2.graph.nodes /\ e[3] \in out2.graph.nodes
    BY <1>9, <2>1
  <2> HIDE DEF out2, m1, News, g1
  <2> QED BY <1>2, <2>2, <2>3, <2>4, <2>5, <2>6 DEF Creates
<1> HIDE DEF N, News, m1, g1, rels
<1>10. ASSUME NEW V, out \in AfterCreate(m1, Counted(mk, News), g1, N, V, rels)
      PROVE  Creates(m, mk, g, News, out)
  <2> DEFINE c  == Counted(mk, News)
             m2 == WithLoadMaps(m1, N)
             gone == Removed(m1, g1, Dels(m1, N))
             g2 == DeleteRels(g1, gone)
             g3 == MergeRels(g2, RelRows(m2, rels))
  <2>1. out \in AfterCreate(m1, c, g1, N, V, rels)
    BY <1>10
  <2>2. \A S : /\ WithLoadMaps(m1, S) \in Objects
               /\ WithLoadMaps(m1, S).ref = m1.ref /\ WithLoadMaps(m1, S).id = m1.id
    BY <1>5, WithLoadMapsTyped
  <2>3. g2 \in Graph /\ g2.nodes = g1.nodes /\ g2.rels \subseteq g.rels
    BY <1>7, DeleteTyped
  <2>4. g2 = DeleteRels(g1, Removed(m1, g1, Dels(m1, N)))
    OBVIOUS
  <2> HIDE DEF g2, c
  <2>5. \/ \E S, ret : out = Outcome(WithLoadMaps(m1, S), c, g1, ret)
        \/ \E ret : out = Outcome(m2, c, g2, ret)
        \/ out = Outcome(m2, c, g3, "nil")
    BY <2>1, <2>4, ShapesAfterCreate
  <2>6. g3 \in Graph /\ g3.nodes = g1.nodes
        /\ \A e \in g3.rels \ g.rels : e[2] \in g3.nodes /\ e[3] \in g3.nodes
    BY <2>3, <1>8, MergeTyped
  <2>7. ASSUME NEW S, NEW ret, out = Outcome(WithLoadMaps(m1, S), c, g1, ret)
        PROVE  Creates(m, mk, g, News, out)
    BY <2>2, <2>7, <1>7, <1>9 DEF c
  <2>8. ASSUME NEW ret, out = Outcome(m2, c, g2, ret)
        PROVE  Creates(m, mk, g, News, out)
    BY <2>2, <2>3, <2>8, <1>9 DEF c
  <2>9. ASSUME out = Outcome(m2, c, g3, "nil")
        PROVE  Creates(m, mk, g, News, out)
    BY <2>2, <2>6, <2>9, <1>9 DEF c
  <2> QED BY <2>5, <2>7, <2>8, <2>9
<1>11. ASSUME NEW S \in SUBSET News, out = Outcome(WithIds(m, mk, S), Counted(mk, S), g, "failed")
       PROVE  Creates(m, mk, g, S, out)
  BY <1>4, <1>11, <1>3
<1>12. ASSUME NEW S \in SUBSET News, NEW T \in SUBSET N, NEW ret \in {"failed", "lost"},
              out = Outcome(WithLoadMaps(WithIds(m, mk, S), T), Counted(mk, S), g, ret)
       PROVE  Creates(m, mk, g, S, out)
  <2> DEFINE w == WithIds(m, mk, S)
  <2>1. w \in Objects /\ w.ref = m.ref
    BY <1>3
  <2> HIDE DEF w
  <2>2. /\ WithLoadMaps(w, T) \in Objects
        /\ WithLoadMaps(w, T).ref = w.ref /\ WithLoadMaps(w, T).id = w.id
    BY <2>1, WithLoadMapsTyped
  <2> QED BY <1>4, <1>12, <2>1, <2>2 DEF w
<1> QED BY <1>1, <1>10, <1>11, <1>12

\* Initially no object has an id and no graph a node.
LEMMA StoreInvInit == Init => StoreInv
<1> SUFFICES ASSUME Init PROVE StoreInv OBVIOUS
<1>1. TypeOK
  BY BoundsAreNat DEF Init, TypeOK, Objects, Graph, EmptyGraph, NoTx
<1> QED BY <1>1 DEF Init, StoreInv, Apart, IdsAreOwn, Owned, Joined, IdMeansStored, EmptyGraph, NoTx

\* The caller's edits touch references only.
LEMMA Edits ==
    ASSUME StoreInv, NEW ref \in [Obj -> [Field -> SUBSET Obj]], Edit(ref)
    PROVE  StoreInv'
<1>1. mem' \in Objects /\ mem'.id = mem.id
  BY DEF StoreInv, TypeOK, Objects, Edit
<1>2. edits' \in Nat
  BY DEF StoreInv, TypeOK, Edit
<1> QED BY <1>1, <1>2 DEF StoreInv, TypeOK, Edit, Apart, IdsAreOwn, Owned, Joined, IdMeansStored, Stored, View

\* A Save on graph g never takes an id from an object or gives one out twice, so
\* the nodes of every graph stay owned.
LEMMA SavesOwn ==
    ASSUME StoreInv, NEW g \in Graph, Owned(g), Joined(g), NEW r, NEW d,
           NEW out \in SaveOutcomes(mem, made, g, r, d), mem' = out.mem, made' = out.made
    PROVE  /\ mem' \in Objects /\ made' \in [Obj -> Nat] /\ out.graph \in Graph
           /\ \A h \in Graph : Owned(h) => Owned(h)'
           /\ Owned(out.graph)' /\ Joined(out.graph)' /\ IdsAreOwn'
           /\ out.ret = "nil" =>
                 \A o \in Obj : mem'.id[o] # Nil /\ (mem.id[o] # Nil => mem.id[o] \in g.nodes)
                                => mem'.id[o] \in out.graph.nodes
<1>1. mem \in Objects /\ made \in [Obj -> Nat]
  BY DEF StoreInv, TypeOK
<1>2. PICK N2 : Creates(mem, made, g, N2, out)
  BY <1>1, Outcomes
<1>3. mem' \in Objects /\ made' \in [Obj -> Nat] /\ out.graph \in Graph
  BY <1>1, <1>2 DEF Creates
<1>4. \A o \in Obj : mem.id[o] # Nil => mem'.id[o] = mem.id[o]
  BY <1>2 DEF Creates
<1>5. \A o \in N2 : o \in Obj /\ mem'.id[o] \in Id /\ mem'.id[o][1] = o
  BY <1>1, <1>2 DEF Creates, Id
<1>6. ASSUME NEW h \in Graph, Owned(h), NEW i \in h.nodes PROVE mem'.id[i[1]] = i
  <2>1. i[1] \in Obj /\ mem.id[i[1]] = i /\ i # Nil
    BY <1>6, NilIsNoId DEF Owned, Graph, Id
  <2> QED BY <2>1, <1>4
<1>7. ASSUME NEW i \in out.graph.nodes PROVE mem'.id[i[1]] = i
  BY <1>2, <1>5, <1>6, <1>7 DEF Creates
<1>8. ASSUME out.ret = "nil", NEW o \in Obj, mem'.id[o] # Nil, mem.id[o] # Nil => mem.id[o] \in g.nodes
      PROVE  mem'.id[o] \in out.graph.nodes
  <2>1. g.nodes \cup {out.mem.id[n] : n \in N2} \subseteq out.graph.nodes
    BY <1>2, <1>8 DEF Creates
  <2>2. o \in N2 \/ mem'.id[o] = mem.id[o]
    BY <1>2 DEF Creates
  <2> QED BY <1>8, <2>1, <2>2
<1>9. (\A h \in Graph : Owned(h) => Owned(h)') /\ Owned(out.graph)'
  BY <1>6, <1>7 DEF Owned
<1>10. IdsAreOwn'
  BY <1>2, <1>5 DEF Creates, IdsAreOwn, StoreInv
<1>11. Joined(out.graph)'
  BY <1>2 DEF Creates, Joined
<1> QED BY <1>3, <1>8, <1>9, <1>10, <1>11

\* An attempt of the driver, whether or not its commit is applied.
LEMMA Attempts ==
    ASSUME StoreInv, Attempt
    PROVE  StoreInv'
<1>1. PICK out \in SaveOutcomes(mem, made, db, task.root, task.depth) :
         /\ mem' = out.mem /\ made' = out.made
         /\ \/ /\ out.ret = "nil" /\ db' = out.graph /\ task' = Nil /\ UNCHANGED clean
            \/ /\ db' \in {db, out.graph} /\ clean' = FALSE
               /\ \E left \in {0, task.left - 1} : task' = [task EXCEPT !.left = left]
  BY DEF Attempt
<1>2. tx.state = "none" /\ tx' = tx /\ edits' = edits /\ task # Nil /\ task.left > 0
  BY DEF Attempt, StoreInv, Apart
<1>3. /\ db \in Graph /\ Owned(db) /\ tx.graph \in Graph /\ Owned(tx.graph)
      /\ Joined(db) /\ Joined(tx.graph)
  BY DEF StoreInv, TypeOK
<1>4. /\ mem' \in Objects /\ made' \in [Obj -> Nat] /\ out.graph \in Graph
      /\ Owned(db)' /\ Owned(tx.graph)' /\ Joined(db)' /\ Joined(tx.graph)' /\ IdsAreOwn'
      /\ out.ret = "nil" =>
            \A o \in Obj : mem'.id[o] # Nil /\ (mem.id[o] # Nil => mem.id[o] \in db.nodes)
                           => mem'.id[o] \in out.graph.nodes
  BY <1>1, <1>2, <1>3, SavesOwn DEF Owned, Joined
<1>5. task' = Nil \/ task' \in [root : Obj, depth : Depths, left : 0..MaxAttempts,
                                  began : [Obj -> [Field -> SUBSET Id]]]
  <2>1. task \in [root : Obj, depth : Depths, left : 0..MaxAttempts,
                  began : [Obj -> [Field -> SUBSET Id]]]
    BY <1>2 DEF StoreInv, TypeOK
  <2> DEFINE B == [Obj -> [Field -> SUBSET Id]]
  <2> HIDE DEF B
  <2>2. task \in [root : Obj, depth : Depths, left : 0..MaxAttempts, began : B]
    BY <2>1 DEF B
  <2>3. task' = Nil \/ \E left \in 0..MaxAttempts : task' = [task EXCEPT !.left = left]
    BY <1>1, <1>2, <2>2, BoundsAreNat
  <2>4. task' = Nil \/ task' \in [root : Obj, depth : Depths, left : 0..MaxAttempts, began : B]
    BY <2>2, <2>3
  <2> QED BY <2>4 DEF B
<1>6. TypeOK' /\ Apart'
  BY <1>1, <1>2, <1>3, <1>4, <1>5 DEF StoreInv, TypeOK, Apart
<1>7. IdMeansStored'
  BY <1>1, <1>2, <1>4 DEF StoreInv, IdMeansStored, Stored, View
<1> QED BY <1>2, <1>4, <1>6, <1>7 DEF StoreInv

\* A Save inside the explicit transaction.
LEMMA SavesInTx ==
    ASSUME StoreInv, NEW r \in Obj, NEW d \in Depths, SaveInTx(r, d)
    PROVE  StoreInv'
<1>1. PICK out \in SaveOutcomes(mem, made, tx.graph, r, d) :
         /\ mem' = out.mem /\ made' = out.made
         /\ tx' = [state |-> IF out.ret \in {"failed", "lost"} THEN "failed" ELSE "open",
                   graph |-> out.graph]
         /\ clean' = (clean /\ out.ret = "nil")
  BY DEF SaveInTx
<1>2. tx.state = "open" /\ task = Nil /\ task' = Nil /\ db' = db /\ edits' = edits
  BY DEF SaveInTx
<1>3. /\ db \in Graph /\ Owned(db) /\ tx.graph \in Graph /\ Owned(tx.graph)
      /\ Joined(db) /\ Joined(tx.graph)
  BY DEF StoreInv, TypeOK
<1>4. /\ mem' \in Objects /\ made' \in [Obj -> Nat] /\ out.graph \in Graph
      /\ Owned(db)' /\ Owned(out.graph)' /\ Joined(db)' /\ Joined(out.graph)' /\ IdsAreOwn'
      /\ out.ret = "nil" =>
            \A o \in Obj : mem'.id[o] # Nil /\ (mem.id[o] # Nil => mem.id[o] \in tx.graph.nodes)
                           => mem'.id[o] \in out.graph.nodes
  BY <1>1, <1>2, <1>3, SavesOwn DEF Owned, Joined
<1>5. tx' \in [state : {"none", "open", "failed"}, graph : Graph] /\ tx'.graph = out.graph
      /\ tx'.state # "none"
  BY <1>1, <1>4
<1>6. TypeOK' /\ Apart' /\ Owned(tx.graph)' /\ Joined(tx.graph)'
  BY <1>1, <1>2, <1>3, <1>4, <1>5 DEF StoreInv, TypeOK, Apart, Owned, Joined
<1>7. IdMeansStored'
  BY <1>1, <1>2, <1>4, <1>5 DEF StoreInv, IdMeansStored, Stored, View
<1> QED BY <1>4, <1>6, <1>7 DEF StoreInv

\* Starting or giving up a Save, and Begin, Commit and Rollback, move graphs about.
LEMMA TxMoves ==
    ASSUME StoreInv,
           \/ \E r \in Obj, d \in Depths : StartSave(r, d)
           \/ GiveUp \/ Begin \/ Commit \/ Rollback
    PROVE  StoreInv'
<1>1. EmptyGraph \in Graph /\ Owned(EmptyGraph)' /\ Joined(EmptyGraph)'
  BY DEF EmptyGraph, Graph, Owned, Joined
<1>2. /\ mem' = mem /\ made' = made /\ edits' = edits
      /\ db' \in {db, tx.graph}
      /\ tx'.graph \in {tx.graph, db, EmptyGraph}
      /\ tx' \in [state : {"none", "open", "failed"}, graph : Graph]
  BY <1>1 DEF StoreInv, TypeOK, StartSave, GiveUp, Begin, Commit, Rollback, NoTx
<1>3. task' = Nil \/ task' \in [root : Obj, depth : Depths, left : 0..MaxAttempts,
                                  began : [Obj -> [Field -> SUBSET Id]]]
  BY BoundsAreNat DEF StoreInv, TypeOK, Objects, StartSave, GiveUp, Begin, Commit, Rollback
<1>4. clean' = FALSE \/ (clean' = clean /\ View' = View)
  <2>1. CASE (\E r \in Obj, d \in Depths : StartSave(r, d)) \/ GiveUp
    BY <2>1 DEF View, StartSave, GiveUp
  <2>2. CASE Begin
    <3>1. tx.state = "none" /\ tx'.state = "open" /\ tx'.graph = db /\ clean' = clean
      BY <2>2 DEF Begin
    <3> QED BY <3>1 DEF View
  <2>3. CASE Commit
    <3>1. clean' = FALSE \/ (tx.state = "open" /\ db' = tx.graph /\ tx'.state = "none" /\ clean' = clean)
      BY <2>3 DEF Commit, NoTx
    <3> QED BY <3>1 DEF View
  <2>4. CASE Rollback
    BY <2>4 DEF Rollback
  <2> QED BY <2>1, <2>2, <2>3, <2>4
<1>5. clean' \in BOOLEAN /\ Apart'
  BY DEF StoreInv, TypeOK, Apart, StartSave, GiveUp, Begin, Commit, Rollback
<1>6. TypeOK' /\ IdsAreOwn' /\ Owned(db)' /\ Owned(tx.graph)' /\ Joined(db)' /\ Joined(tx.graph)'
  BY <1>1, <1>2, <1>3, <1>5 DEF StoreInv, TypeOK, IdsAreOwn, Owned, Joined
<1>7. IdMeansStored'
  BY <1>2, <1>4 DEF StoreInv, IdMeansStored, Stored
<1> QED BY <1>5, <1>6, <1>7 DEF StoreInv

\* Deleting takes nodes away.
LEMMA Deletes ==
    ASSUME StoreInv, NEW o \in Obj, Delete(o)
    PROVE  StoreInv'
<1> DEFINE Less(h, g) == h \in Graph /\ h.nodes \subseteq g.nodes /\ (Joined(g) => Joined(h))
<1>1. \A g \in Graph : \A i : Less(DetachDelete(g, i), g)
  BY DEF DetachDelete, Graph, Joined
<1>2. Less(db', db) /\ Less(tx'.graph, tx.graph)
  BY <1>1 DEF StoreInv, TypeOK, Delete
<1>3. tx' \in [state : {"none", "open", "failed"}, graph : Graph]
  BY <1>1 DEF StoreInv, TypeOK, Delete
<1>4. mem' = mem /\ made' = made /\ task' = Nil /\ clean' = FALSE /\ edits' = edits
  BY DEF Delete
<1> QED BY <1>2, <1>3, <1>4 DEF StoreInv, TypeOK, Apart, IdsAreOwn, Owned, Joined, IdMeansStored

\* Every step keeps the invariant.
LEMMA StoreInvStep == StoreInv /\ [Next]_vars => StoreInv'
<1> SUFFICES ASSUME StoreInv, [Next]_vars PROVE StoreInv' OBVIOUS
<1>1. CASE \E o \in Obj, f \in Field :
              \/ \E S \in SUBSET (Obj \ {o}) : SetOneSide(o, f, S)
              \/ \E p \in Obj \ {o} : Link(o, f, p) \/ Unlink(o, f, p)
  <2>1. mem.ref \in [Obj -> [Field -> SUBSET Obj]]
    BY DEF StoreInv, TypeOK, Objects
  <2>2. PICK ref : ref \in [Obj -> [Field -> SUBSET Obj]] /\ Edit(ref)
    <3>1. ASSUME NEW o \in Obj, NEW f \in Field, NEW S \in SUBSET (Obj \ {o}), SetOneSide(o, f, S)
          PROVE  \E ref : ref \in [Obj -> [Field -> SUBSET Obj]] /\ Edit(ref)
      BY <2>1, <3>1 DEF SetOneSide
    <3>2. ASSUME NEW o \in Obj, NEW f \in Field, NEW p \in Obj \ {o}, Link(o, f, p)
          PROVE  \E ref : ref \in [Obj -> [Field -> SUBSET Obj]] /\ Edit(ref)
      BY <2>1, <3>2, OppositeIsField DEF Link
    <3>3. ASSUME NEW o \in Obj, NEW f \in Field, NEW p \in Obj \ {o}, Unlink(o, f, p)
          PROVE  \E ref : ref \in [Obj -> [Field -> SUBSET Obj]] /\ Edit(ref)
      BY <2>1, <3>3, OppositeIsField DEF Unlink
    <3> QED BY <1>1, <3>1, <3>2, <3>3
  <2> QED BY <2>2, Edits
<1>2. CASE \E r \in Obj, d \in Depths : SaveInTx(r, d)
  BY <1>2, SavesInTx
<1>3. CASE Attempt
  BY <1>3, Attempts
<1>4. CASE (\E r \in Obj, d \in Depths : StartSave(r, d)) \/ GiveUp \/ Begin \/ Commit \/ Rollback
  BY <1>4, TxMoves
<1>5. CASE \E o \in Obj : Delete(o)
  BY <1>5, Deletes
<1>6. CASE UNCHANGED vars
  BY <1>6 DEF vars, StoreInv, TypeOK, Apart, IdsAreOwn, Owned, Joined, IdMeansStored, Stored, View
<1> QED BY <1>1, <1>2, <1>3, <1>4, <1>5, <1>6 DEF Next

\* In every reachable state memory and graphs fit together as StoreInv says: through
\* retries, rollbacks, lost commits and deletes.
THEOREM StoreInvariant == Spec => []StoreInv
BY StoreInvInit, StoreInvStep, PTL DEF Spec

\* The variables keep their types (TypeOK): saves, edits and transactions produce
\* no half-made object or graph.
THEOREM StoreTypeCorrect == Spec => []TypeOK
<1>1. StoreInv => TypeOK BY DEF StoreInv
<1> QED BY <1>1, StoreInvariant, PTL

\* Until something fails, is rolled back or deleted, an object with an Id has its
\* node in the graph the session sees (IdMeansStored).
THEOREM IdsAreStored == Spec => []IdMeansStored
<1>1. StoreInv => IdMeansStored BY DEF StoreInv
<1> QED BY <1>1, StoreInvariant, PTL

\* No sequence of saves, attempts, rollbacks and deletes ever stores two nodes for
\* one object, in the database or in the open transaction (OneNodePerObject).
THEOREM NoObjectIsStoredTwice == Spec => []OneNodePerObject
<1>1. StoreInv => OneNodePerObject BY DEF StoreInv, Owned, OneNodePerObject
<1> QED BY <1>1, StoreInvariant, PTL

-------------------------------------------------------------------------------
(* What a Save removes, adds and leaves alone.                                  *)

\* The objects with the ids of a Save that created all its nodes, and their graph.
Created(m, mk, N) == WithIds(m, mk, New(m, N))
CreatedIn(m, mk, g, N) == CreateNodes(g, {Created(m, mk, N).id[o] : o \in New(m, N)})

\* The graph after the statement that removes relationships.
RemovedIn(m, mk, g, N) ==
    LET m1 == Created(m, mk, N)
    IN  DeleteRels(CreatedIn(m, mk, g, N), Removed(m1, CreatedIn(m, mk, g, N), Dels(m1, N)))

\* How a Save may end: with a createNodes that broke off, before it removes
\* relationships, after it has, or with all its work done.
Half(m, mk, g, N, out) ==
    /\ \E S \in SUBSET New(m, N), T \in SUBSET N :
          out.mem \in {WithIds(m, mk, S), WithLoadMaps(WithIds(m, mk, S), T)}
    /\ out.graph = g /\ out.ret # "nil"
Early(m, mk, g, N, out) ==
    /\ \E S \in SUBSET N : out.mem = WithLoadMaps(Created(m, mk, N), S)
    /\ out.graph = CreatedIn(m, mk, g, N) /\ out.ret # "nil"
Late(m, mk, g, N, out) ==
    /\ out.mem = WithLoadMaps(Created(m, mk, N), N)
    /\ out.graph = RemovedIn(m, mk, g, N) /\ out.ret # "nil"
Whole(m, mk, g, N, rels, out) ==
    /\ out.mem = WithLoadMaps(Created(m, mk, N), N)
    /\ out.graph = MergeRels(RemovedIn(m, mk, g, N), RelRows(out.mem, rels))
    /\ out.ret = "nil"

LEMMA Endings ==
    ASSUME NEW m, NEW mk, NEW g, NEW r, NEW d, NEW N, N = Parsed(m, r, d),
           NEW out \in SaveOutcomes(m, mk, g, r, d)
    PROVE  \/ Half(m, mk, g, N, out) \/ Early(m, mk, g, N, out) \/ Late(m, mk, g, N, out)
           \/ Whole(m, mk, g, N, Relations(m, r, d), out)
<1> DEFINE News  == New(m, N)
           m1    == Created(m, mk, N)
           g1    == CreatedIn(m, mk, g, N)
           rels  == Relations(m, r, d)
<1>1. \/ \E S \in SUBSET News : out = Outcome(WithIds(m, mk, S), Counted(mk, S), g, "failed")
      \/ \E S \in SUBSET News, T \in SUBSET N, ret \in {"failed", "lost"} :
            out = Outcome(WithLoadMaps(WithIds(m, mk, S), T), Counted(mk, S), g, ret)
      \/ \E V : out \in AfterCreate(m1, Counted(mk, News), g1, N, V, rels)
  BY Shapes DEF Created, CreatedIn
<1>2. ASSUME NEW S \in SUBSET News, NEW T \in SUBSET N, NEW ret, ret # "nil", NEW m2, NEW c,
             m2 \in {WithIds(m, mk, S), WithLoadMaps(WithIds(m, mk, S), T)},
             out = Outcome(m2, c, g, ret)
      PROVE  Half(m, mk, g, N, out)
  <2>1. out.mem = m2 /\ out.graph = g /\ out.ret = ret
    BY <1>2 DEF Outcome
  <2> QED BY <1>2, <2>1 DEF Half
<1>3. ASSUME NEW V, out \in AfterCreate(m1, Counted(mk, News), g1, N, V, rels)
      PROVE  \/ Early(m, mk, g, N, out) \/ Late(m, mk, g, N, out) \/ Whole(m, mk, g, N, rels, out)
  <2> DEFINE c == Counted(mk, News)
             g2 == RemovedIn(m, mk, g, N)
             m2 == WithLoadMaps(m1, N)
  <2>1. out \in AfterCreate(m1, c, g1, N, V, rels)
    BY <1>3
  <2>2. g2 = DeleteRels(g1, Removed(m1, g1, Dels(m1, N)))
    BY DEF RemovedIn
  <2> HIDE DEF c, rels, m1, g1, g2
  <2>3. \/ \E S \in SUBSET N : \E ret : ret # "nil" /\ out = Outcome(WithLoadMaps(m1, S), c, g1, ret)
        \/ out = Outcome(m2, c, g2, "error")
        \/ out = Outcome(m2, c, MergeRels(g2, RelRows(m2, rels)), "nil")
    BY <2>1, <2>2, ShapesAfterCreate
  <2>4. ASSUME NEW S \in SUBSET N, NEW ret, ret # "nil", out = Outcome(WithLoadMaps(m1, S), c, g1, ret)
        PROVE  Early(m, mk, g, N, out)
    <3>1. out.mem = WithLoadMaps(m1, S) /\ out.graph = g1 /\ out.ret = ret
      BY <2>4 DEF Outcome
    <3> QED BY <3>1, <2>4 DEF Early, m1, g1
  <2>5. ASSUME out = Outcome(m2, c, g2, "error")
        PROVE  Late(m, mk, g, N, out)
    <3>1. out.mem = m2 /\ out.graph = g2 /\ out.ret = "error"
      BY <2>5 DEF Outcome
    <3> QED BY <3>1 DEF Late, m1, g2
  <2>6. ASSUME out = Outcome(m2, c, MergeRels(g2, RelRows(m2, rels)), "nil")
        PROVE  Whole(m, mk, g, N, rels, out)
    <3>1. out.mem = m2 /\ out.graph = MergeRels(g2, RelRows(m2, rels)) /\ out.ret = "nil"
      BY <2>6 DEF Outcome
    <3> QED BY <3>1 DEF Whole, m1, g2
  <2> QED BY <2>3, <2>4, <2>5, <2>6
<1>4. ASSUME NEW S \in SUBSET News, out = Outcome(WithIds(m, mk, S), Counted(mk, S), g, "failed")
      PROVE  Half(m, mk, g, N, out)
  <2>1. {} \in SUBSET N
    OBVIOUS
  <2> QED BY <1>2, <1>4, <2>1
<1> QED BY <1>1, <1>2, <1>3, <1>4

\* The parts of an ending: ids and LoadMaps, nodes, relationships.
LEMMA CreatedParts ==
    ASSUME NEW m \in Objects, NEW mk \in [Obj -> Nat], NEW N \in SUBSET Obj
    PROVE  LET m1 == Created(m, mk, N)
           IN  /\ m1 \in Objects /\ m1.ref = m.ref /\ m1.load = m.load
               /\ m1.id = [o \in Obj |-> IF o \in New(m, N) THEN <<o, mk[o] + 1>> ELSE m.id[o]]
               /\ \A o \in N : m1.id[o] \in Id
<1> DEFINE m1 == Created(m, mk, N)
<1>1. /\ m1 \in Objects /\ m1.ref = m.ref /\ m1.load = m.load
      /\ m1.id = [o \in Obj |-> IF o \in New(m, N) THEN <<o, mk[o] + 1>> ELSE m.id[o]]
  BY WithIdsTyped DEF Created
<1>2. \A o \in N : m1.id[o] \in Id
  BY <1>1 DEF New, Id, Objects
<1> QED BY <1>1, <1>2

LEMMA Parts ==
    ASSUME NEW m \in Objects, NEW mk \in [Obj -> Nat], NEW g \in Graph, NEW N \in SUBSET Obj
    PROVE  LET m1 == Created(m, mk, N)
               g1 == CreatedIn(m, mk, g, N)
           IN  /\ g1 \in Graph /\ g1.rels = g.rels
               /\ g1.nodes = g.nodes \cup {m1.id[o] : o \in New(m, N)}
               /\ RemovedIn(m, mk, g, N) \in Graph
               /\ RemovedIn(m, mk, g, N).nodes = g1.nodes
               /\ RemovedIn(m, mk, g, N).rels = g.rels \ Removed(m1, g1, Dels(m1, N))
<1> DEFINE m1 == Created(m, mk, N)
           g1 == CreatedIn(m, mk, g, N)
           ids == {m1.id[o] : o \in New(m, N)}
<1>1. \A o \in N : m1.id[o] \in Id
  BY CreatedParts
<1>2. ids \subseteq Id
  BY <1>1 DEF New
<1>3. g1 = CreateNodes(g, ids)
  BY DEF CreatedIn
<1> HIDE DEF m1, ids, g1
<1>4. g1 \in Graph /\ g1.rels = g.rels /\ g1.nodes = g.nodes \cup ids
  BY <1>2, <1>3 DEF CreateNodes, Graph
<1>5. RemovedIn(m, mk, g, N) = DeleteRels(g1, Removed(m1, g1, Dels(m1, N)))
  BY DEF RemovedIn, m1, g1
<1>6. /\ RemovedIn(m, mk, g, N) \in Graph
      /\ RemovedIn(m, mk, g, N).nodes = g1.nodes
      /\ RemovedIn(m, mk, g, N).rels = g.rels \ Removed(m1, g1, Dels(m1, N))
  BY <1>4, <1>5, DeleteTyped
<1> QED BY <1>4, <1>6 DEF m1, g1, ids

OwnedBy(m, g) == \A i \in g.nodes : m.id[i[1]] = i

\* What no Save touches: ids and LoadMaps of objects it did not parse, nodes that are
\* there, relationships but those of its own and those a LoadMap of its objects names.
Frames(m, g, N, rels, out) ==
    /\ out.mem.ref = m.ref
    /\ \A o \in Obj \ N : out.mem.id[o] = m.id[o] /\ out.mem.load[o] = m.load[o]
    /\ g.nodes \subseteq out.graph.nodes
    /\ out.graph.nodes \ g.nodes \subseteq {out.mem.id[o] : o \in N}
    /\ out.graph.rels \ g.rels \subseteq RelRows(out.mem, rels)
    /\ \A e \in g.rels \ out.graph.rels : \E o \in N, f \in Field : \E i \in m.load[o][f] :
          <<e[2], e[3]>> = <<m.id[o], i>> \/ <<e[3], e[2]>> = <<m.id[o], i>>

\* A removed relationship is one that a LoadMap names: a new node cannot have had it.
LEMMA RemovesLoaded ==
    ASSUME NEW m \in Objects, NEW mk \in [Obj -> Nat], NEW g \in Graph, NEW N \in SUBSET Obj,
           OwnedBy(m, g), Joined(g),
           NEW e \in Removed(Created(m, mk, N), CreatedIn(m, mk, g, N), Dels(Created(m, mk, N), N))
    PROVE  \E o \in N, f \in Field : \E i \in m.load[o][f] :
              <<e[2], e[3]>> = <<m.id[o], i>> \/ <<e[3], e[2]>> = <<m.id[o], i>>
<1> DEFINE m1 == Created(m, mk, N)
<1>1. /\ m1.id = [o \in Obj |-> IF o \in New(m, N) THEN <<o, mk[o] + 1>> ELSE m.id[o]]
      /\ m1.load = m.load /\ CreatedIn(m, mk, g, N).rels = g.rels
  BY CreatedParts, Parts
<1> HIDE DEF m1
<1>2. PICK x \in Dels(m1, N) : /\ e \in g.rels
                               /\ \/ <<e[2], e[3]>> = <<m1.id[x[1]], x[3]>>
                                  \/ <<e[3], e[2]>> = <<m1.id[x[1]], x[3]>>
  BY <1>1 DEF Removed, Between, m1
<1>3. x[1] \in N /\ x[2] \in Field /\ x[3] \in m.load[x[1]][x[2]]
  BY <1>1 DEF Dels
<1>4. m1.id[x[1]] \in g.nodes
  BY <1>2 DEF Joined
<1>5. m1.id[x[1]] = m.id[x[1]]
  <2> SUFFICES ASSUME x[1] \in New(m, N) PROVE FALSE
    BY <1>1, <1>3
  <2>1. m1.id[x[1]] = <<x[1], mk[x[1]] + 1>> /\ m.id[x[1]] = Nil /\ x[1] \in Obj
    BY <1>1, <1>3 DEF New
  <2>2. m.id[x[1]] = m1.id[x[1]]
    BY <1>4, <2>1 DEF OwnedBy
  <2> QED BY <2>1, <2>2, NilIsNoId
<1> QED BY <1>2, <1>3, <1>5

LEMMA SaveFrames ==
    ASSUME NEW m \in Objects, NEW mk \in [Obj -> Nat], NEW g \in Graph, NEW r, NEW d,
           OwnedBy(m, g), Joined(g),
           NEW out \in SaveOutcomes(m, mk, g, r, d)
    PROVE  Frames(m, g, Parsed(m, r, d), Relations(m, r, d), out)
<1> DEFINE N    == Parsed(m, r, d)
           rels == Relations(m, r, d)
           m1   == Created(m, mk, N)
           g1   == CreatedIn(m, mk, g, N)
           g2   == RemovedIn(m, mk, g, N)
<1>1. N \in SUBSET Obj /\ New(m, N) \subseteq N
  BY DEF Parsed, New
<1>2. \/ Half(m, mk, g, N, out) \/ Early(m, mk, g, N, out) \/ Late(m, mk, g, N, out)
      \/ Whole(m, mk, g, N, rels, out)
  BY Endings
<1> SUFFICES Frames(m, g, N, rels, out)
  OBVIOUS
<1> HIDE DEF N, rels
<1>3. CASE Half(m, mk, g, N, out)
  <2>1. PICK S \in SUBSET New(m, N), T \in SUBSET N :
           out.mem \in {WithIds(m, mk, S), WithLoadMaps(WithIds(m, mk, S), T)}
    BY <1>3 DEF Half
  <2>2. out.graph = g
    BY <1>3 DEF Half
  <2> DEFINE w == WithIds(m, mk, S)
  <2>3. /\ w \in Objects /\ w.ref = m.ref /\ w.load = m.load
        /\ w.id = [o \in Obj |-> IF o \in S THEN <<o, mk[o] + 1>> ELSE m.id[o]]
    BY WithIdsTyped
  <2> HIDE DEF w
  <2>4. /\ WithLoadMaps(w, T).ref = w.ref /\ WithLoadMaps(w, T).id = w.id
        /\ WithLoadMaps(w, T).load = [o \in Obj |-> IF o \in T THEN CurRels(w, o) ELSE w.load[o]]
    BY <2>3, WithLoadMapsTyped
  <2>5. out.mem.ref = m.ref /\ out.mem.id = w.id /\ \A o \in Obj \ N : out.mem.load[o] = m.load[o]
    <3>1. CASE out.mem = w
      BY <2>3, <3>1
    <3>2. CASE out.mem = WithLoadMaps(w, T)
      BY <2>3, <2>4, <3>2
    <3> QED BY <2>1, <3>1, <3>2 DEF w
  <2>6. \A o \in Obj \ N : out.mem.id[o] = m.id[o]
    BY <1>1, <2>3, <2>5
  <2> QED BY <2>2, <2>5, <2>6 DEF Frames
<1>4. /\ m1 \in Objects /\ m1.ref = m.ref /\ m1.load = m.load
      /\ m1.id = [o \in Obj |-> IF o \in New(m, N) THEN <<o, mk[o] + 1>> ELSE m.id[o]]
      /\ g1.rels = g.rels /\ g1.nodes = g.nodes \cup {m1.id[o] : o \in New(m, N)}
      /\ g2 \in Graph /\ g2.nodes = g1.nodes
      /\ g2.rels = g.rels \ Removed(m1, g1, Dels(m1, N))
  BY <1>1, CreatedParts, Parts
<1>5. \A e \in g.rels \ g2.rels : \E o \in N, f \in Field : \E i \in m.load[o][f] :
         <<e[2], e[3]>> = <<m.id[o], i>> \/ <<e[3], e[2]>> = <<m.id[o], i>>
  <2> SUFFICES ASSUME NEW e \in g.rels \ g2.rels
               PROVE  \E o \in N, f \in Field : \E i \in m.load[o][f] :
                         <<e[2], e[3]>> = <<m.id[o], i>> \/ <<e[3], e[2]>> = <<m.id[o], i>>
    OBVIOUS
  <2>1. e \in Removed(m1, g1, Dels(m1, N))
    BY <1>4
  <2> QED BY <1>1, <2>1, RemovesLoaded
<1> HIDE DEF m1, g1, g2
<1>6. ASSUME NEW S \in SUBSET N, out.mem = WithLoadMaps(m1, S)
      PROVE  /\ out.mem.ref = m.ref
             /\ \A o \in Obj \ N : out.mem.id[o] = m.id[o] /\ out.mem.load[o] = m.load[o]
             /\ {m1.id[o] : o \in New(m, N)} \subseteq {out.mem.id[o] : o \in N}
  <2>1. /\ out.mem.ref = m.ref /\ out.mem.id = m1.id
        /\ out.mem.load = [o \in Obj |-> IF o \in S THEN CurRels(m1, o) ELSE m.load[o]]
    <3> DEFINE w == WithLoadMaps(m1, S)
    <3>1. /\ w.ref = m1.ref /\ w.id = m1.id
          /\ w.load = [o \in Obj |-> IF o \in S THEN CurRels(m1, o) ELSE m1.load[o]]
      BY <1>4, WithLoadMapsTyped
    <3> HIDE DEF w
    <3> QED BY <1>4, <1>6, <3>1 DEF w
  <2>2. New(m, N) \subseteq N
    BY DEF New
  <2>3. ASSUME NEW o \in Obj \ N PROVE out.mem.id[o] = m.id[o] /\ out.mem.load[o] = m.load[o]
    <3>1. o \in Obj /\ o \notin New(m, N) /\ o \notin S
      BY <2>2, <2>3
    <3>2. m1.id[o] = m.id[o]
      BY <1>4, <3>1
    <3> QED BY <2>1, <3>1, <3>2
  <2>4. {m1.id[o] : o \in New(m, N)} \subseteq {out.mem.id[o] : o \in N}
    BY <2>1, <2>2
  <2> QED BY <2>1, <2>3, <2>4
<1>7. CASE Early(m, mk, g, N, out)
  <2>1. PICK S \in SUBSET N : out.mem = WithLoadMaps(m1, S) /\ out.graph = g1
    BY <1>7 DEF Early, m1, g1
  <2> QED BY <1>4, <1>6, <2>1 DEF Frames
<1>8. CASE Late(m, mk, g, N, out)
  <2>1. out.mem = WithLoadMaps(m1, N) /\ out.graph = g2
    BY <1>8 DEF Late, m1, g2
  <2> QED BY <1>4, <1>5, <1>6, <2>1 DEF Frames
<1>9. CASE Whole(m, mk, g, N, rels, out)
  <2>1. out.mem = WithLoadMaps(m1, N) /\ out.graph = MergeRels(g2, RelRows(out.mem, rels))
    BY <1>9 DEF Whole, m1, g2
  <2>2. out.graph.nodes = g2.nodes
        /\ out.graph.rels = g2.rels \cup {e \in RelRows(out.mem, rels) : e[2] \in g2.nodes /\ e[3] \in g2.nodes}
    BY <2>1 DEF MergeRels
  <2> QED BY <1>4, <1>5, <1>6, <2>1, <2>2 DEF Frames
<1> QED BY <1>2, <1>3, <1>7, <1>8, <1>9

\* A step of a Save, in the graph the session sees: what SaveOutcomes says, but an
\* attempt that was not committed leaves that graph alone, as GiveUp leaves everything.
SavedBy(out) ==
    /\ out \in SaveOutcomes(mem, made, View, last'.root, last'.depth)
    /\ last'.root \in Obj /\ last'.depth \in Nat
    /\ mem' = out.mem /\ View' \in {View, out.graph}
    /\ last'.ret = "nil" /\ tx'.state # "failed" => out.ret = "nil" /\ View' = out.graph

LEMMA SaveSteps ==
    ASSUME StoreInv, Next, last'.op \in {"save", "attempt"}
    PROVE  \/ \E out : SavedBy(out)
           \/ UNCHANGED <<mem, db, tx>> /\ last'.ret = "error"
<1>1. CASE Attempt
  <2>1. /\ tx.state = "none" /\ tx' = tx /\ task # Nil
        /\ task.root \in Obj /\ task.depth \in Nat
    BY <1>1, BoundsAreNat DEF Attempt, StoreInv, TypeOK, Apart
  <2>2. PICK out \in SaveOutcomes(mem, made, db, task.root, task.depth) :
           /\ mem' = out.mem /\ db' \in {db, out.graph}
           /\ \/ \E op : out.ret = "nil" /\ db' = out.graph /\ last' = Call(op, task.root, task.depth, "nil")
              \/ \E op, ret : ret # "nil" /\ last' = Call(op, task.root, task.depth, ret)
    <3>1. PICK out \in SaveOutcomes(mem, made, db, task.root, task.depth) :
             /\ mem' = out.mem
             /\ \/ /\ out.ret = "nil" /\ db' = out.graph
                   /\ last' = Call("save", task.root, task.depth, "nil")
                \/ /\ db' \in {db} \cup (IF out.ret = "nil" THEN {out.graph} ELSE {})
                   /\ last' = Call("attempt", task.root, task.depth,
                                   IF out.ret = "error" THEN "error" ELSE "failed")
      BY <1>1 DEF Attempt
    <3>2. db' \in {db, out.graph}
      BY <3>1
    <3>3. (IF out.ret = "error" THEN "error" ELSE "failed") # "nil"
      OBVIOUS
    <3> HIDE DEF Attempt
    <3> QED BY <3>1, <3>2, <3>3
  <2>3. View = db /\ View' = db'
    BY <2>1 DEF View
  <2>4. last'.root = task.root /\ last'.depth = task.depth /\ (last'.ret = "nil" => out.ret = "nil" /\ db' = out.graph)
    BY <2>2 DEF Call
  <2> QED BY <2>1, <2>2, <2>3, <2>4 DEF SavedBy
<1>2. CASE \E r \in Obj, d \in Depths : SaveInTx(r, d)
  <2>1. PICK r \in Obj, d \in Depths : SaveInTx(r, d)
    BY <1>2
  <2>2. PICK out \in SaveOutcomes(mem, made, tx.graph, r, d) :
           /\ mem' = out.mem
           /\ tx' = [state |-> IF out.ret \in {"failed", "lost"} THEN "failed" ELSE "open",
                     graph |-> out.graph]
           /\ last' = Call("save", r, d, IF out.ret = "lost" THEN "nil" ELSE out.ret)
    BY <2>1 DEF SaveInTx
  <2>3. tx.state = "open" /\ tx'.state # "none" /\ tx'.graph = out.graph
    BY <2>1, <2>2 DEF SaveInTx
  <2>4. View = tx.graph /\ View' = out.graph
    BY <2>3 DEF View
  <2>5. last'.root = r /\ last'.depth = d /\ d \in Nat
    BY <2>2, BoundsAreNat DEF Call
  <2>6. last'.ret = "nil" /\ tx'.state # "failed" => out.ret = "nil"
    BY <2>2 DEF Call
  <2> QED BY <2>1, <2>2, <2>4, <2>5, <2>6 DEF SavedBy
<1>3. CASE GiveUp
  BY <1>3 DEF GiveUp, Call
<1>4. ASSUME NEW ref, Edit(ref) PROVE FALSE
  BY <1>4 DEF Edit, Call
<1>5. CASE \E r \in Obj, d \in Depths : StartSave(r, d)
  BY <1>5 DEF StartSave, Call
<1>6. CASE Begin \/ Commit \/ Rollback
  BY <1>6 DEF Begin, Commit, Rollback, Call
<1>7. CASE \E o \in Obj : Delete(o)
  BY <1>7 DEF Delete, Call
<1> QED BY <1>1, <1>2, <1>3, <1>4, <1>5, <1>6, <1>7 DEF Next, SetOneSide, Link, Unlink

\* The graph the session sees is one of the two of the invariant.
LEMMA Viewed ==
    ASSUME StoreInv
    PROVE  /\ mem \in Objects /\ made \in [Obj -> Nat] /\ View \in Graph
           /\ OwnedBy(mem, View) /\ Joined(View)
BY DEF StoreInv, TypeOK, View, Owned, OwnedBy

\* Any step of a Save, also one that fails, leaves alone what lies beyond its depth
\* (SaveFrame), whatever the LoadMaps and the database hold.
THEOREM SavesStayWithinDepth == Spec => SaveFrame
<1>1. ASSUME StoreInv, Next, SaveStep PROVE StaysWithinDepth
  <2>1. CASE UNCHANGED <<mem, db, tx>>
    BY <2>1 DEF StaysWithinDepth, View
  <2>2. ASSUME NEW out, SavedBy(out) PROVE StaysWithinDepth
    <3> DEFINE N == Parsed(mem, last'.root, last'.depth)
               rels == Relations(mem, last'.root, last'.depth)
    <3>1. Frames(mem, View, N, rels, out)
      BY <1>1, <2>2, Viewed, SaveFrames DEF SavedBy
    <3>2. mem' = out.mem /\ View' \in {View, out.graph}
      BY <2>2 DEF SavedBy
    <3> HIDE DEF N, rels
    <3>3. /\ \A o \in Obj \ N : mem'.id[o] = mem.id[o] /\ mem'.load[o] = mem.load[o]
          /\ View.nodes \subseteq View'.nodes /\ View'.nodes \ View.nodes \subseteq {mem'.id[o] : o \in N}
          /\ View'.rels \ View.rels \subseteq RelRows(mem', rels)
      BY <3>1, <3>2 DEF Frames
    <3> DEFINE Known == {<<mem.id[o], i>> : o \in N, i \in UNION {mem.load[p][f] : p \in N, f \in Field}}
               Loaded == {k \in Known : \E o \in N, f \in Field : k[1] = mem.id[o] /\ k[2] \in mem.load[o][f]}
    <3>4. ASSUME NEW e \in View.rels \ View'.rels PROVE e \in Between(View, Loaded)
      <4>1. PICK o \in N, f \in Field : \E i \in mem.load[o][f] :
               <<e[2], e[3]>> = <<mem.id[o], i>> \/ <<e[3], e[2]>> = <<mem.id[o], i>>
        BY <3>1, <3>2 DEF Frames
      <4>2. PICK i \in mem.load[o][f] :
               <<e[2], e[3]>> = <<mem.id[o], i>> \/ <<e[3], e[2]>> = <<mem.id[o], i>>
        BY <4>1
      <4>3. <<mem.id[o], i>> \in Loaded
        BY <4>1, <4>2
      <4> HIDE DEF Loaded
      <4> QED BY <4>2, <4>3 DEF Between
    <3> HIDE DEF Loaded
    <3> QED BY <3>3, <3>4 DEF StaysWithinDepth, N, rels, Loaded
  <2> QED BY <1>1, <2>1, <2>2, SaveSteps DEF SaveStep
<1>2. StoreInv /\ [Next]_vars => [SaveStep => StaysWithinDepth]_vars
  BY <1>1
<1> QED BY <1>2, StoreInvariant, PTL DEF Spec, SaveFrame

LEMMA ObjectsAreClosed == ASSUME NEW m \in Objects PROVE Closed(m)
BY DEF Closed, Targets, Objects

\* The relationships of a Save: each belongs to a field of an object above the last level.
LEMMA RelationsAre ==
    ASSUME NEW m \in Objects, NEW r \in Obj, NEW d \in Nat, NEW e \in Relations(m, r, d)
    PROVE  e[2] \in Obj /\ e[3] \in Obj
<1>1. PICK o \in Parsed(m, r, d - 1), f \in Field : e \in {RelOf(o, f, p) : p \in m.ref[o][f]}
  BY DEF Relations
<1>2. PICK p \in m.ref[o][f] : e = RelOf(o, f, p)
  BY <1>1
<1>3. o \in Obj /\ p \in Obj
  BY DEF Parsed, Objects
<1> QED BY <1>2, <1>3 DEF RelOf

\* What a Save that returned nil has done.
LEMMA NilIsWhole ==
    ASSUME NEW m, NEW mk, NEW g, NEW r, NEW d,
           NEW out \in SaveOutcomes(m, mk, g, r, d), out.ret = "nil"
    PROVE  Whole(m, mk, g, Parsed(m, r, d), Relations(m, r, d), out)
BY Endings DEF Half, Early, Late

\* Above the last level, a Save that returned nil leaves LoadMaps as the fields are,
\* and the relationships of the fields in the graph.
LEMMA WholeMirrors ==
    ASSUME NEW m \in Objects, NEW mk \in [Obj -> Nat], NEW g \in Graph, NEW r \in Obj, NEW d \in Nat,
           NEW out, Whole(m, mk, g, Parsed(m, r, d), Relations(m, r, d), out),
           NEW o \in Inner(m, r, d), NEW f \in Field
    PROVE  /\ out.mem.load[o][f] = {out.mem.id[p] : p \in m.ref[o][f]}
           /\ \A p \in m.ref[o][f] :
                 /\ p \in Parsed(m, r, d) /\ o \in Parsed(m, r, d)
                 /\ out.mem.id[o] \in out.graph.nodes /\ out.mem.id[p] \in out.graph.nodes
                    => LET e == RelOf(o, f, p)
                       IN  <<e[1], out.mem.id[e[2]], out.mem.id[e[3]]>> \in out.graph.rels
<1> DEFINE N    == Parsed(m, r, d)
           rels == Relations(m, r, d)
           m1   == Created(m, mk, N)
           g2   == RemovedIn(m, mk, g, N)
<1>1. d - 1 \in Nat /\ d # 0 /\ o \in Parsed(m, r, d - 1)
  BY DEF Inner
<1>2. N = Level(m, Parsed(m, r, d - 1))
  BY <1>1, ObjectsAreClosed, ParsedIs
<1>3. o \in N /\ m.ref[o][f] \subseteq N
  BY <1>1, <1>2 DEF Level, Targets
<1>4. N \in SUBSET Obj
  BY DEF Parsed
<1>5. out.mem = WithLoadMaps(m1, N) /\ out.graph = MergeRels(g2, RelRows(out.mem, rels))
  BY DEF Whole
<1>6. \A p \in m.ref[o][f] : RelOf(o, f, p) \in rels
  <2> DEFINE S == {RelOf(o, f, p) : p \in m.ref[o][f]}
             T == {{RelOf(q, h, p) : p \in m.ref[q][h]} : q \in Parsed(m, r, d - 1), h \in Field}
  <2>1. S \in T
    BY <1>1
  <2>2. rels = UNION T
    BY <1>1 DEF Relations
  <2> HIDE DEF T, rels
  <2> QED BY <2>1, <2>2
<1> HIDE DEF N, rels
<1>7. m1 \in Objects /\ m1.ref = m.ref /\ (\A p \in N : m1.id[p] \in Id)
  BY <1>4, CreatedParts
<1> HIDE DEF m1, g2
<1>8. out.mem.id = m1.id /\ out.mem.load = [p \in Obj |-> IF p \in N THEN CurRels(m1, p) ELSE m1.load[p]]
  <2> DEFINE w == WithLoadMaps(m1, N)
  <2>1. w.id = m1.id /\ w.load = [p \in Obj |-> IF p \in N THEN CurRels(m1, p) ELSE m1.load[p]]
    BY <1>7, WithLoadMapsTyped
  <2> HIDE DEF w
  <2> QED BY <1>5, <2>1 DEF w
<1>9. out.mem.load[o][f] = {out.mem.id[p] : p \in m.ref[o][f]}
  <2>1. out.mem.load[o][f] = {m1.id[p] : p \in m.ref[o][f]} \ {Nil}
    BY <1>3, <1>4, <1>7, <1>8 DEF CurRels
  <2>2. \A p \in m.ref[o][f] : m1.id[p] # Nil
    BY <1>3, <1>7, NilIsNoId DEF Id
  <2> QED BY <1>8, <2>1, <2>2
<1>10. ASSUME NEW p \in m.ref[o][f],
              out.mem.id[o] \in out.graph.nodes, out.mem.id[p] \in out.graph.nodes
       PROVE  LET e == RelOf(o, f, p)
              IN  <<e[1], out.mem.id[e[2]], out.mem.id[e[3]]>> \in out.graph.rels
  <2> DEFINE e   == RelOf(o, f, p)
             row == <<e[1], out.mem.id[e[2]], out.mem.id[e[3]]>>
  <2>1. e[2] \in {o, p} /\ e[3] \in {o, p} /\ e \in rels
    BY <1>6 DEF RelOf
  <2> HIDE DEF e
  <2>2. row \in RelRows(out.mem, rels)
    BY <2>1 DEF RelRows
  <2>3. row[2] \in out.graph.nodes /\ row[3] \in out.graph.nodes
    BY <1>10, <2>1
  <2> HIDE DEF row
  <2>4. row \in out.graph.rels
    BY <1>5, <2>2, <2>3 DEF MergeRels
  <2> QED BY <2>4 DEF row, e
<1> QED BY <1>3, <1>9, <1>10 DEF N

\* After a Save that returned nil memory mirrors the graph above the last level
\* (SaveMirrors): the walks of parseStruct, generateCurRels and relateNodes agree.
THEOREM SavedGraphIsMirrored == Spec => []SaveMirrors
<1>1. Init => SaveMirrors
  BY DEF Init, SaveMirrors, JustSaved, Call
<1>2. ASSUME StoreInv, Next, JustSaved', \A o \in Parsed(mem', last'.root, last'.depth) : Stored(o)',
             NEW o \in Inner(mem', last'.root, last'.depth), NEW f \in Field
      PROVE  /\ mem'.load[o][f] = {mem'.id[p] : p \in mem'.ref[o][f]}
             /\ \A p \in mem'.ref[o][f] :
                   <<RelOf(o, f, p)[1], mem'.id[RelOf(o, f, p)[2]], mem'.id[RelOf(o, f, p)[3]]>> \in View'.rels
  <2>1. PICK out : SavedBy(out)
    BY <1>2, SaveSteps DEF JustSaved
  <2> DEFINE r == last'.root
             d == last'.depth
  <2>2. /\ out \in SaveOutcomes(mem, made, View, r, d) /\ r \in Obj /\ d \in Nat
        /\ mem' = out.mem /\ out.ret = "nil" /\ View' = out.graph
    BY <1>2, <2>1 DEF SavedBy, JustSaved
  <2> HIDE DEF r, d
  <2>3. mem \in Objects /\ made \in [Obj -> Nat] /\ View \in Graph /\ OwnedBy(mem, View) /\ Joined(View)
    BY <1>2, Viewed
  <2>4. mem'.ref = mem.ref
    BY <2>2, <2>3, SaveFrames DEF Frames
  <2>5. Closed(mem)
    BY <2>3, ObjectsAreClosed
  <2>6. \A k \in Nat : Parsed(mem', r, k) = Parsed(mem, r, k)
    BY <2>2, <2>4, <2>5, ParsedSame
  <2>7. o \in Inner(mem, r, d)
    BY <1>2, <2>2, <2>6 DEF Inner, r, d
  <2>8. Whole(mem, made, View, Parsed(mem, r, d), Relations(mem, r, d), out)
    BY <2>2, NilIsWhole
  <2>9. /\ out.mem.load[o][f] = {out.mem.id[p] : p \in mem.ref[o][f]}
        /\ \A p \in mem.ref[o][f] :
              /\ p \in Parsed(mem, r, d) /\ o \in Parsed(mem, r, d)
              /\ out.mem.id[o] \in out.graph.nodes /\ out.mem.id[p] \in out.graph.nodes
                 => LET e == RelOf(o, f, p)
                    IN  <<e[1], out.mem.id[e[2]], out.mem.id[e[3]]>> \in out.graph.rels
    BY <2>2, <2>3, <2>7, <2>8, WholeMirrors
  <2>10. \A p \in Parsed(mem, r, d) : out.mem.id[p] \in out.graph.nodes
    BY <1>2, <2>2, <2>6 DEF Stored, r, d
  <2> QED BY <2>2, <2>4, <2>9, <2>10
<1>3. StoreInv /\ SaveMirrors /\ [Next]_vars => SaveMirrors'
  <2>1. CASE UNCHANGED vars
    BY <2>1 DEF vars, SaveMirrors, JustSaved, Stored, View
  <2>2. StoreInv /\ Next => SaveMirrors'
    BY <1>2 DEF SaveMirrors
  <2> QED BY <2>1, <2>2
<1> QED BY <1>1, <1>3, StoreInvariant, PTL DEF Spec

\* An id names its object.
OwnIds(m) == \A o \in Obj : m.id[o] # Nil => m.id[o][1] = o

\* A relationship of a Save's graph between an object and one its LoadMap names and
\* its field has let go is one that the Save relates.
Cleared(m, r, d, h) ==
    \A o \in Parsed(m, r, d), f \in Field, p \in Obj, e \in h.rels :
       /\ m.id[p] \in m.load[o][f] /\ p \notin m.ref[o][f]
       /\ \/ e[2] = m.id[o] /\ e[3] = m.id[p]
          \/ e[3] = m.id[o] /\ e[2] = m.id[p]
       => \E x \in Relations(m, r, d) : {x[2], x[3]} = {o, p}

\* A Save that returned nil has removed what a LoadMap named and no field holds.
LEMMA WholeRemoves ==
    ASSUME NEW m \in Objects, NEW mk \in [Obj -> Nat], NEW g \in Graph, NEW r \in Obj, NEW d \in Nat,
           OwnIds(m),
           NEW out, Whole(m, mk, g, Parsed(m, r, d), Relations(m, r, d), out)
    PROVE  Cleared(m, r, d, out.graph)
<1> SUFFICES ASSUME NEW o \in Parsed(m, r, d), NEW f \in Field, NEW p \in Obj,
                    NEW e \in out.graph.rels,
                    m.id[p] \in m.load[o][f], p \notin m.ref[o][f],
                    \/ e[2] = m.id[o] /\ e[3] = m.id[p]
                    \/ e[3] = m.id[o] /\ e[2] = m.id[p]
             PROVE  \E x \in Relations(m, r, d) : {x[2], x[3]} = {o, p}
  BY DEF Cleared
<1> DEFINE N    == Parsed(m, r, d)
           rels == Relations(m, r, d)
           m1   == Created(m, mk, N)
           g1   == CreatedIn(m, mk, g, N)
           g2   == RemovedIn(m, mk, g, N)
<1>1. N \in SUBSET Obj /\ o \in N
  BY DEF Parsed
<1>2. out.mem = WithLoadMaps(m1, N) /\ out.graph = MergeRels(g2, RelRows(out.mem, rels))
  BY DEF Whole
<1>3. \A x \in rels : x[2] \in Obj /\ x[3] \in Obj
  BY RelationsAre
<1> HIDE DEF N, rels
<1>4. /\ m1 \in Objects /\ m1.ref = m.ref /\ m1.load = m.load
      /\ m1.id = [q \in Obj |-> IF q \in New(m, N) THEN <<q, mk[q] + 1>> ELSE m.id[q]]
      /\ g1.rels = g.rels /\ g1.nodes = g.nodes \cup {m1.id[q] : q \in New(m, N)}
      /\ g2 \in Graph /\ g2.nodes = g1.nodes
      /\ g2.rels = g.rels \ Removed(m1, g1, Dels(m1, N))
  BY <1>1, CreatedParts, Parts
<1> HIDE DEF m1, g1, g2
<1>5. out.mem.id = m1.id
  <2> DEFINE w == WithLoadMaps(m1, N)
  <2>1. w.id = m1.id
    BY <1>4, WithLoadMapsTyped
  <2> HIDE DEF w
  <2> QED BY <1>2, <2>1 DEF w
<1>6. OwnIds(m1)
  BY <1>4 DEF OwnIds
<1>7. /\ out.graph.nodes = g2.nodes
      /\ out.graph.rels = g2.rels \cup {x \in RelRows(out.mem, rels) : x[2] \in g2.nodes /\ x[3] \in g2.nodes}
  BY <1>2 DEF MergeRels
<1>8. /\ e \in out.graph.rels
      /\ \/ e[2] = m.id[o] /\ e[3] = m.id[p]
         \/ e[3] = m.id[o] /\ e[2] = m.id[p]
  OBVIOUS
<1>9. e[2] \in g2.nodes \cup Id /\ e[3] \in g2.nodes \cup Id
  <2>1. g2.rels \subseteq Type \X Id \X Id
    BY <1>4 DEF Graph
  <2> QED BY <1>7, <1>8, <2>1
<1>10. m.id[o] # Nil /\ m.id[p] # Nil
  BY <1>4, <1>8, <1>9, NilIsNoId DEF Graph, Id
<1>11. m1.id[o] = m.id[o] /\ m1.id[p] = m.id[p]
  BY <1>1, <1>4, <1>10 DEF New
<1>12. \A q \in Obj : m1.id[q] = m.id[p] => q = p
  BY <1>6, <1>10, <1>11 DEF OwnIds
<1>13. \A q \in Obj : m1.id[q] = m.id[o] => q = o
  BY <1>1, <1>6, <1>10, <1>11 DEF OwnIds
<1>14. CASE e \in g2.rels
  <2> DEFINE x == <<o, f, m.id[p]>>
  <2>1. m.ref[o][f] \subseteq Obj
    BY <1>1 DEF Objects
  <2>2. CurRels(m1, o)[f] = {m1.id[q] : q \in m.ref[o][f]} \ {Nil}
    BY <1>4 DEF CurRels
  <2>3. m.id[p] \notin CurRels(m1, o)[f]
    BY <1>12, <2>1, <2>2
  <2>4. m.id[p] \in m1.load[o][f] /\ m.id[p] \in LoadedIds(m1, N)
    BY <1>1, <1>4 DEF LoadedIds
  <2>5. x \in Dels(m1, N)
    BY <1>1, <2>3, <2>4 DEF Dels
  <2>6. <<m1.id[x[1]], x[3]>> = <<m.id[o], m.id[p]>>
    BY <1>11
  <2> HIDE DEF x
  <2> DEFINE pairs == {<<m1.id[y[1]], y[3]>> : y \in Dels(m1, N)}
  <2>7. <<m.id[o], m.id[p]>> \in pairs
    BY <2>5, <2>6
  <2>8. Removed(m1, g1, Dels(m1, N)) = Between(g1, pairs)
    BY DEF Removed
  <2> HIDE DEF pairs
  <2>9. e \in Between(g1, pairs)
    BY <1>4, <1>8, <1>14, <2>7 DEF Between
  <2> QED BY <1>4, <1>14, <2>8, <2>9
<1>15. CASE e \in RelRows(out.mem, rels)
  <2>1. PICK x \in rels : e = <<x[1], out.mem.id[x[2]], out.mem.id[x[3]]>>
    BY <1>15 DEF RelRows
  <2>2. e[2] = m1.id[x[2]] /\ e[3] = m1.id[x[3]]
    BY <1>5, <2>1
  <2>3. {x[2], x[3]} = {o, p}
    BY <1>3, <1>8, <1>12, <1>13, <2>2
  <2> QED BY <2>3 DEF rels
<1> QED BY <1>7, <1>8, <1>14, <1>15

\* When a Save returns nil nothing of what its objects were loaded with and have let
\* go is left in the graph, but for an object whose LoadMap an attempt of the same
\* call, one that failed, has replaced (SaveRemoves).
THEOREM UnlinkedIsRemoved == Spec => SaveRemoves
<1>1. ASSUME StoreInv, Next, SaveReturnsNil,
             NEW o \in Parsed(mem, last'.root, last'.depth), mem.load[o] = Began[o]
      PROVE  RemovesUnlinked(o)
  <2>1. PICK out : SavedBy(out)
    BY <1>1, SaveSteps DEF SaveReturnsNil, SaveStep
  <2>2. /\ last'.root \in Obj /\ last'.depth \in Nat /\ View' = out.graph
        /\ Whole(mem, made, View, Parsed(mem, last'.root, last'.depth),
                 Relations(mem, last'.root, last'.depth), out)
    BY <1>1, <2>1, NilIsWhole DEF SavedBy, SaveReturnsNil
  <2>3. mem \in Objects /\ made \in [Obj -> Nat] /\ View \in Graph /\ OwnIds(mem)
    BY <1>1, Viewed DEF StoreInv, IdsAreOwn, OwnIds
  <2>4. Cleared(mem, last'.root, last'.depth, View')
    BY <2>2, <2>3, WholeRemoves
  <2> QED BY <1>1, <2>4 DEF Cleared, RemovesUnlinked, Between
<1>2. StoreInv /\ [Next]_vars =>
         [SaveReturnsNil => \A o \in Parsed(mem, last'.root, last'.depth) :
                               mem.load[o] = Began[o] => RemovesUnlinked(o)]_vars
  BY <1>1
<1> QED BY <1>2, StoreInvariant, PTL DEF Spec, SaveRemoves
=============================================================================
