------------------------ MODULE SaveTraversal_proofs ------------------------
(***************************************************************************)
(* The two walks of saveDepth agree, for any objects and references.       *)
(***************************************************************************)
EXTENDS SaveTraversal, SaveWork_proofs

\* The objects refer to each other and all have their ids; what was visited was
\* visited by generateCurRels.
TraversalInv == /\ Closed(mem)
                /\ \A o \in Obj : mem.id[o] # Nil
                /\ root \in Obj
                /\ depth \in Depths
                /\ seen # {} => seen \in Visits(mem, root, depth)

LEMMA TraversalInvariant == Spec => []TraversalInv
<1>1. Init => TraversalInv
  <2> SUFFICES ASSUME Init PROVE TraversalInv
    OBVIOUS
  <2>1. PICK links \in [Obj -> SUBSET Obj] :
           mem = [ref  |-> [o \in Obj |-> [f \in Field |-> links[o]]],
                  id   |-> [o \in Obj |-> <<o, 1>>],
                  load |-> [o \in Obj |-> [f \in Field |-> {}]]]
    BY DEF Init
  <2>2. \A o \in Obj : mem.id[o] = <<o, 1>> /\ <<o, 1>> \in Obj \X Nat
    BY <2>1
  <2>3. \A o \in Obj : mem.id[o] # Nil
    BY <2>2, NilIsNoId
  <2>4. \A o \in Obj : \A f \in Field : mem.ref[o][f] \subseteq Obj
    BY <2>1
  <2>5. Closed(mem)
    BY <2>4 DEF Closed, Targets
  <2> QED BY <2>3, <2>5 DEF Init, TraversalInv
<1>2. TraversalInv /\ [Next]_vars => TraversalInv'
  BY DEF TraversalInv, Next, GenerateCurRels, vars
<1> QED BY <1>1, <1>2, PTL DEF Spec

\* generateCurRels makes no record of an object that parseStruct does not reach, at any
\* depth and in any order of its maps: saveDepth changes the LoadMap of no object but
\* those it saves.
THEOREM WalksStayWithin == Spec => []WalkStaysWithin
<1>1. TraversalInv => WalkStaysWithin
  BY VisitsWithin, DepthsAreNat DEF TraversalInv, WalkStaysWithin
<1> QED BY <1>1, TraversalInvariant, PTL

\* No more objects can be reached from the root than the depth allows a path without
\* repetition to pass.
ReachIsSmall == \E R \in SUBSET Obj : /\ root \in R
                                     /\ \A o \in R : Targets(mem, o) \subseteq R
                                     /\ Cardinality(R) <= depth + 1

\* When the objects that can be reached are few enough for the depth, every object that is
\* saved has its record, in whatever order generateCurRels went: saveDepth does not fail
\* with "load config not found for node".
THEOREM SmallGraphsAreCovered == Spec => [](ReachIsSmall => WalkCovers)
<1>1. TraversalInv => (ReachIsSmall => WalkCovers)
  BY VisitsCover, DepthsAreNat DEF TraversalInv, ReachIsSmall, WalkCovers
<1> QED BY <1>1, TraversalInvariant, PTL

\* Every object that is saved has its record, if the depth is 0, 1, or enough for a path
\* through all objects; the run that cuts the walk off shows that depths in between are not.
THEOREM WalksCover ==
    ASSUME \A n \in Depths : n <= 1 \/ Cardinality(Obj) <= n + 1
    PROVE  Spec => []WalkCovers
<1>1. ASSUME TraversalInv, seen # {} PROVE Parsed(mem, root, depth) \subseteq seen
  <2>1. \A o \in Obj : Targets(mem, o) \subseteq Obj
    BY <1>1 DEF TraversalInv, Closed
  <2>2. Obj \in SUBSET Obj
    OBVIOUS
  <2>3. depth \in Nat /\ (depth <= 1 \/ Cardinality(Obj) <= depth + 1)
    BY <1>1, DepthsAreNat DEF TraversalInv
  <2>4. Closed(mem) /\ root \in Obj /\ (\A o \in Obj : mem.id[o] # Nil) /\ seen \in Visits(mem, root, depth)
    BY <1>1 DEF TraversalInv
  <2> QED BY <2>1, <2>2, <2>3, <2>4, VisitsCover
<1>2. TraversalInv => WalkCovers
  BY <1>1 DEF WalkCovers
<1> QED BY <1>2, TraversalInvariant, PTL
=============================================================================
