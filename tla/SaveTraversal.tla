----------------------------- MODULE SaveTraversal -----------------------------
(***************************************************************************)
(* The two walks of saveDepth over one object graph, side by side: the one *)
(* of parseStruct, which may come to an object again on a shorter path,    *)
(* and the one of generateCurRels, which never does.  saveDepth needs a    *)
(* record of the second for every object of the first ("load config not    *)
(* found for node").  The input is any graph of references between objects *)
(* that all have their ids, as after createNodes.                          *)
(***************************************************************************)
EXTENDS SaveWork

CONSTANT Depths  \* the depths saveDepth is called with

ASSUME DepthsAreNat == Depths \subseteq Nat

VARIABLES mem,    \* the objects
          root,   \* the one that is saved
          depth,  \* how deep
          seen    \* the objects generateCurRels has a record of; {} before it ran

vars == <<mem, root, depth, seen>>

Init == /\ \E links \in [Obj -> SUBSET Obj] :
              /\ \A o \in Obj : o \notin links[o]
              /\ mem = [ref  |-> [o \in Obj |-> [f \in Field |-> links[o]]],
                        id   |-> [o \in Obj |-> <<o, 1>>],
                        load |-> [o \in Obj |-> [f \in Field |-> {}]]]
        /\ root \in Obj
        /\ depth \in Depths
        /\ seen = {}

\* generateCurRels, in one of the orders its maps may be ranged over.
GenerateCurRels == /\ seen = {}
                   /\ seen' \in Visits(mem, root, depth)
                   /\ UNCHANGED <<mem, root, depth>>

Next == GenerateCurRels

Spec == Init /\ [][Next]_vars

\* Every object that is saved has its record: no order of the walk cuts off what
\* parseStruct reached.  True at depths 0 and 1 and as soon as the depth reaches
\* the length of the longest path; in between a long way round may use up the depth.
WalkCovers == seen # {} => Parsed(mem, root, depth) \subseteq seen

\* No object has a record that is not saved.
WalkStaysWithin == seen # {} => seen \subseteq Parsed(mem, root, depth)
=============================================================================
