---------------------------- MODULE MCSaveTraversal ----------------------------
(* Every graph of references between four objects, up to the choice of the root. *)
EXTENDS SaveTraversal, TLC

CONSTANTS a, b, c, d

Four       == {a, b, c, d}
MCField    == {"links"}
MCType     == {"linked_to"}
MCTypeOf   == [f \in Field |-> "linked_to"]
MCOutgoing == {"links"}
MCLabel    == {"node"}
MCLabelOf  == [o \in Obj |-> "node"]
Covered    == {0, 1, 3}
Between2   == {2}

Interchangeable == Permutations(Obj)
=============================================================================
