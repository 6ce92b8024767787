----------------------------- MODULE MCObjectStore -----------------------------
(* Bounded instances of ObjectStore: objects of two labels, each with a slice *)
(* field for either end of one relationship type.                             *)
EXTENDS ObjectStore

CONSTANTS a, b, c

Pair    == {a, b}
Triple  == {a, b, c}
MCField == {"children", "parents"}
MCType  == {"parent_of"}
MCTypeOf   == [f \in Field |-> "parent_of"]
MCOutgoing == {"children"}
MCLabel    == {"person", "pet"}
MCLabelOf  == [o \in Obj |-> IF o = a THEN "person" ELSE "pet"]
MCOpposite == [f \in Field |-> IF f = "children" THEN "parents" ELSE "children"]
ZeroToTwo  == 0..2
Deep       == {3}
=============================================================================
