------------------------------ MODULE MCLoading ------------------------------
(* Loads from small databases: two nodes of type A, one of type B, one of a   *)
(* type X that is not mapped, and every set of two relationships of theirs.   *)
EXTENDS Loading, TLC

CONSTANTS a1, a2, b1, x

MCNode    == {a1, a2, b1, x}
MCLabelOf == a1 :> "A" @@ a2 :> "A" @@ b1 :> "B" @@ x :> "X"
MCMapped  == {"A", "B"}

Decl(owner, field, rel, target, dir, many) ==
    [owner |-> owner, field |-> field, rel |-> rel, target |-> target, dir |-> dir, many |-> many]

\* One type; one type, one field; two types, a pointer at one end; both; fields that
\* getConfig cannot tell apart; a field gogmcli skips; counts that match by chance.
OneType   == <<Decl("A", "next", "R", "A", "outgoing", TRUE), Decl("A", "prev", "R", "A", "incoming", TRUE)>>
Friends   == <<Decl("A", "friends", "R", "A", "both", TRUE)>>
Owned     == <<Decl("A", "bs", "S", "B", "outgoing", TRUE), Decl("B", "owner", "S", "A", "incoming", FALSE)>>
Crossed   == <<Decl("A", "to", "R", "B", "outgoing", TRUE), Decl("A", "of", "R", "B", "incoming", TRUE),
               Decl("B", "to", "R", "A", "outgoing", FALSE), Decl("B", "of", "R", "A", "incoming", TRUE)>>
Alike     == <<Decl("A", "n1", "R", "A", "none", TRUE), Decl("A", "n2", "R", "A", "none", TRUE)>>
Default   == <<Decl("A", "bs", "S", "B", "unset", TRUE), Decl("B", "owner", "S", "A", "incoming", TRUE)>>
ByChance  == <<Decl("A", "bs", "S", "B", "outgoing", TRUE), Decl("A", "prev", "S", "A", "incoming", TRUE)>>

MCSchemas == {OneType, Friends, Owned, Owned \o OneType, Crossed, Alike, Default, ByChance}

MCForeign == {<<"F", a1, a2>>, <<"F", a1, x>>}

Request(mode, strategy, label, match, depth, number, limit) ==
    [mode |-> mode, strategy |-> strategy, label |-> label, match |-> match, depth |-> depth,
     page |-> [number |-> number, limit |-> limit], tx |-> FALSE]

Strategy == {"path", "schema"}

InTx(R) == {[r EXCEPT !.tx = TRUE] : r \in R}

\* By id, of the right type or not; everything, or what meets a filter; by page; in a
\* transaction of the session.
MCRequests ==
    {Request("one", s, "A", {n}, d, 0, 0) : s \in Strategy, n \in {a1, b1}, d \in 0..2}
    \cup {Request("all", s, "A", M, d, 0, 0) : s \in Strategy, M \in {MCNode, {a1}}, d \in 0..2}
    \cup {Request("all", s, "A", {a1, a2, b1}, 1, p[1], p[2]) :
             s \in Strategy, p \in {<<0, 2>>, <<1, 2>>, <<1, 0>>, <<0, -1>>}}
    \cup {Request("all", "path", "A", {a1}, 2, 1, 2)}
    \cup {Request(m, "query", "A", {}, 0, 0, 0) : m \in {"one", "all"}}
    \cup InTx({Request("all", s, "A", MCNode, 1, 0, 0) : s \in Strategy})
    \cup InTx({Request("one", "path", "A", {a1}, 1, 0, 0)})

Filtered == {Request("all", "path", "A", {a1}, 1, 0, 0)}
==============================================================================
